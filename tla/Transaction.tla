---------------------------- MODULE Transaction ----------------------------
(***************************************************************************)
(* Transaction and Savepoint guards, with_transaction, and the retry loops *)
(* with_retry and with_retry_any around them (transaction/,                *)
(* error/retry.rs).                                                        *)
(*                                                                         *)
(* A guard is a promise about a block in the server's session that Drop    *)
(* cannot keep, because it sends nothing.  One statement is one step here; *)
(* module Connection is about the messages of which it consists.  A        *)
(* statement is answered, lost with the transport, abandoned by its caller *)
(* at an await, or refused by transition() before it is sent.  Callers     *)
(* send BEGIN, COMMIT and the like through the guards only.                *)
(***************************************************************************)
EXTENDS Naturals, Sequences

CONSTANTS
    Ids,           \* rows that one transaction writes
    Names,         \* savepoint names
    max_retries,   \* of with_retry and with_retry_any
    MaxRuns,       \* bound: calls of transaction()
    MaxSaves       \* bound: savepoints in a session

ASSUME BoundsAssumption ==
    max_retries \in Nat /\ MaxRuns \in Nat /\ MaxSaves \in Nat /\ "none" \notin Names

VARIABLES
    srv,      \* the server: block, uncommitted work, savepoints, committed rows
    link,     \* "up"; "owed": an answer is unread; "refused": stuck in Active; "down"
    status,   \* the client's transaction_status
    call,     \* how the Transaction in use was made, or "none"
    depth,    \* its savepoint_depth
    guard,    \* its Savepoint: name and released
    error,    \* the last error of its statements
    loop,     \* the retry loop around it
    run,      \* history: how often transaction() has been called
    mine,     \* history: rows that the current transaction has been told are written
    mark,     \* history: mine when the savepoint was made
    promised, \* history: rows reported as committed
    undone    \* history: runs reported as failed or rolled back

handles == <<call, depth, guard, error>>
history == <<run, mine, mark, promised, undone>>
vars == <<srv, link, status, handles, loop, history>>

-----------------------------------------------------------------------------
(* The server.                                                               *)
Rows == (1 .. MaxRuns) \X Ids

NoSaves == <<>>
EndBlock(s, keep) ==
    [s EXCEPT !.block = "Idle", !.work = {}, !.saves = NoSaves, !.durable = @ \cup keep]
Abort(s) == IF s.block = "Idle" THEN s ELSE [s EXCEPT !.block = "Failed"]
Hangup(s) == [EndBlock(s, {}) EXCEPT !.block = "Gone"]

HasSave(s, n) == \E i \in DOMAIN s.saves : s.saves[i].name = n
SaveAt(s, n) ==
    CHOOSE i \in DOMAIN s.saves :
        s.saves[i].name = n /\ \A j \in DOMAIN s.saves : j > i => s.saves[j].name # n

(* What a statement does when the server accepts it ...                      *)
Effect(s, q) ==
    CASE q[1] = "BEGIN"      -> [s EXCEPT !.block = "InTransaction"]   \* nested: a warning
      [] q[1] = "COMMIT"     -> EndBlock(s, IF s.block = "Failed" THEN {} ELSE s.work)
      [] q[1] = "ROLLBACK"   -> EndBlock(s, {})
      [] q[1] = "WRITE"      -> [s EXCEPT !.work = @ \cup {q[2]}]
      [] q[1] = "SAVEPOINT"  -> [s EXCEPT !.saves = Append(@, [name |-> q[2], work |-> s.work])]
      [] q[1] = "RELEASE"    -> [s EXCEPT !.saves = SubSeq(@, 1, SaveAt(s, q[2]) - 1)]
      [] q[1] = "ROLLBACK_TO" -> [s EXCEPT !.block = "InTransaction",
                                           !.work = s.saves[SaveAt(s, q[2])].work,
                                           !.saves = SubSeq(@, 1, SaveAt(s, q[2]))]

Accepts(s, q) ==
    /\ s.block = "Failed" => q[1] \in {"COMMIT", "ROLLBACK", "ROLLBACK_TO"}
    /\ s.block = "Idle" => q[1] \in {"BEGIN", "COMMIT", "ROLLBACK"}
    /\ q[1] \in {"RELEASE", "ROLLBACK_TO"} => HasSave(s, q[2])

(* ... and how it may fail: serialization failures and deadlocks strike      *)
(* statements with work to do and COMMIT.                                    *)
Failure(s, q) == IF q[1] = "COMMIT" THEN EndBlock(s, {}) ELSE Abort(s)
Errors(s, q) ==
    IF ~Accepts(s, q) THEN {"other"}
    ELSE IF q[1] = "WRITE" \/ (q[1] = "COMMIT" /\ s.block = "InTransaction")
         THEN {"serialization", "other"} ELSE {}

Answers(s, q) ==
    {[srv |-> Effect(s, q), res |-> "ok"] : x \in {y \in {q} : Accepts(s, y)}}
    \cup {[srv |-> Failure(s, q), res |-> e] : e \in Errors(s, q)}

(* Connection::execute: every way in which it can end.  A dead transport may *)
(* have carried the statement or not; so may a send that was abandoned,      *)
(* which leaves the connection Active, and every later call is refused.  An  *)
(* abandoned read leaves an answer that the next call reads first.           *)
execute(q) ==
    LET did == {a.srv : a \in Answers(srv, q)}
        End(s, l, st, r) == [srv |-> s, link |-> l, status |-> st, res |-> r]
    IN CASE link \in {"up", "owed"} ->
              {End(a.srv, "up", a.srv.block, a.res) : a \in Answers(srv, q)}
              \cup {End(Hangup(s), "down", status, "transport") : s \in did \cup {srv}}
              \cup {End(s, "refused", status, "abandoned") : s \in did \cup {srv}}
              \cup {End(s, "owed", status, "abandoned") :
                        s \in did \cup {t \in {srv} : link = "owed"}}
         [] link = "refused" -> {End(srv, link, status, "invalid")}
         [] link = "down"    -> {End(srv, link, status, "transport")}

Executed(e) == srv' = e.srv /\ link' = e.link /\ status' = e.status

-----------------------------------------------------------------------------
NoGuard   == [name |-> "none", released |-> FALSE]
NoLoop    == [on |-> FALSE, f |-> "manual", any |-> FALSE, attempt |-> 0, first |-> 1]

Init ==
    /\ srv = [block |-> "Idle", work |-> {}, saves |-> NoSaves, durable |-> {}]
    /\ link = "up" /\ status = "Idle"
    /\ call = "none" /\ depth = 0 /\ guard = NoGuard /\ error = "none"
    /\ loop = NoLoop
    /\ run = 0 /\ mine = {} /\ mark = {} /\ promised = {} /\ undone = {}

is_failed == status = "Failed"

-----------------------------------------------------------------------------
(* The retry loops: serialization failures and deadlocks, and for            *)
(* with_retry_any also timeouts.                                             *)
is_retryable(any, e) == e = "serialization" \/ (any /\ e = "timeout")

with_retry(f, any) ==
    /\ call = "none" /\ ~loop.on
    /\ loop' = [on |-> TRUE, f |-> f, any |-> any, attempt |-> 0, first |-> run + 1]
    /\ UNCHANGED <<srv, link, status, handles, history>>

(* Mutant: one attempt too many.                                             *)
NextAttemptInclusive(res) ==
    loop' = IF loop.on /\ is_retryable(loop.any, res) /\ loop.attempt <= max_retries
            THEN [loop EXCEPT !.attempt = @ + 1] ELSE [loop EXCEPT !.on = FALSE]

(* What the loop does with the result of an attempt.                         *)
NextAttempt(res) ==
    loop' = IF loop.on /\ is_retryable(loop.any, res) /\ loop.attempt < max_retries
            THEN [loop EXCEPT !.attempt = @ + 1] ELSE [loop EXCEPT !.on = FALSE]

(* A transaction ends and reports res, which promises that some rows are     *)
(* committed, or that none of this run ever will be, or nothing.             *)
Report(res, rows, none) ==
    /\ promised' = promised \cup rows
    /\ undone' = undone \cup {r \in {run} : none}
    /\ NextAttempt(res)

(* The future is dropped: no one is left to hear.                            *)
Unheard == loop' = [loop EXCEPT !.on = FALSE] /\ UNCHANGED <<promised, undone>>

Over ==
    /\ call' = "none" /\ depth' = 0 /\ guard' = NoGuard /\ error' = "none"
    /\ mine' = {} /\ mark' = {}

-----------------------------------------------------------------------------
(* Connection::transaction and transaction_with, by the caller itself or as  *)
(* the first line of with_transaction.                                       *)
transaction(by) ==
    /\ call = "none" /\ run < MaxRuns /\ (loop.on => by = loop.f)
    /\ run' = run + 1
    /\ \E e \in execute(<<"BEGIN">>) :
        /\ Executed(e)
        /\ \/ /\ e.res = "ok"
              /\ call' = by /\ depth' = 0 /\ guard' = NoGuard /\ error' = "none"
              /\ mine' = {} /\ mark' = {} /\ UNCHANGED <<promised, undone>>
              /\ loop' = IF loop.on THEN loop ELSE NoLoop
           \/ e.res \notin {"ok", "abandoned"} /\ Over /\ Report(e.res, {}, FALSE)
           \/ e.res = "abandoned" /\ Over /\ Unheard

(* The error a caller would return.  An abandoned statement is one that it   *)
(* gave up by a timeout of its own.                                          *)
Remember(e) ==
    error' = CASE e.res = "ok" -> error
               [] e.res = "abandoned" -> "timeout"
               [] OTHER -> e.res

(* The errors that a closure may return: that of a statement, or one of its  *)
(* own, which may be PgError::Timeout.                                       *)
Returned == ({error} \ {"none"}) \cup {"other", "timeout"}

(* Transaction::execute, query and the others, also through a Savepoint.     *)
Statement(i) ==
    /\ call # "none"
    /\ \E e \in execute(<<"WRITE", <<run, i>>>>) :
        /\ Executed(e)
        /\ mine' = IF e.res = "ok" THEN mine \cup {<<run, i>>} ELSE mine
        /\ Remember(e)
    /\ UNCHANGED <<call, depth, guard, loop, run, mark, promised, undone>>

savepoint(n) ==
    /\ call # "none" /\ guard = NoGuard /\ Len(srv.saves) < MaxSaves
    /\ \E e \in execute(<<"SAVEPOINT", n>>) :
        /\ Executed(e)
        /\ IF e.res = "ok"
           THEN /\ depth' = depth + 1 /\ guard' = [name |-> n, released |-> FALSE]
                /\ mark' = mine
           ELSE UNCHANGED <<depth, guard, mark>>
        /\ Remember(e)
    /\ UNCHANGED <<call, loop, run, mine, promised, undone>>

(* Drop for Savepoint, which also ends release() and rollback().             *)
DropSavepoint(g, d) == guard' = NoGuard /\ depth' = (IF g.released THEN d ELSE d - 1)

(* Mutant: released is not set, and Drop reduces the depth again.            *)
EndSavepointTwice(e) ==
    DropSavepoint(guard, IF e.res = "ok" THEN depth - 1 ELSE depth)

(* The body of release() and rollback(): on success the guard is released    *)
(* and the depth reduced, before Drop sees it.                               *)
EndSavepoint(e) ==
    IF e.res = "ok" THEN DropSavepoint([guard EXCEPT !.released = TRUE], depth - 1)
    ELSE DropSavepoint(guard, depth)

release ==
    /\ guard # NoGuard
    /\ \E e \in execute(<<"RELEASE", guard.name>>) :
        /\ Executed(e) /\ EndSavepoint(e)
        /\ Remember(e)
    /\ mark' = {} /\ UNCHANGED <<call, loop, run, mine, promised, undone>>

(* Savepoint::rollback.  The server keeps the savepoint.                     *)
rollback_to ==
    /\ guard # NoGuard
    /\ \E e \in execute(<<"ROLLBACK_TO", guard.name>>) :
        /\ Executed(e) /\ EndSavepoint(e)
        /\ Remember(e)
    /\ mine' = mark /\ mark' = {} /\ UNCHANGED <<call, loop, run, promised, undone>>

(* Drop for Savepoint without an end: nothing is sent.                       *)
drop_savepoint ==
    /\ guard # NoGuard /\ DropSavepoint(guard, depth)
    /\ mark' = {} /\ UNCHANGED <<srv, link, status, call, error, loop, run, mine, promised, undone>>

-----------------------------------------------------------------------------
(* What commit() reports.  It promises the rows if is_failed() was false     *)
(* before and no answer outstanding, and their absence if an error came for  *)
(* an answer or COMMIT was never sent.                                       *)
(* Mutant: `let _ = self.conn.execute("COMMIT").await`.                      *)
CommittedAnyway(e) == Report("ok", IF ~is_failed /\ link = "up" THEN mine ELSE {}, FALSE)

Committed(e) ==
    CASE e.res = "abandoned" -> Unheard
      [] e.res = "ok" -> Report("ok", IF ~is_failed /\ link = "up" THEN mine ELSE {}, FALSE)
      [] OTHER -> Report(e.res, {}, e.res # "transport")

(* Transaction::commit and rollback, which consume the guard.                *)
commit ==
    /\ call = "manual" /\ guard = NoGuard /\ UNCHANGED run
    /\ \E e \in execute(<<"COMMIT">>) : Executed(e) /\ Committed(e)
    /\ Over

rollback ==
    /\ call = "manual" /\ guard = NoGuard
    /\ UNCHANGED run
    /\ \E e \in execute(<<"ROLLBACK">>) :
        /\ Executed(e)
        /\ \/ e.res = "abandoned" /\ Unheard
           \/ e.res # "abandoned" /\ Report(e.res, {}, TRUE)
           \/ /\ e.res # "abandoned"   \* the caller returns another error
              /\ \E r \in Returned : Report(r, {}, TRUE)
    /\ Over

(* Drop for Transaction: nothing is sent, the block stays as it is.  In a    *)
(* retry loop the closure returns the error that made it leave.              *)
drop_transaction ==
    /\ call # "none" /\ UNCHANGED <<srv, link, status, run>>
    /\ \/ call = "manual" /\ \E r \in Returned : Report(r, {}, FALSE)
       \/ Unheard
    /\ Over

(* with_transaction: the closure returned Ok ...                             *)
closure_ok ==
    /\ call = "with_transaction" /\ guard = NoGuard /\ UNCHANGED run
    /\ \E e \in execute(<<"COMMIT">>) : Executed(e) /\ Committed(e)
    /\ Over

(* Mutant: the guard is dropped instead.                                     *)
closure_errDropped ==
    /\ call = "with_transaction" /\ guard = NoGuard
    /\ UNCHANGED <<srv, link, status, run>>
    /\ (\E r \in Returned : Report(r, {}, TRUE)) /\ Over

(* Mutant: a failed block is left to the server.                             *)
closure_errUnlessFailed ==
    /\ call = "with_transaction" /\ guard = NoGuard /\ UNCHANGED run
    /\ IF is_failed THEN UNCHANGED <<srv, link, status>>
       ELSE \E e \in execute(<<"ROLLBACK">>) : Executed(e)
    /\ (\E r \in Returned : Report(r, {}, TRUE)) /\ Over

(* ... or Err, and the error of the rollback is ignored.                     *)
closure_err ==
    /\ call = "with_transaction" /\ guard = NoGuard /\ UNCHANGED run
    /\ \E e \in execute(<<"ROLLBACK">>) :
        /\ Executed(e)
        /\ IF e.res = "abandoned" THEN Unheard ELSE \E r \in Returned : Report(r, {}, TRUE)
    /\ Over

-----------------------------------------------------------------------------
Next ==
    \/ \E f \in {"manual", "with_transaction"}, any \in BOOLEAN : with_retry(f, any)
    \/ \E by \in {"manual", "with_transaction"} : transaction(by)
    \/ \E i \in Ids : Statement(i)
    \/ \E n \in Names : savepoint(n)
    \/ release \/ rollback_to \/ drop_savepoint
    \/ commit \/ rollback \/ drop_transaction
    \/ closure_ok \/ closure_err

Spec == Init /\ [][Next]_vars

-----------------------------------------------------------------------------
(* Type correctness of the server's session, the guards and the loop.        *)
TypeOK ==
    /\ srv.block \in {"Idle", "InTransaction", "Failed", "Gone"}
    /\ srv.work \subseteq Rows /\ srv.durable \subseteq Rows
    /\ Len(srv.saves) <= MaxSaves
    /\ \A i \in DOMAIN srv.saves : srv.saves[i].name \in Names /\ srv.saves[i].work \subseteq Rows
    /\ link \in {"up", "owed", "refused", "down"}
    /\ status \in {"Idle", "InTransaction", "Failed"}
    /\ call \in {"none", "manual", "with_transaction"} /\ depth \in Nat
    /\ guard \in [name : Names, released : {FALSE}] \cup {NoGuard}
    /\ loop.attempt \in 0 .. max_retries /\ run \in 0 .. MaxRuns
    /\ mine \subseteq Rows /\ mark \subseteq mine
    /\ promised \subseteq Rows /\ undone \subseteq 1 .. MaxRuns

(* When commit() or with_transaction() returns Ok, every row whose statement *)
(* had returned Ok, and that no savepoint rollback took back, is committed,  *)
(* provided is_failed() was false just before and no answer was outstanding. *)
(* (Without the proviso COMMIT of a failed block returns Ok all the same,    *)
(* transaction/mod.rs:53; and is_failed() is stale after an abandoned        *)
(* statement.)                                                               *)
OkMeansDurable == promised \subseteq srv.durable

(* A transaction whose commit() was refused, that was rolled back, or whose  *)
(* closure returned Err, leaves no row behind, then or later: nothing that   *)
(* a later transaction on the same connection does commits its work.         *)
ErrMeansUndone == \A r \in srv.durable : r[1] \notin undone

(* savepoint_depth counts the live Savepoint, and while the block lives that *)
(* guard's savepoint is the innermost one of the session, so release() and   *)
(* rollback() find it, and rollback() gives back what was known when it was  *)
(* made, whatever dropped or abandoned guards of that name left behind.      *)
GuardIsInnermost ==
    /\ depth = (IF guard = NoGuard THEN 0 ELSE 1)
    /\ guard # NoGuard /\ srv.block # "Gone" =>
        /\ srv.saves # NoSaves
        /\ LET top == srv.saves[Len(srv.saves)]
           IN  top.name = guard.name /\ mark \subseteq top.work

(* A retry loop around with_transaction commits the rows of at most one      *)
(* attempt, whatever the attempts before it left behind.                     *)
RetryAtMostOnce ==
    loop.f = "with_transaction" =>
        \A r, q \in srv.durable : r[1] >= loop.first /\ q[1] >= loop.first => r[1] = q[1]

(* Between two attempts of a retry loop around with_transaction a usable     *)
(* connection has no block open.  (With a guard used by hand it may have:    *)
(* its Drop sends nothing, and neither does the loop, error/retry.rs:57.)    *)
WithTransactionRetriesIdle ==
    loop.on /\ loop.attempt > 0 /\ call = "none" /\ loop.f = "with_transaction" /\ link = "up"
        => srv.block = "Idle"
=============================================================================
