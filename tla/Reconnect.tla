------------------------------ MODULE Reconnect ------------------------------
(***************************************************************************)
(* Reconnection and the session state that survives it (connection.rs,     *)
(* reconnect/, listen and unlisten in notification.rs).                    *)
(*                                                                         *)
(* A server session holds settings (GUC parameters and LISTEN channels);   *)
(* the client tracks the ones it asked for in session_state, so that       *)
(* reconnect() can build them again in a new session.  One statement is    *)
(* one step here (the protocol below it is module Connection's), with all  *)
(* the ways it can end: done, refused by the server, lost with the         *)
(* transport, or abandoned by the caller at an await.  Settings change by  *)
(* the tracked calls only; callers send no SET or LISTEN of their own.     *)
(***************************************************************************)
EXTENDS Naturals

CONSTANTS
    Keys,       \* GUC parameters
    InitKeys,   \* those that the reconnect initialization SQL sets
    Values,     \* values that set_param gives them
    Channels,   \* LISTEN channels
    Configs     \* ReconnectConfigs to explore

ASSUME SettingsAssumption ==
    /\ InitKeys \subseteq Keys /\ Keys \cap Channels = {}
    /\ {"default", "base", "none"} \cap Values = {}

ReconnectConfig == [enabled : BOOLEAN, max_attempts : Nat, rebuild_session : BOOLEAN,
                    allow_mid_transaction : BOOLEAN]

ASSUME ConfigAssumption == Configs \subseteq ReconnectConfig

VARIABLES
    config,
    listen_channels, custom_gucs, reconnect_init_sql, in_transaction,   \* session_state
    alive,                                                              \* health
    state, needs_recovery, transaction_status,
    session,           \* the server's session at the other end of self.transport
    fresh,             \* the session of new_conn during a reconnect
    new_state,         \* new_conn.state
    todo,              \* settings that rebuild_session has still to ask for
    call, query, at,   \* the call under way, its statement, what it awaits
    attempt,           \* with_retry's counter
    runs,              \* history: how often it has run the operation
    refused,           \* history: settings that could not be rebuilt in fresh
    excused            \* history: settings whose last change the client cannot know

tracked    == <<listen_channels, custom_gucs, reconnect_init_sql, in_transaction>>
clientVars == <<state, needs_recovery, transaction_status>>
buildVars  == <<fresh, new_state, todo, refused>>
callVars   == <<call, query, at>>
retryVars  == <<attempt, runs>>
vars == <<config, tracked, alive, clientVars, session, buildVars, callVars, retryVars, excused>>

-----------------------------------------------------------------------------
(* The server.  In a transaction, saved is what a rollback restores.         *)
Settings == [gucs : [Keys -> Values \cup {"default", "base"}], channels : SUBSET Channels]
Defaults == [gucs |-> [k \in Keys |-> "default"], channels |-> {}]

Session    == [open : BOOLEAN, tx : {"Idle", "InTransaction", "Failed"}, owed : BOOLEAN,
               now : Settings, saved : Settings]
NewSession == [open |-> TRUE, tx |-> "Idle", owed |-> FALSE, now |-> Defaults, saved |-> Defaults]
NoSession  == [NewSession EXCEPT !.open = FALSE]

Begin(s)     == IF s.tx = "Idle" THEN [s EXCEPT !.tx = "InTransaction"] ELSE s
End(s, keep) == [s EXCEPT !.tx = "Idle", !.now = keep, !.saved = keep]
Change(s, n) == [s EXCEPT !.now = n, !.saved = IF s.tx = "Idle" THEN n ELSE @]

(* The statements: kind and argument.                                        *)
Plain == {<<"select">>, <<"begin">>, <<"commit">>, <<"rollback">>}
Sets  == {<<"set", k, v>> : k \in Keys, v \in Values}
Listens   == {<<"listen", c>> : c \in Channels}
Unlistens == {<<"unlisten", c>> : c \in Channels}

Accepts(s, q) ==
    /\ s.tx = "Failed" => q[1] \in {"commit", "rollback"}
    /\ q[1] = "discard_all" => s.tx = "Idle"

(* The session after q has been executed ...                                 *)
Effect(s, q) ==
    CASE q[1] = "begin"        -> Begin(s)
      [] q[1] = "commit"       -> End(s, IF s.tx = "Failed" THEN s.saved ELSE s.now)
      [] q[1] = "rollback"     -> End(s, s.saved)
      [] q[1] = "set"          -> Change(s, [s.now EXCEPT !.gucs[q[2]] = q[3]])
      [] q[1] = "listen"       -> Change(s, [s.now EXCEPT !.channels = @ \cup {q[2]}])
      [] q[1] = "unlisten"     -> Change(s, [s.now EXCEPT !.channels = @ \ {q[2]}])
      [] q[1] = "unlisten_all" -> Change(s, [s.now EXCEPT !.channels = {}])
      [] q[1] = "discard_all"  -> Change(s, Defaults)
      [] OTHER                 -> s

(* ... and after it has failed.                                              *)
Failure(s, q) ==
    IF q[1] = "commit" THEN End(s, s.saved)
    ELSE IF s.tx = "Idle" THEN s ELSE [s EXCEPT !.tx = "Failed"]

MayFail(s, q) == q[1] # "rollback" /\ ~(q[1] = "commit" /\ s.tx = "Failed")

(* The settings in which two sessions differ.                                *)
Differing(s, t) ==
    {k \in Keys : s.now.gucs[k] # t.now.gucs[k]}
    \cup {c \in Channels : (c \in s.now.channels) # (c \in t.now.channels)}

-----------------------------------------------------------------------------
Init ==
    /\ config \in Configs
    /\ listen_channels = {} /\ custom_gucs = [k \in Keys |-> "none"]
    /\ reconnect_init_sql = FALSE /\ in_transaction = FALSE
    /\ alive = TRUE
    /\ state = "Idle" /\ needs_recovery = FALSE /\ transaction_status = "Idle"
    /\ session = NewSession /\ fresh = NoSession /\ new_state = "Idle" /\ todo = {}
    /\ call = "none" /\ query = <<"select">> /\ at = "rest"
    /\ attempt = 0 /\ runs = 0 /\ refused = {} /\ excused = {}

Return ==
    /\ call' = "none" /\ query' = <<"select">> /\ at' = "rest"
    /\ attempt' = 0 /\ runs' = 0

(* A call sends its first statement.                                         *)
Send(c, q) ==
    /\ at = "rest"
    /\ call' = c /\ query' = q /\ at' = "answer" /\ attempt' = 1 /\ runs' = 1
    /\ UNCHANGED <<config, tracked, alive, clientVars, session, buildVars, excused>>

execute      == \E q \in Plain : Send("execute", q)
set_param    == \E q \in Sets : Send("set_param", q)
listen       == \E q \in Listens : Send("listen", q)
unlisten     == \E q \in Unlistens : Send("unlisten", q)
unlisten_all == Send("unlisten_all", <<"unlisten_all">>)
ping         == Send("ping", <<"select">>)
with_retry   == \E q \in Plain : Send("with_retry", q)  \* an operation of one statement

reset ==
    Send("reset", IF transaction_status = "Idle" THEN <<"discard_all">> ELSE <<"rollback">>)

(* set_reconnect_init_sql and clear_reconnect_init_sql.                      *)
set_reconnect_init_sql ==
    /\ at = "rest"
    /\ reconnect_init_sql' = ~reconnect_init_sql
    /\ UNCHANGED <<config, listen_channels, custom_gucs, in_transaction, alive, clientVars, session,
                   buildVars, callVars, retryVars, excused>>

-----------------------------------------------------------------------------
(* reconnect(): mark_broken and the first await.  It clones session_state,   *)
(* which no one else can change meanwhile.                                   *)
StartReconnect(c) == alive' = FALSE /\ call' = c /\ at' = "shutdown"

reconnect ==
    /\ at = "rest" /\ StartReconnect("reconnect")
    /\ UNCHANGED <<config, tracked, clientVars, session, buildVars, query, retryVars, excused>>

(* ensure_alive: a connection known to be broken is replaced, a stale one is *)
(* pinged (with neither, or without reconnection, the call changes nothing). *)
ensure_alive ==
    \/ alive /\ Send("ensure_alive", <<"select">>)
    \/ /\ at = "rest" /\ ~alive /\ config.enabled /\ StartReconnect("ensure_alive")
       /\ UNCHANGED <<config, tracked, clientVars, session, buildVars, query, retryVars, excused>>

ErrorClass == {"Broken", "Transient", "Permanent"}

(* What with_retry does about an error, by its class.                        *)
LimitAlways == IF config.max_attempts > 1 THEN config.max_attempts ELSE 1   \* mutant

Limit == IF config.enabled /\ config.max_attempts > 1 THEN config.max_attempts ELSE 1

Retry(class) ==
    \/ class = "Permanent" /\ Return /\ UNCHANGED alive
    \/ class = "Transient" /\ attempt >= Limit /\ Return /\ UNCHANGED alive
    \/ /\ class = "Transient" /\ attempt < Limit
       /\ at' = "backoff" /\ UNCHANGED <<call, query, retryVars, alive>>
    \/ /\ class = "Broken"
       /\ ~config.enabled \/ (~config.allow_mid_transaction /\ in_transaction')
       /\ alive' = FALSE /\ Return
    \/ /\ class = "Broken" /\ config.enabled
       /\ config.allow_mid_transaction \/ ~in_transaction'
       /\ IF attempt >= Limit THEN Return
          ELSE at' = "reconnect_backoff" /\ UNCHANGED <<call, query, retryVars>>
       /\ UNCHANGED alive

(* What the call under way does when its statement ends in an error.         *)
Fails(class) ==
    CASE call = "with_retry" -> Retry(class)
      [] call = "ensure_alive" /\ config.enabled ->
             StartReconnect(call) /\ UNCHANGED <<query, retryVars>>
      [] call = "ensure_alive" /\ ~config.enabled -> alive' = FALSE /\ Return
      [] OTHER -> Return /\ UNCHANGED alive

-----------------------------------------------------------------------------
(* How a statement ends.                                                     *)
Usable == state = "Idle" /\ ~needs_recovery

(* query_stream recovers first.                                              *)
Recover ==
    /\ at = "answer" /\ needs_recovery /\ session.open
    /\ session' = [session EXCEPT !.owed = FALSE]
    /\ state' = "Idle" /\ needs_recovery' = FALSE /\ transaction_status' = session.tx
    /\ in_transaction' = (session.tx # "Idle")
    /\ UNCHANGED <<config, listen_channels, custom_gucs, reconnect_init_sql, alive, buildVars,
                   callVars, retryVars, excused>>

(* The server has done it.                                                   *)
Done(cs) ==
    /\ at = "answer" /\ call \in cs /\ Usable /\ session.open /\ Accepts(session, query)
    /\ session' = Effect(session, query)
    /\ transaction_status' = session'.tx
    /\ UNCHANGED <<config, reconnect_init_sql, state, needs_recovery, buildVars>>

executeOk ==
    /\ Done({"execute"})
    /\ Return
    /\ excused' = excused \cup Differing(session, session')
    /\ UNCHANGED <<listen_channels, custom_gucs, in_transaction, alive>>

set_paramOk ==
    /\ Done({"set_param"})
    /\ custom_gucs' = [custom_gucs EXCEPT ![query[2]] = query[3]]
    /\ Return
    /\ excused' = excused \ {query[2]}
    /\ UNCHANGED <<listen_channels, in_transaction, alive>>

listenOk ==
    /\ Done({"listen"})
    /\ listen_channels' = listen_channels \cup {query[2]}
    /\ Return
    /\ excused' = excused \ {query[2]}
    /\ UNCHANGED <<custom_gucs, in_transaction, alive>>

(* Mutant: the channel stays tracked.                                        *)
unlistenOkForgetful ==
    /\ Done({"unlisten"})
    /\ Return
    /\ excused' = excused \ {query[2]}
    /\ UNCHANGED <<listen_channels, custom_gucs, in_transaction, alive>>

unlistenOk ==
    /\ Done({"unlisten"})
    /\ listen_channels' = listen_channels \ {query[2]}
    /\ Return
    /\ excused' = excused \ {query[2]}
    /\ UNCHANGED <<custom_gucs, in_transaction, alive>>

unlisten_allOk ==
    /\ Done({"unlisten_all"})
    /\ listen_channels' = {}
    /\ Return
    /\ excused' = excused \ Channels
    /\ UNCHANGED <<custom_gucs, in_transaction, alive>>

(* reset: ROLLBACK, then DISCARD ALL, then session_state.clear().            *)
resetRolledBack ==
    /\ Done({"reset"}) /\ query = <<"rollback">>
    /\ query' = <<"discard_all">> /\ UNCHANGED <<call, at, retryVars>>
    /\ excused' = excused \cup Differing(session, session')
    /\ UNCHANGED <<listen_channels, custom_gucs, in_transaction, alive>>

resetOk ==
    /\ Done({"reset"}) /\ query = <<"discard_all">>
    /\ listen_channels' = {} /\ custom_gucs' = [k \in Keys |-> "none"] /\ in_transaction' = FALSE
    /\ Return
    /\ excused' = {}
    /\ UNCHANGED alive

pingOk ==
    /\ Done({"ping", "ensure_alive"})
    /\ alive' = TRUE
    /\ Return
    /\ UNCHANGED <<listen_channels, custom_gucs, in_transaction, excused>>

with_retryOk ==
    /\ Done({"with_retry"})
    /\ alive' = TRUE /\ in_transaction' = (transaction_status' # "Idle")
    /\ Return
    /\ excused' = excused \cup Differing(session, session')
    /\ UNCHANGED <<listen_channels, custom_gucs>>

(* The server has refused it, with an ErrorResponse and, in RowStream::next, *)
(* read_until_ready.  Serialization failures and deadlocks are Transient,    *)
(* connection exceptions and shutdowns Broken, all the others Permanent.     *)
Refused ==
    /\ at = "answer" /\ Usable /\ session.open
    /\ MayFail(session, query)
    /\ session' = Failure(session, query)
    /\ transaction_status' = session'.tx /\ in_transaction' = (session'.tx # "Idle")
    /\ \E class \in ErrorClass : Fails(class)
    /\ excused' = excused \cup Differing(session, session')
    /\ UNCHANGED <<config, listen_channels, custom_gucs, reconnect_init_sql, state, needs_recovery,
                   buildVars>>

(* The transport fails it (classify_error: Broken for some of the errors,    *)
(* Transient for a timeout, Permanent for the other I/O errors), in the send *)
(* or in the reading.                                                        *)
Lost ==
    /\ at = "answer" /\ ~session.open /\ (Usable \/ needs_recovery)
    /\ state' = "Streaming" /\ needs_recovery' \in {needs_recovery, TRUE}
    /\ UNCHANGED in_transaction
    /\ \E class \in ErrorClass : Fails(class)
    /\ UNCHANGED <<config, listen_channels, custom_gucs, reconnect_init_sql, transaction_status,
                   session, buildVars, excused>>

(* transition() fails it: an earlier call was abandoned or failed in the     *)
(* send, or a reconnect installed a new_conn that did.  InvalidState is      *)
(* Permanent.                                                                *)
InvalidState ==
    /\ at = "answer" /\ state # "Idle" /\ ~needs_recovery
    /\ UNCHANGED in_transaction
    /\ Fails("Permanent")
    /\ UNCHANGED <<config, listen_channels, custom_gucs, reconnect_init_sql, clientVars, session,
                   buildVars, excused>>

(* Mutant: the attempt is not counted.                                       *)
AgainUncounted == at' = "answer" /\ UNCHANGED retryVars

Again == at' = "answer" /\ attempt' = attempt + 1 /\ runs' = runs + 1

BackoffEnds ==
    /\ at = "backoff" /\ Again
    /\ UNCHANGED <<config, tracked, alive, clientVars, session, buildVars, call, query, excused>>

ReconnectBackoffEnds ==
    /\ at = "reconnect_backoff" /\ StartReconnect(call)
    /\ UNCHANGED <<config, tracked, clientVars, session, buildVars, query, retryVars, excused>>

-----------------------------------------------------------------------------
(* The rest of reconnect().  Until Swap, new_conn is a local variable: when  *)
(* a step fails, or the caller gives up, it is dropped.                      *)
DropNewConnOnly ==   \* mutant
    fresh' = NoSession /\ new_state' = "Idle" /\ UNCHANGED <<todo, refused>>

DropNewConn == fresh' = NoSession /\ new_state' = "Idle" /\ todo' = {} /\ refused' = {}

(* The session ends on the server, with all its settings.                    *)
Gone == session' = NoSession /\ excused' = {}

(* Errors of the shutdown are ignored.                                       *)
ShutdownEnds ==
    /\ at = "shutdown"
    /\ Gone
    /\ at' = "connect"
    /\ UNCHANGED <<config, tracked, alive, clientVars, buildVars, call, query, retryVars>>

(* rebuild_session has these to ask for, if the configuration wants it.      *)
ToRebuild ==
    IF config.rebuild_session THEN listen_channels \cup {k \in Keys : custom_gucs[k] # "none"}
    ELSE {}

ConnectOk ==
    /\ at = "connect"
    /\ fresh' = NewSession /\ todo' = ToRebuild
    /\ at' = IF reconnect_init_sql THEN "init" ELSE "rebuild"
    /\ UNCHANGED <<config, tracked, alive, clientVars, session, new_state, refused, call, query,
                   retryVars, excused>>

(* Mutant: the initialization SQL is not replayed.                           *)
InitOkSkipped ==
    /\ at = "init" /\ fresh.open /\ at' = "rebuild"
    /\ UNCHANGED <<config, tracked, alive, clientVars, session, buildVars, call, query, retryVars,
                   excused>>

(* rebuild_reconnect_init_sql.                                               *)
InitOk ==
    /\ at = "init" /\ fresh.open
    /\ fresh' = Change(fresh, [fresh.now EXCEPT !.gucs =
                                   [k \in Keys |-> IF k \in InitKeys THEN "base" ELSE @[k]]])
    /\ at' = "rebuild"
    /\ UNCHANGED <<config, tracked, alive, clientVars, session, new_state, todo, refused, call,
                   query, retryVars, excused>>

(* connect() or the initialization SQL fails; with_retry then returns the    *)
(* error that made it reconnect.                                             *)
ReconnectFails ==
    /\ at \in {"connect", "init"}
    /\ DropNewConn /\ Return
    /\ UNCHANGED <<config, tracked, alive, clientVars, session, excused>>

(* rebuild_session: the channels, then the parameters, in any order.  An     *)
(* error, of the server or of the transport, is logged and passed over, but  *)
(* one of the transport leaves new_conn in the state of its statement.       *)
NextToRebuild == IF todo \cap Channels # {} THEN todo \cap Channels ELSE todo

RebuildOk ==
    /\ at = "rebuild" /\ fresh.open
    /\ \E x \in NextToRebuild :
          /\ fresh' = Effect(fresh, IF x \in Channels THEN <<"listen", x>>
                                    ELSE <<"set", x, custom_gucs[x]>>)
          /\ todo' = todo \ {x}
    /\ UNCHANGED <<config, tracked, alive, clientVars, session, new_state, refused, callVars,
                   retryVars, excused>>

RebuildErr ==
    /\ at = "rebuild"
    /\ \E x \in NextToRebuild : todo' = todo \ {x} /\ refused' = refused \cup {x}
    /\ new_state' = IF fresh.open THEN new_state ELSE "Streaming"
    /\ UNCHANGED <<config, tracked, alive, clientVars, session, fresh, callVars, retryVars, excused>>

(* The replacement becomes ours, and with_retry tries again.                 *)
Installed ==
    /\ at = "rebuild" /\ todo = {}
    /\ session' = fresh /\ transaction_status' = fresh.tx
    /\ excused' = IF ~fresh.open THEN {}
                  ELSE refused \cup (IF config.rebuild_session THEN {} ELSE Keys \cup Channels)
    /\ DropNewConn
    /\ IF call = "with_retry" THEN Again /\ UNCHANGED <<call, query>> ELSE Return
    /\ UNCHANGED <<config, tracked>>

(* Mutant: the replacement inherits needs_recovery.                          *)
SwapKeepsRecovery ==
    /\ Installed
    /\ state' = new_state /\ UNCHANGED needs_recovery
    /\ alive' = TRUE

Swap ==
    /\ Installed
    /\ state' = new_state /\ needs_recovery' = FALSE
    /\ alive' = TRUE

-----------------------------------------------------------------------------
(* What an abandoned statement leaves behind on the server.                  *)
Abandoned ==
    {[s EXCEPT !.owed = TRUE] :
        s \in {t \in {Effect(session, query)} : Accepts(session, query)}
              \cup {t \in {Failure(session, query)} : MayFail(session, query)}}

(* The caller drops the future: in the send, which leaves the connection     *)
(* Streaming whether or not the request has reached the server, or with the  *)
(* answer unread, for recover() to read.                                     *)
AbandonStatement ==
    /\ at = "answer" /\ Usable
    /\ state' = "Streaming"
    /\ \/ needs_recovery' = FALSE /\ UNCHANGED session
       \/ /\ needs_recovery' \in BOOLEAN
          /\ session' \in IF session.open THEN Abandoned ELSE {session}
    /\ Return
    /\ excused' = excused \cup Differing(session, session')
    /\ UNCHANGED <<config, tracked, alive, transaction_status, buildVars>>

(* At the other awaits nothing of self has changed yet, except that an       *)
(* abandoned shutdown may have closed the transport.                         *)
AbandonWait ==
    /\ \/ at = "answer" /\ needs_recovery
       \/ at \in {"backoff", "reconnect_backoff", "shutdown", "connect", "init"}
       \/ at = "rebuild" /\ todo # {}
    /\ (at = "shutdown" /\ Gone) \/ UNCHANGED <<session, excused>>
    /\ DropNewConn /\ Return
    /\ UNCHANGED <<config, tracked, alive, clientVars>>

ServerDies ==
    /\ session.open /\ Gone
    /\ UNCHANGED <<config, tracked, alive, clientVars, buildVars, callVars, retryVars>>

NewServerDies ==
    /\ fresh.open
    /\ fresh' = NoSession
    /\ UNCHANGED <<config, tracked, alive, clientVars, session, new_state, todo, refused,
                   callVars, retryVars, excused>>

-----------------------------------------------------------------------------
Calls ==
    \/ execute \/ set_param \/ listen \/ unlisten \/ unlisten_all \/ ping \/ reset \/ with_retry
    \/ set_reconnect_init_sql \/ reconnect \/ ensure_alive

(* The steps of the call under way.                                          *)
Answers ==
    \/ Recover \/ executeOk \/ set_paramOk \/ listenOk \/ unlistenOk \/ unlisten_allOk
    \/ resetRolledBack \/ resetOk \/ pingOk \/ with_retryOk \/ Refused \/ Lost \/ InvalidState

Step ==
    \/ Answers \/ BackoffEnds \/ ReconnectBackoffEnds \/ ShutdownEnds
    \/ ConnectOk \/ InitOk \/ ReconnectFails \/ RebuildOk \/ RebuildErr \/ Swap

Next == Calls \/ Step \/ AbandonStatement \/ AbandonWait \/ ServerDies \/ NewServerDies

Spec == Init /\ [][Next]_vars

(* A call that is polled goes on: the server answers or the transport fails, *)
(* a connection attempt ends, a timer expires.                               *)
FairSpec == Spec /\ WF_vars(Step)

-----------------------------------------------------------------------------
CallNames == {"none", "execute", "set_param", "listen", "unlisten", "unlisten_all", "ping",
              "reset", "with_retry", "reconnect", "ensure_alive"}

Awaits == {"rest", "answer", "backoff", "reconnect_backoff", "shutdown", "connect", "init",
           "rebuild"}

(* The statements that each call sends.                                      *)
QueriesOf(c) ==
    CASE c = "set_param"    -> Sets
      [] c = "listen"       -> Listens
      [] c = "unlisten"     -> Unlistens
      [] c = "unlisten_all" -> {<<"unlisten_all">>}
      [] c = "reset"        -> {<<"rollback">>, <<"discard_all">>}
      [] OTHER              -> Plain

(* Every variable has its type; a call has sent one of its own statements;   *)
(* rebuild_session asks for tracked settings only; new_conn exists only      *)
(* during a reconnect, and no call is under way exactly when nothing is      *)
(* awaited.                                                                  *)
TypeOK ==
    /\ config \in Configs
    /\ listen_channels \subseteq Channels /\ custom_gucs \in [Keys -> Values \cup {"none"}]
    /\ reconnect_init_sql \in BOOLEAN /\ in_transaction \in BOOLEAN /\ alive \in BOOLEAN
    /\ state \in {"Idle", "Streaming"} /\ needs_recovery \in BOOLEAN
    /\ transaction_status \in {"Idle", "InTransaction", "Failed"}
    /\ session \in Session /\ fresh \in Session /\ new_state \in {"Idle", "Streaming"}
    /\ todo \subseteq ToRebuild /\ refused \subseteq Keys \cup Channels
    /\ excused \subseteq Keys \cup Channels
    /\ call \in CallNames /\ query \in QueriesOf(call)
    /\ at \in Awaits
    /\ attempt \in Nat /\ runs \in Nat
    /\ (call = "none") = (at = "rest")
    /\ at \notin {"init", "rebuild"} =>
          fresh = NoSession /\ new_state = "Idle" /\ todo = {} /\ refused = {}

(* What session_state tracks is what the server has, across reconnects and   *)
(* resets: a tracked parameter has its value, and exactly the tracked        *)
(* channels are listened to.  Excused are settings whose last change went    *)
(* unseen: rolled back, abandoned half-way, or not rebuilt.                  *)
TrackedAgrees ==
    session.open =>
        /\ \A k \in Keys \ excused :
               custom_gucs[k] # "none" => session.now.gucs[k] = custom_gucs[k]
        /\ \A c \in Channels \ excused :
               (c \in listen_channels) = (c \in session.now.channels)

(* A session that replaces another one is complete when self gets it: the    *)
(* tracked parameters and channels that the server did not refuse, over what *)
(* the initialization SQL sets ("so later runtime overrides still win").     *)
RebuiltSession ==
    [][~session.open /\ session'.open =>
          LET wanted == ToRebuild \ refused IN
          /\ session'.now.channels = Channels \cap wanted
          /\ \A k \in Keys : session'.now.gucs[k] =
                 IF k \in wanted THEN custom_gucs[k]
                 ELSE IF reconnect_init_sql /\ k \in InitKeys THEN "base" ELSE "default"]_vars

(* The client never misreads the session at the other end, whatever was      *)
(* abandoned, lost or replaced: with needs_recovery set there is an answer   *)
(* to read, so recover() never waits on a session with nothing to say; and   *)
(* with the state Idle there is none, so no statement reads an old answer,   *)
(* and transaction_status is the server's.  (An answer may be owed without   *)
(* needs_recovery, when the send was abandoned: the state then refuses every *)
(* statement until a reconnect.)                                             *)
InStep ==
    session.open => /\ needs_recovery => session.owed
                    /\ state = "Idle" => ~session.owed /\ transaction_status = session.tx

(* with_retry runs the operation at most max_attempts times, and once when   *)
(* reconnection is disabled.                                                 *)
RetryBounded == runs <= 1 \/ (config.enabled /\ runs <= config.max_attempts)

(* And it comes to an end.                                                   *)
RetryEnds == call = "with_retry" ~> call = "none"

(* "When false (default), reconnection is only attempted if the connection   *)
(* is not inside a transaction": with_retry starts no reconnect while the    *)
(* connection's own transaction_status is that of an open block.             *)
MidTransactionBlocked ==
    [][call = "with_retry" /\ at # "shutdown" /\ at' = "shutdown"
          => config.allow_mid_transaction \/ transaction_status = "Idle"]_vars

=============================================================================
