--------------------------- MODULE ReconnectProofs ---------------------------
(* Proofs about Reconnect, for any keys, values, channels and configurations. *)
EXTENDS Reconnect, TLAPS

-----------------------------------------------------------------------------
(* What the server does to a session leaves it a session, open or not as it  *)
(* was, with the same answers owed.                                          *)
Queries == Plain \cup Sets \cup Listens \cup Unlistens
           \cup {<<"unlisten_all">>, <<"discard_all">>}

(* The sessions that the model starts from are sessions.                     *)
LEMMA DefaultsType == Defaults \in Settings /\ NewSession \in Session /\ NoSession \in Session
BY DEF Defaults, Settings, NewSession, NoSession, Session

(* A changed setting leaves a session, open and owing as before.             *)
LEMMA ChangeType ==
    ASSUME NEW s \in Session, NEW n \in Settings
    PROVE  Change(s, n) \in Session /\ Change(s, n).open = s.open /\ Change(s, n).owed = s.owed
BY DEF Change, Session

(* So does the end of a transaction,                                         *)
LEMMA EndType ==
    ASSUME NEW s \in Session, NEW n \in Settings
    PROVE  End(s, n) \in Session /\ End(s, n).open = s.open /\ End(s, n).owed = s.owed
BY DEF End, Session

(* every statement that is executed,                                         *)
LEMMA EffectType ==
    ASSUME NEW s \in Session, NEW q \in Queries
    PROVE  /\ Effect(s, q) \in Session
           /\ Effect(s, q).open = s.open /\ Effect(s, q).owed = s.owed
<1>0. s.now \in Settings /\ s.saved \in Settings
  BY DEF Session
<1>1. CASE q \in Sets
  <2>1. PICK k \in Keys, v \in Values : q = <<"set", k, v>>
    BY <1>1 DEF Sets
  <2>2. [s.now EXCEPT !.gucs[k] = v] \in Settings
    BY <1>0 DEF Settings
  <2>3. Effect(s, q) = Change(s, [s.now EXCEPT !.gucs[k] = v])
    BY <2>1 DEF Effect
  <2> QED BY <2>2, <2>3, ChangeType
<1>2. CASE \E c \in Channels : q = <<"listen", c>>
  <2>1. PICK c \in Channels : q = <<"listen", c>>
    BY <1>2
  <2>2. [s.now EXCEPT !.channels = @ \cup {c}] \in Settings
    BY <1>0 DEF Settings
  <2>3. Effect(s, q) = Change(s, [s.now EXCEPT !.channels = @ \cup {c}])
    BY <2>1 DEF Effect
  <2> QED BY <2>2, <2>3, ChangeType
<1>3. CASE \E c \in Channels : q = <<"unlisten", c>>
  <2>1. PICK c \in Channels : q = <<"unlisten", c>>
    BY <1>3
  <2>2. [s.now EXCEPT !.channels = @ \ {c}] \in Settings
    BY <1>0 DEF Settings
  <2>3. Effect(s, q) = Change(s, [s.now EXCEPT !.channels = @ \ {c}])
    BY <2>1 DEF Effect
  <2> QED BY <2>2, <2>3, ChangeType
<1>4. CASE q = <<"unlisten_all">>
  <2>1. [s.now EXCEPT !.channels = {}] \in Settings
    BY <1>0 DEF Settings
  <2>2. Effect(s, q) = Change(s, [s.now EXCEPT !.channels = {}])
    BY <1>4 DEF Effect
  <2> QED BY <2>1, <2>2, ChangeType
<1>5. CASE q = <<"discard_all">>
  <2>1. Effect(s, q) = Change(s, Defaults)
    BY <1>5 DEF Effect
  <2> QED BY <2>1, ChangeType, DefaultsType
<1>6. CASE q = <<"begin">>
  <2>1. Effect(s, q) = Begin(s)
    BY <1>6 DEF Effect
  <2> QED BY <2>1 DEF Begin, Session
<1>7. CASE q = <<"commit">> \/ q = <<"rollback">>
  <2>1. Effect(s, q) = End(s, s.now) \/ Effect(s, q) = End(s, s.saved)
    BY <1>7 DEF Effect
  <2> QED BY <1>0, <2>1, EndType
<1>8. CASE q = <<"select">>
  BY <1>8 DEF Effect
<1> QED
  BY <1>1, <1>2, <1>3, <1>4, <1>5, <1>6, <1>7, <1>8 DEF Queries, Plain, Listens, Unlistens

(* and every statement that fails.                                           *)
LEMMA FailureType ==
    ASSUME NEW s \in Session, NEW q \in Queries
    PROVE  /\ Failure(s, q) \in Session
           /\ Failure(s, q).open = s.open /\ Failure(s, q).owed = s.owed
<1>0. s.saved \in Settings
  BY DEF Session
<1>1. CASE q[1] = "commit"
  BY <1>0, <1>1, EndType DEF Failure
<1>2. CASE q[1] # "commit"
  BY <1>2 DEF Failure, Session
<1> QED BY <1>1, <1>2

-----------------------------------------------------------------------------
(* The part of TypeOK that a call changes when it returns, starts, retries   *)
(* or begins to reconnect; and in the last two it is not building a session. *)
CallType ==
    /\ call \in CallNames /\ query \in QueriesOf(call) /\ at \in Awaits
    /\ attempt \in Nat /\ runs \in Nat
    /\ (call = "none") = (at = "rest")

NotBuilding == at \notin {"init", "rebuild"}

(* What each call may send is a statement the server knows.                  *)
LEMMA QueriesOfFacts ==
    /\ \A c \in CallNames : QueriesOf(c) \subseteq Queries
    /\ \A c \in {"none", "execute", "ping", "with_retry", "ensure_alive", "reconnect"} :
           QueriesOf(c) = Plain
    /\ QueriesOf("set_param") = Sets /\ QueriesOf("listen") = Listens
    /\ QueriesOf("unlisten") = Unlistens /\ QueriesOf("unlisten_all") = {<<"unlisten_all">>}
    /\ QueriesOf("reset") = {<<"rollback">>, <<"discard_all">>}
    /\ <<"select">> \in Plain
BY DEF QueriesOf, Queries, Plain, CallNames

(* A call that returns leaves nothing awaited.                               *)
LEMMA ReturnType == Return => CallType' /\ NotBuilding'
BY QueriesOfFacts DEF Return, CallType, CallNames, Awaits, NotBuilding

(* The next attempt of with_retry awaits an answer.                          *)
LEMMA AgainType ==
    ASSUME CallType, at # "rest", Again, UNCHANGED <<call, query>>
    PROVE  CallType' /\ NotBuilding'
BY DEF CallType, Again, Awaits, NotBuilding

(* A reconnect begins with the shutdown, the connection marked broken.       *)
LEMMA StartReconnectType ==
    ASSUME CallType, NEW c \in CallNames \ {"none"}, QueriesOf(c) = QueriesOf(call),
           StartReconnect(c), UNCHANGED <<query, retryVars>>
    PROVE  CallType' /\ NotBuilding' /\ alive' = FALSE
BY DEF CallType, StartReconnect, retryVars, Awaits, NotBuilding

(* A call that begins has sent a statement of its own.                       *)
LEMMA SendType ==
    ASSUME NEW c \in CallNames \ {"none"}, NEW q \in QueriesOf(c), Send(c, q)
    PROVE  CallType' /\ NotBuilding' /\ at = "rest"
BY DEF Send, CallType, Awaits, NotBuilding

(* with_retry returns or waits after an error,                               *)
LEMMA RetryType ==
    ASSUME CallType, at = "answer", alive \in BOOLEAN, NEW class, Retry(class)
    PROVE  CallType' /\ NotBuilding' /\ alive' \in BOOLEAN
<1>1. CASE Return
  BY <1>1, ReturnType DEF Retry
<1>2. CASE ~Return
  <2>1. /\ at' \in {"backoff", "reconnect_backoff"} /\ UNCHANGED <<call, query, attempt, runs>>
        /\ alive' = alive
    BY <1>2 DEF Retry, retryVars
  <2> QED BY <2>1 DEF CallType, Awaits, NotBuilding
<1> QED BY <1>1, <1>2

(* and the other calls return or begin to reconnect.                         *)
LEMMA FailsType ==
    ASSUME CallType, at = "answer", alive \in BOOLEAN, NEW class, Fails(class)
    PROVE  CallType' /\ NotBuilding' /\ alive' \in BOOLEAN
<1>1. CASE call = "with_retry"
  BY <1>1, RetryType DEF Fails
<1>2. CASE call = "ensure_alive" /\ config.enabled
  <2>1. StartReconnect(call) /\ UNCHANGED <<query, retryVars>>
    BY <1>2 DEF Fails
  <2>2. call \in CallNames \ {"none"}
    BY <1>2 DEF CallNames
  <2> QED BY <2>1, <2>2, StartReconnectType
<1>3. CASE call = "ensure_alive" /\ ~config.enabled
  BY <1>3, ReturnType DEF Fails
<1>4. CASE call \notin {"with_retry", "ensure_alive"}
  BY <1>4, ReturnType DEF Fails
<1> QED BY <1>1, <1>2, <1>3, <1>4

-----------------------------------------------------------------------------
(* The other parts of TypeOK.                                                *)
TrackedType ==
    /\ config \in Configs
    /\ listen_channels \subseteq Channels /\ custom_gucs \in [Keys -> Values \cup {"none"}]
    /\ reconnect_init_sql \in BOOLEAN /\ in_transaction \in BOOLEAN /\ alive \in BOOLEAN

ClientType ==
    /\ state \in {"Idle", "Streaming"} /\ needs_recovery \in BOOLEAN
    /\ transaction_status \in {"Idle", "InTransaction", "Failed"}
    /\ session \in Session
    /\ excused \subseteq Keys \cup Channels

BuildType ==
    /\ fresh \in Session /\ new_state \in {"Idle", "Streaming"}
    /\ todo \subseteq ToRebuild /\ refused \subseteq Keys \cup Channels
    /\ NotBuilding => fresh = NoSession /\ new_state = "Idle" /\ todo = {} /\ refused = {}

(* TypeOK is its four parts,                                                 *)
LEMMA TypeOKParts == TypeOK <=> TrackedType /\ ClientType /\ BuildType /\ CallType
BY DEF TypeOK, TrackedType, ClientType, BuildType, CallType, NotBuilding

(* in the next state as well.                                                *)
LEMMA TypeOKNext == TrackedType' /\ ClientType' /\ BuildType' /\ CallType' => TypeOK'
BY DEF TypeOK, TrackedType, ClientType, BuildType, CallType, NotBuilding

(* Sessions differ in settings only.                                         *)
LEMMA DifferingType ==
    ASSUME NEW s, NEW t
    PROVE  Differing(s, t) \subseteq Keys \cup Channels
BY DEF Differing

(* A dropped new_conn leaves no reconnect behind.                            *)
LEMMA DropType == DropNewConn /\ NotBuilding' => BuildType'
BY DefaultsType DEF DropNewConn, BuildType

(* A new connection is well typed.                                           *)
LEMMA InitTypeOK == Init => TypeOK
<1> SUFFICES ASSUME Init PROVE TypeOK
  OBVIOUS
<1>1. CallType /\ NotBuilding
  BY QueriesOfFacts DEF Init, CallType, NotBuilding, CallNames, Awaits
<1>2. TrackedType
  BY DEF Init, TrackedType
<1>3. ClientType /\ BuildType
  BY DefaultsType DEF Init, ClientType, BuildType
<1> QED BY <1>1, <1>2, <1>3, TypeOKParts

(* A call begins.                                                            *)
LEMMA SendTypeOK ==
    ASSUME TypeOK, NEW c \in CallNames \ {"none"}, NEW q \in QueriesOf(c), Send(c, q)
    PROVE  TypeOK'
<1> USE TypeOKParts
<1>1. CallType' /\ NotBuilding' /\ at = "rest"
  BY SendType
<1>2. TrackedType' /\ ClientType'
  BY DEF Send, TrackedType, ClientType, tracked, clientVars
<1>3. BuildType'
  BY <1>1 DEF Send, BuildType, buildVars, NotBuilding
<1> QED BY <1>1, <1>2, <1>3, TypeOKNext

(* Every call begins well typed.                                             *)
LEMMA CallsTypeOK == TypeOK /\ Calls => TypeOK'
<1> SUFFICES ASSUME TypeOK, Calls PROVE TypeOK'
  OBVIOUS
<1>3. CASE execute
  BY <1>3, SendTypeOK, QueriesOfFacts DEF execute, CallNames
<1>4. CASE set_param
  BY <1>4, SendTypeOK, QueriesOfFacts DEF set_param, CallNames
<1>5. CASE listen \/ unlisten \/ unlisten_all
  BY <1>5, SendTypeOK, QueriesOfFacts DEF listen, unlisten, unlisten_all, CallNames
<1>6. CASE ping
  BY <1>6, SendTypeOK, QueriesOfFacts DEF ping, CallNames
<1>7. CASE reset
  BY <1>7, SendTypeOK, QueriesOfFacts DEF reset, CallNames
<1>8. CASE with_retry
  BY <1>8, SendTypeOK, QueriesOfFacts DEF with_retry, CallNames
<1>9. CASE set_reconnect_init_sql
  <2>1. TrackedType' /\ ClientType'
    BY <1>9, TypeOKParts DEF set_reconnect_init_sql, TrackedType, ClientType, clientVars
  <2>2. CallType' /\ BuildType'
    BY <1>9, TypeOKParts
    DEF set_reconnect_init_sql, CallType, BuildType, NotBuilding, callVars, retryVars, buildVars
  <2> QED BY <2>1, <2>2, TypeOKNext
<1>10. ASSUME NEW c \in {"reconnect", "ensure_alive"}, at = "rest", StartReconnect(c),
              UNCHANGED <<config, tracked, clientVars, session, buildVars, query, retryVars, excused>>
       PROVE  TypeOK'
  <2>0. call = "none"
    BY <1>10 DEF TypeOK
  <2>1. CallType' /\ NotBuilding' /\ alive' = FALSE
    BY <1>10, <2>0, TypeOKParts, QueriesOfFacts, StartReconnectType DEF CallNames
  <2>2. TrackedType' /\ ClientType'
    BY <1>10, <2>1, TypeOKParts DEF TrackedType, ClientType, tracked, clientVars
  <2>3. BuildType'
    BY <1>10, <2>1, TypeOKParts DEF BuildType, NotBuilding, buildVars
  <2> QED BY <2>1, <2>2, <2>3, TypeOKNext
<1>11. CASE reconnect
  BY <1>10, <1>11 DEF reconnect
<1>12. CASE ensure_alive
  BY <1>10, <1>12, QueriesOfFacts, SendTypeOK DEF ensure_alive, CallNames
<1> QED
  BY <1>3, <1>4, <1>5, <1>6, <1>7, <1>8, <1>9, <1>11, <1>12 DEF Calls

(* A statement ends: the answers.                                            *)
LEMMA AnswersTypeOK == TypeOK /\ Answers => TypeOK'
<1> SUFFICES ASSUME TypeOK, Answers PROVE TypeOK'
  OBVIOUS
<1>1. TrackedType /\ ClientType /\ BuildType /\ CallType
  BY TypeOKParts
<1>2. ASSUME NEW s \in Session PROVE s.tx \in {"Idle", "InTransaction", "Failed"}
  BY <1>2 DEF Session
<1>3. ASSUME at = "answer", NotBuilding', UNCHANGED buildVars PROVE BuildType'
  BY <1>1, <1>3 DEF BuildType, NotBuilding, buildVars
<1>4. CASE Recover
  <2>1. session' \in Session /\ session'.tx = session.tx
    BY <1>1, <1>4 DEF Recover, ClientType, Session
  <2>2. TrackedType' /\ ClientType'
    BY <1>1, <1>2, <1>4, <2>1 DEF Recover, TrackedType, ClientType
  <2>3. CallType' /\ NotBuilding'
    BY <1>1, <1>4 DEF Recover, CallType, NotBuilding, callVars, retryVars
  <2> QED BY <1>3, <1>4, <2>2, <2>3, TypeOKNext DEF Recover
<1>5. ASSUME NEW cs, Done(cs), CallType', NotBuilding',
             listen_channels' \subseteq Channels, custom_gucs' \in [Keys -> Values \cup {"none"}],
             in_transaction' \in BOOLEAN, alive' \in BOOLEAN, excused' \subseteq Keys \cup Channels
      PROVE  TypeOK'
  <2>1. session' \in Session
    BY <1>1, <1>5, EffectType, QueriesOfFacts DEF Done, ClientType, CallType
  <2>2. TrackedType' /\ ClientType'
    BY <1>1, <1>2, <1>5, <2>1 DEF Done, TrackedType, ClientType
  <2>3. BuildType'
    BY <1>3, <1>5 DEF Done
  <2> QED BY <1>5, <2>2, <2>3, TypeOKNext
<1>6. CASE executeOk
  BY <1>1, <1>5, <1>6, ReturnType, DifferingType DEF executeOk, TrackedType, ClientType
<1>7. CASE set_paramOk
  <2>1. query \in Sets
    BY <1>1, <1>7, QueriesOfFacts DEF set_paramOk, Done, CallType
  <2>2. PICK k \in Keys, v \in Values : query = <<"set", k, v>>
    BY <2>1 DEF Sets
  <2>3. query[2] = k /\ query[3] = v
    BY <2>2
  <2>4. custom_gucs' \in [Keys -> Values \cup {"none"}]
    BY <1>1, <1>7, <2>3 DEF set_paramOk, TrackedType
  <2> QED BY <1>1, <1>5, <1>7, <2>4, ReturnType DEF set_paramOk, TrackedType, ClientType
<1>8. CASE listenOk
  <2>1. query[2] \in Channels
    BY <1>1, <1>8, QueriesOfFacts DEF listenOk, Done, CallType, Listens
  <2> QED BY <1>1, <1>5, <1>8, <2>1, ReturnType DEF listenOk, TrackedType, ClientType
<1>9. CASE unlistenOk
  BY <1>1, <1>5, <1>9, ReturnType DEF unlistenOk, TrackedType, ClientType
<1>10. CASE unlisten_allOk
  BY <1>1, <1>5, <1>10, ReturnType DEF unlisten_allOk, TrackedType, ClientType
<1>11. CASE resetRolledBack
  <2>1. CallType' /\ NotBuilding'
    BY <1>1, <1>11, QueriesOfFacts
    DEF resetRolledBack, Done, CallType, NotBuilding, retryVars
  <2> QED
    BY <1>1, <1>5, <1>11, <2>1, DifferingType DEF resetRolledBack, TrackedType, ClientType
<1>12. CASE resetOk
  BY <1>1, <1>5, <1>12, ReturnType DEF resetOk, TrackedType, ClientType
<1>13. CASE pingOk
  BY <1>1, <1>5, <1>13, ReturnType DEF pingOk, TrackedType, ClientType
<1>14. CASE with_retryOk
  BY <1>1, <1>5, <1>14, ReturnType, DifferingType DEF with_retryOk, TrackedType, ClientType
<1>15. CASE Refused
  <2>1. session' \in Session
    BY <1>1, <1>15, FailureType, QueriesOfFacts DEF Refused, ClientType, CallType
  <2>2. CallType' /\ NotBuilding' /\ alive' \in BOOLEAN
    BY <1>1, <1>15, FailsType DEF Refused, TrackedType
  <2>3. TrackedType' /\ ClientType'
    BY <1>1, <1>2, <1>15, <2>1, <2>2, DifferingType DEF Refused, TrackedType, ClientType
  <2> QED BY <1>3, <1>15, <2>2, <2>3, TypeOKNext DEF Refused
<1>16. CASE Lost
  <2>1. CallType' /\ NotBuilding' /\ alive' \in BOOLEAN
    BY <1>1, <1>16, FailsType DEF Lost, TrackedType
  <2>2. TrackedType' /\ ClientType'
    BY <1>1, <1>16, <2>1 DEF Lost, TrackedType, ClientType
  <2> QED BY <1>3, <1>16, <2>1, <2>2, TypeOKNext DEF Lost
<1>17. CASE InvalidState
  <2>1. CallType' /\ NotBuilding' /\ alive' \in BOOLEAN
    BY <1>1, <1>17, FailsType DEF InvalidState, TrackedType
  <2>2. TrackedType' /\ ClientType'
    BY <1>1, <1>17, <2>1 DEF InvalidState, TrackedType, ClientType, clientVars
  <2> QED BY <1>3, <1>17, <2>1, <2>2, TypeOKNext DEF InvalidState
<1> QED
  BY <1>4, <1>6, <1>7, <1>8, <1>9, <1>10, <1>11, <1>12, <1>13, <1>14, <1>15, <1>16, <1>17
  DEF Answers

(* A timer expires, or the call goes through the steps of reconnect().       *)
LEMMA WaitsTypeOK == TypeOK /\ (BackoffEnds \/ ReconnectBackoffEnds \/ ShutdownEnds) => TypeOK'
<1> SUFFICES ASSUME TypeOK, BackoffEnds \/ ReconnectBackoffEnds \/ ShutdownEnds PROVE TypeOK'
  OBVIOUS
<1>1. TrackedType /\ ClientType /\ BuildType /\ CallType
  BY TypeOKParts
<1>2. ASSUME NotBuilding, NotBuilding', UNCHANGED buildVars PROVE BuildType'
  BY <1>1, <1>2 DEF BuildType, buildVars
<1>3. CASE BackoffEnds
  <2>1. CallType' /\ NotBuilding'
    BY <1>1, <1>3, AgainType DEF BackoffEnds
  <2>2. TrackedType' /\ ClientType'
    BY <1>1, <1>3 DEF BackoffEnds, TrackedType, ClientType, tracked, clientVars
  <2> QED BY <1>2, <1>3, <2>1, <2>2, TypeOKNext DEF BackoffEnds, NotBuilding
<1>4. CASE ReconnectBackoffEnds
  <2>0. call \in CallNames \ {"none"}
    BY <1>1, <1>4 DEF ReconnectBackoffEnds, CallType
  <2>1. CallType' /\ NotBuilding' /\ alive' = FALSE
    BY <1>1, <1>4, <2>0, StartReconnectType DEF ReconnectBackoffEnds
  <2>2. TrackedType' /\ ClientType'
    BY <1>1, <1>4, <2>1 DEF ReconnectBackoffEnds, TrackedType, ClientType, tracked, clientVars
  <2> QED BY <1>2, <1>4, <2>1, <2>2, TypeOKNext DEF ReconnectBackoffEnds, NotBuilding
<1>5. CASE ShutdownEnds
  <2>1. CallType' /\ NotBuilding'
    BY <1>1, <1>5 DEF ShutdownEnds, CallType, NotBuilding, Awaits, retryVars
  <2>2. TrackedType' /\ ClientType'
    BY <1>1, <1>5, DefaultsType DEF ShutdownEnds, Gone, TrackedType, ClientType, tracked, clientVars
  <2> QED BY <1>2, <1>5, <2>1, <2>2, TypeOKNext DEF ShutdownEnds, NotBuilding
<1> QED BY <1>3, <1>4, <1>5

(* The initialization SQL, and the tracked settings, leave a typed session.  *)
LEMMA InitSqlType ==
    ASSUME NEW s \in Session
    PROVE  [s.now EXCEPT !.gucs = [k \in Keys |-> IF k \in InitKeys THEN "base" ELSE @[k]]]
               \in Settings
<1>1. s.now \in Settings
  BY DEF Session
<1> QED BY <1>1 DEF Settings

(* rebuild_session sends a statement that the server knows, for a tracked setting. *)
LEMMA RebuildQuery ==
    ASSUME TypeOK, NEW x \in NextToRebuild
    PROVE  /\ x \in todo
           /\ x \in Keys \cup Channels
           /\ (IF x \in Channels THEN <<"listen", x>> ELSE <<"set", x, custom_gucs[x]>>) \in Queries
<1>1. x \in todo /\ x \in ToRebuild
  BY DEF NextToRebuild, TypeOK
<1>2. x \in Keys \cup Channels
  BY <1>1 DEF ToRebuild, TypeOK
<1>3. CASE x \in Channels
  BY <1>1, <1>3 DEF Queries, Listens
<1>4. CASE x \notin Channels
  <2>1. x \in Keys /\ custom_gucs[x] \in Values
    BY <1>1, <1>4 DEF ToRebuild, TypeOK
  <2> QED BY <1>1, <1>4, <2>1 DEF Queries, Sets
<1> QED BY <1>1, <1>2, <1>3, <1>4

(* The steps of reconnect(), from connect to the swap, keep the types.       *)
LEMMA ReconnectTypeOK ==
    TypeOK /\ (ConnectOk \/ InitOk \/ ReconnectFails \/ RebuildOk \/ RebuildErr \/ Swap) => TypeOK'
<1> SUFFICES ASSUME TypeOK,
                    ConnectOk \/ InitOk \/ ReconnectFails \/ RebuildOk \/ RebuildErr \/ Swap
             PROVE  TypeOK'
  OBVIOUS
<1>1. TrackedType /\ ClientType /\ BuildType /\ CallType
  BY TypeOKParts
<1>2. ASSUME UNCHANGED <<config, tracked>> PROVE ToRebuild' = ToRebuild
  BY <1>2 DEF ToRebuild, tracked
<1>3. ASSUME UNCHANGED <<config, tracked, alive, clientVars, session, excused>>
      PROVE  TrackedType' /\ ClientType'
  BY <1>1, <1>3 DEF TrackedType, ClientType, tracked, clientVars
<1>4. CASE ConnectOk
  <2>1. CallType' /\ at' \in {"init", "rebuild"}
    BY <1>1, <1>4 DEF ConnectOk, CallType, Awaits, retryVars
  <2>2. BuildType'
    BY <1>1, <1>2, <1>4, <2>1, DefaultsType DEF ConnectOk, BuildType, NotBuilding
  <2> QED BY <1>3, <1>4, <2>1, <2>2, TypeOKNext DEF ConnectOk
<1>5. CASE InitOk
  <2>1. CallType' /\ at' = "rebuild"
    BY <1>1, <1>5 DEF InitOk, CallType, Awaits, retryVars
  <2>2. fresh' \in Session
    BY <1>1, <1>5, InitSqlType, ChangeType DEF InitOk, BuildType
  <2>3. BuildType'
    BY <1>1, <1>2, <1>5, <2>1, <2>2 DEF InitOk, BuildType, NotBuilding
  <2> QED BY <1>3, <1>5, <2>1, <2>3, TypeOKNext DEF InitOk
<1>6. CASE ReconnectFails
  BY <1>3, <1>6, ReturnType, DropType, TypeOKNext DEF ReconnectFails
<1>7. CASE RebuildOk \/ RebuildErr
  <2>1. CallType' /\ at' = "rebuild"
    BY <1>1, <1>7 DEF RebuildOk, RebuildErr, CallType, callVars, retryVars
  <2>2. TrackedType' /\ ClientType'
    BY <1>3, <1>7 DEF RebuildOk, RebuildErr
  <2>3. ToRebuild' = ToRebuild /\ ~NotBuilding'
    BY <1>2, <1>7, <2>1 DEF RebuildOk, RebuildErr, NotBuilding
  <2>4. ASSUME RebuildOk PROVE BuildType'
    <3>1. PICK x \in NextToRebuild :
              /\ fresh' = Effect(fresh, IF x \in Channels THEN <<"listen", x>>
                                        ELSE <<"set", x, custom_gucs[x]>>)
              /\ todo' = todo \ {x}
      BY <2>4 DEF RebuildOk
    <3>2. fresh' \in Session
      BY <1>1, <3>1, RebuildQuery, EffectType DEF BuildType
    <3> QED BY <1>1, <2>3, <2>4, <3>1, <3>2 DEF RebuildOk, BuildType
  <2>5. ASSUME RebuildErr PROVE BuildType'
    <3>1. PICK x \in NextToRebuild : todo' = todo \ {x} /\ refused' = refused \cup {x}
      BY <2>5 DEF RebuildErr
    <3>2. x \in Keys \cup Channels
      BY RebuildQuery
    <3> QED BY <1>1, <2>3, <2>5, <3>1, <3>2 DEF RebuildErr, BuildType
  <2> QED BY <1>7, <2>1, <2>2, <2>4, <2>5, TypeOKNext
<1>8. CASE Swap
  <2>1. CallType' /\ NotBuilding'
    BY <1>1, <1>8, ReturnType, AgainType DEF Swap, Installed
  <2>2. TrackedType'
    BY <1>1, <1>8 DEF Swap, Installed, TrackedType, tracked
  <2>3. session' \in Session /\ transaction_status' \in {"Idle", "InTransaction", "Failed"}
    BY <1>1, <1>8 DEF Swap, Installed, BuildType, Session
  <2>4. excused' \subseteq Keys \cup Channels
    BY <1>1, <1>8 DEF Swap, Installed, BuildType
  <2>5. ClientType'
    BY <1>1, <1>8, <2>3, <2>4 DEF Swap, ClientType, BuildType
  <2>6. BuildType'
    BY <1>8, <2>1, DropType DEF Swap, Installed
  <2> QED BY <2>1, <2>2, <2>5, <2>6, TypeOKNext
<1> QED BY <1>4, <1>5, <1>6, <1>7, <1>8

(* What an abandoned statement leaves behind is a session, in which it may   *)
(* have been executed or not, and which owes its answer.                     *)
LEMMA AbandonedType ==
    ASSUME TypeOK, NEW s \in Abandoned
    PROVE  s \in Session /\ s.open = session.open /\ s.owed = TRUE
<1>1. session \in Session /\ query \in Queries
  BY QueriesOfFacts DEF TypeOK
<1>2. PICK t \in {Effect(session, query), Failure(session, query)} : s = [t EXCEPT !.owed = TRUE]
  BY DEF Abandoned
<1>3. t \in Session /\ t.open = session.open
  BY <1>1, <1>2, EffectType, FailureType
<1> QED BY <1>2, <1>3 DEF Session

(* So do callers that give up and servers that die.                          *)
LEMMA EnvironmentTypeOK ==
    TypeOK /\ (AbandonStatement \/ AbandonWait \/ ServerDies \/ NewServerDies) => TypeOK'
<1> SUFFICES ASSUME TypeOK, AbandonStatement \/ AbandonWait \/ ServerDies \/ NewServerDies
             PROVE  TypeOK'
  OBVIOUS
<1>1. TrackedType /\ ClientType /\ BuildType /\ CallType
  BY TypeOKParts
<1>2. ASSUME UNCHANGED <<config, tracked, alive>>
      PROVE  TrackedType' /\ ToRebuild' = ToRebuild
  BY <1>1, <1>2 DEF TrackedType, tracked, ToRebuild
<1>3. CASE AbandonStatement
  <2>1. session' \in Session
    BY <1>1, <1>3, AbandonedType DEF AbandonStatement, ClientType
  <2>2. ClientType'
    BY <1>1, <1>3, <2>1, DifferingType DEF AbandonStatement, ClientType
  <2>3. CallType' /\ NotBuilding'
    BY <1>3, ReturnType DEF AbandonStatement
  <2>4. BuildType'
    BY <1>1, <1>2, <1>3 DEF AbandonStatement, BuildType, NotBuilding, buildVars
  <2> QED BY <1>2, <1>3, <2>2, <2>3, <2>4, TypeOKNext DEF AbandonStatement
<1>4. CASE AbandonWait
  <2>1. ClientType'
    BY <1>1, <1>4, DefaultsType DEF AbandonWait, Gone, ClientType, clientVars
  <2>2. CallType' /\ NotBuilding' /\ BuildType'
    BY <1>4, ReturnType, DropType DEF AbandonWait
  <2> QED BY <1>2, <1>4, <2>1, <2>2, TypeOKNext DEF AbandonWait
<1>5. CASE ServerDies
  <2>1. ClientType'
    BY <1>1, <1>5, DefaultsType DEF ServerDies, Gone, ClientType, clientVars
  <2>2. CallType' /\ BuildType'
    BY <1>1, <1>2, <1>5
    DEF ServerDies, CallType, BuildType, NotBuilding, buildVars, callVars, retryVars
  <2> QED BY <1>2, <1>5, <2>1, <2>2, TypeOKNext DEF ServerDies
<1>6. CASE NewServerDies
  <2>1. ClientType'
    BY <1>1, <1>6 DEF NewServerDies, ClientType, clientVars
  <2>2. CallType' /\ BuildType'
    BY <1>1, <1>2, <1>6, DefaultsType
    DEF NewServerDies, CallType, BuildType, NotBuilding, callVars, retryVars
  <2> QED BY <1>2, <1>6, <2>1, <2>2, TypeOKNext DEF NewServerDies
<1> QED BY <1>3, <1>4, <1>5, <1>6

(* A step that changes nothing keeps the types.                              *)
LEMMA StutterTypeOK == TypeOK /\ UNCHANGED vars => TypeOK'
BY DEF TypeOK, vars, tracked, clientVars, buildVars, callVars, retryVars, ToRebuild

(* Every step keeps the types.                                               *)
LEMMA NextTypeOK == TypeOK /\ [Next]_vars => TypeOK'
BY CallsTypeOK, AnswersTypeOK, WaitsTypeOK, ReconnectTypeOK, EnvironmentTypeOK, StutterTypeOK
DEF Next, Step

(* Every reachable state of a connection that reconnects is well typed.      *)
THEOREM ReconnectTypeCorrect == Spec => []TypeOK
<1>1. Init => TypeOK
  BY InitTypeOK
<1>2. TypeOK /\ [Next]_vars => TypeOK'
  BY NextTypeOK
<1> QED BY <1>1, <1>2, PTL DEF Spec

-----------------------------------------------------------------------------
(* InStep is inductive once the session under construction is known to owe   *)
(* nothing: that is what Swap hands over with needs_recovery = FALSE.        *)
FreshOwesNothing == ~fresh.owed

InStepInv == TypeOK /\ FreshOwesNothing /\ InStep

(* A step that leaves self and its session alone keeps them in step.         *)
LEMMA InStepSame ==
    ASSUME InStepInv, UNCHANGED <<clientVars, session>>
    PROVE  InStep'
BY DEF InStepInv, InStep, clientVars

(* Every end of a statement leaves both sides in step.                       *)
LEMMA AnswersInStep == InStepInv /\ Answers => InStep' /\ FreshOwesNothing'
<1> SUFFICES ASSUME InStepInv, Answers PROVE InStep' /\ FreshOwesNothing'
  OBVIOUS
<1>1. session \in Session /\ query \in Queries /\ InStep /\ FreshOwesNothing
  BY QueriesOfFacts DEF InStepInv, TypeOK
<1>2. ASSUME UNCHANGED buildVars PROVE FreshOwesNothing'
  BY <1>1, <1>2 DEF FreshOwesNothing, buildVars
<1>3. CASE Recover
  <2>1. session'.owed = FALSE /\ session'.tx = session.tx
    BY <1>1, <1>3 DEF Recover, Session
  <2> QED BY <1>2, <1>3, <2>1 DEF Recover, InStep
<1>4. ASSUME NEW cs, Done(cs) PROVE InStep' /\ FreshOwesNothing'
  <2>1. session' \in Session /\ session'.owed = session.owed
    BY <1>1, <1>4, EffectType DEF Done
  <2> QED BY <1>1, <1>2, <1>4, <2>1 DEF Done, Usable, InStep
<1>5. CASE Refused
  <2>1. session' \in Session /\ session'.owed = session.owed
    BY <1>1, <1>5, FailureType DEF Refused
  <2> QED BY <1>1, <1>2, <1>5, <2>1 DEF Refused, Usable, InStep
<1>6. CASE Lost
  BY <1>2, <1>6 DEF Lost, InStep
<1>7. CASE InvalidState
  BY <1>2, <1>7, InStepSame DEF InvalidState
<1> QED
  BY <1>3, <1>4, <1>5, <1>6, <1>7
  DEF Answers, executeOk, set_paramOk, listenOk, unlistenOk, unlisten_allOk, resetRolledBack,
      resetOk, pingOk, with_retryOk

(* Nothing of self changes before Swap, and what reconnect() does to the     *)
(* session under construction leaves it owing nothing.                       *)
LEMMA ReconnectInStep ==
    InStepInv /\ (ConnectOk \/ InitOk \/ ReconnectFails \/ RebuildOk \/ RebuildErr \/ Swap)
        => InStep' /\ FreshOwesNothing'
<1> SUFFICES ASSUME InStepInv,
                    ConnectOk \/ InitOk \/ ReconnectFails \/ RebuildOk \/ RebuildErr \/ Swap
             PROVE  InStep' /\ FreshOwesNothing'
  OBVIOUS
<1>1. TypeOK /\ InStep /\ FreshOwesNothing /\ fresh \in Session
  BY DEF InStepInv, TypeOK
<1>2. NewSession.owed = FALSE /\ NoSession.owed = FALSE
  BY DEF NewSession, NoSession
<1>3. CASE ConnectOk
  BY <1>2, <1>3, InStepSame DEF ConnectOk, FreshOwesNothing
<1>4. CASE InitOk
  <2>1. fresh'.owed = fresh.owed
    BY <1>1, <1>4, InitSqlType, ChangeType DEF InitOk
  <2> QED BY <1>1, <1>4, <2>1, InStepSame DEF InitOk, FreshOwesNothing
<1>5. CASE ReconnectFails
  BY <1>2, <1>5, InStepSame DEF ReconnectFails, DropNewConn, FreshOwesNothing
<1>6. CASE RebuildOk
  <2>1. PICK x \in NextToRebuild :
            fresh' = Effect(fresh, IF x \in Channels THEN <<"listen", x>>
                                   ELSE <<"set", x, custom_gucs[x]>>)
    BY <1>6 DEF RebuildOk
  <2>2. fresh'.owed = fresh.owed
    BY <1>1, <2>1, RebuildQuery, EffectType
  <2> QED BY <1>1, <1>6, <2>2, InStepSame DEF RebuildOk, FreshOwesNothing
<1>7. CASE RebuildErr
  BY <1>1, <1>7, InStepSame DEF RebuildErr, FreshOwesNothing
<1>8. CASE Swap
  <2>1. FreshOwesNothing'
    BY <1>2, <1>8 DEF Swap, Installed, DropNewConn, FreshOwesNothing
  <2>2. InStep'
    BY <1>1, <1>8 DEF Swap, Installed, InStep, FreshOwesNothing, Session
  <2> QED BY <2>1, <2>2
<1> QED BY <1>3, <1>4, <1>5, <1>6, <1>7, <1>8

(* A call, a timer, a server that dies, or a caller that gives up.           *)
LEMMA OthersInStep ==
    InStepInv /\ (Calls \/ BackoffEnds \/ ReconnectBackoffEnds \/ ShutdownEnds \/ AbandonStatement
                  \/ AbandonWait \/ ServerDies \/ NewServerDies \/ UNCHANGED vars)
        => InStep' /\ FreshOwesNothing'
<1> SUFFICES ASSUME InStepInv,
                    Calls \/ BackoffEnds \/ ReconnectBackoffEnds \/ ShutdownEnds
                    \/ AbandonStatement \/ AbandonWait \/ ServerDies \/ NewServerDies
                    \/ UNCHANGED vars
             PROVE  InStep' /\ FreshOwesNothing'
  OBVIOUS
<1>1. TypeOK /\ InStep /\ FreshOwesNothing /\ session \in Session
  BY DEF InStepInv, TypeOK
<1>2. NoSession.owed = FALSE /\ NoSession.open = FALSE
  BY DEF NewSession, NoSession
<1>3. ASSUME UNCHANGED <<clientVars, session, buildVars>> PROVE InStep' /\ FreshOwesNothing'
  BY <1>1, <1>3, InStepSame DEF FreshOwesNothing, buildVars
<1>4. ASSUME Gone, UNCHANGED clientVars PROVE InStep'
  BY <1>2, <1>4 DEF Gone, InStep
<1>5. ASSUME NEW c, NEW q, Send(c, q) PROVE InStep' /\ FreshOwesNothing'
  BY <1>3, <1>5 DEF Send
<1>6. CASE Calls
  BY <1>3, <1>5, <1>6
  DEF Calls, execute, set_param, listen, unlisten, unlisten_all, ping, reset, with_retry,
      set_reconnect_init_sql, reconnect, ensure_alive
<1>7. CASE BackoffEnds \/ ReconnectBackoffEnds
  BY <1>3, <1>7 DEF BackoffEnds, ReconnectBackoffEnds
<1>8. CASE ShutdownEnds \/ ServerDies
  BY <1>1, <1>4, <1>8 DEF ShutdownEnds, ServerDies, FreshOwesNothing, buildVars
<1>9. CASE AbandonStatement
  <2>1. FreshOwesNothing'
    BY <1>1, <1>9 DEF AbandonStatement, FreshOwesNothing, buildVars
  <2>2. state' = "Streaming" /\ needs_recovery = FALSE
    BY <1>1, <1>9 DEF AbandonStatement, Usable, TypeOK
  <2>3. CASE needs_recovery' = FALSE /\ UNCHANGED session
    BY <1>1, <2>1, <2>2, <2>3 DEF InStep
  <2>4. CASE session.open /\ session' \in Abandoned
    BY <1>1, <2>1, <2>2, <2>4, AbandonedType DEF InStep
  <2>5. CASE ~session.open /\ UNCHANGED session
    BY <2>1, <2>5 DEF InStep
  <2> QED BY <1>9, <2>1, <2>3, <2>4, <2>5 DEF AbandonStatement
<1>10. CASE AbandonWait
  <2>1. FreshOwesNothing'
    BY <1>2, <1>10 DEF AbandonWait, DropNewConn, FreshOwesNothing
  <2> QED BY <1>4, <1>10, <2>1, InStepSame DEF AbandonWait
<1>11. CASE NewServerDies
  BY <1>2, <1>11, InStepSame DEF NewServerDies, FreshOwesNothing
<1>12. CASE UNCHANGED vars
  BY <1>3, <1>12 DEF vars
<1> QED BY <1>6, <1>7, <1>8, <1>9, <1>10, <1>11, <1>12

(* Through every reconnect, lost statement and abandoned call: a session     *)
(* that needs_recovery will read from owes an answer, and one that the state *)
(* calls Idle owes none and is in the transaction status we think.           *)
THEOREM ReconnectInStepAlways == Spec => []InStep
<1>1. Init => InStepInv
  BY InitTypeOK DEF InStepInv, Init, InStep, FreshOwesNothing, NewSession, NoSession
<1>2. InStepInv /\ [Next]_vars => InStepInv'
  BY NextTypeOK, AnswersInStep, ReconnectInStep, OthersInStep DEF InStepInv, Next, Step
<1>3. InStepInv => InStep
  BY DEF InStepInv
<1> QED BY <1>1, <1>2, <1>3, PTL DEF Spec

-----------------------------------------------------------------------------
(* with_retry waits, or reconnects, only when it has an attempt left, so that *)
(* the one it makes afterwards is within the limit.                          *)
RetryInv ==
    /\ runs = attempt /\ attempt <= Limit
    /\ call = "with_retry" /\ at \notin {"rest", "answer"} => attempt < Limit
    /\ at \in {"backoff", "reconnect_backoff"} => call = "with_retry"

(* The limit is at least one attempt, also for max_attempts 0.               *)
LEMMA LimitType ==
    ASSUME TypeOK
    PROVE  Limit \in Nat /\ Limit >= 1
BY ConfigAssumption DEF Limit, TypeOK, ReconnectConfig

(* A call that returns resets the count.                                     *)
LEMMA ReturnRetry == TypeOK /\ Return /\ UNCHANGED config => RetryInv'
BY LimitType DEF Return, RetryInv, Limit

(* A step within a call that counts nothing keeps the bound.                 *)
LEMMA SameRetry == RetryInv /\ UNCHANGED <<config, callVars, retryVars>> => RetryInv'
BY DEF RetryInv, Limit, callVars, retryVars

(* A call begins with its first attempt.                                     *)
LEMMA SendRetry ==
    ASSUME TypeOK, NEW c, NEW q, Send(c, q)
    PROVE  RetryInv'
BY LimitType DEF Send, RetryInv, Limit

(* After an error with_retry goes on only below the limit.                   *)
LEMMA FailsRetry ==
    ASSUME TypeOK, RetryInv, at = "answer", NEW class, Fails(class), UNCHANGED config
    PROVE  RetryInv'
<1>1. CASE Return
  BY <1>1, ReturnRetry
<1>2. CASE ~Return /\ call = "with_retry"
  <2>1. /\ at' \in {"backoff", "reconnect_backoff"} /\ UNCHANGED <<call, attempt, runs>>
        /\ attempt < Limit \/ ~(attempt >= Limit)
    BY <1>2 DEF Fails, Retry, retryVars
  <2>2. attempt < Limit
    BY <2>1, LimitType DEF TypeOK
  <2> QED BY <1>2, <2>1, <2>2, LimitType DEF RetryInv, Limit, TypeOK
<1>3. CASE ~Return /\ call # "with_retry"
  <2>1. call' # "with_retry" /\ at' = "shutdown" /\ UNCHANGED <<attempt, runs>>
    BY <1>3 DEF Fails, StartReconnect, retryVars
  <2> QED BY <2>1 DEF RetryInv, Limit
<1> QED BY <1>1, <1>2, <1>3

(* The attempt after a wait or a reconnect is within the limit.              *)
LEMMA AgainRetry ==
    ASSUME TypeOK, RetryInv, at \notin {"rest", "answer"}, call = "with_retry", Again,
           UNCHANGED <<config, call>>
    PROVE  RetryInv'
BY LimitType DEF RetryInv, Again, Limit, TypeOK

(* A call that goes from one await of reconnect() to the next, or starts it, *)
(* keeps its count.                                                          *)
LEMMA OnwardRetry ==
    ASSUME RetryInv, at \notin {"rest", "answer"} \/ call' # "with_retry",
           at' \in {"shutdown", "connect", "init", "rebuild"},
           UNCHANGED <<config, retryVars>>, call' = call \/ call' # "with_retry"
    PROVE  RetryInv'
BY DEF RetryInv, Limit, retryVars

(* Every step keeps the count within the limit.                              *)
LEMMA NextRetry == TypeOK /\ RetryInv /\ [Next]_vars => RetryInv'
<1> SUFFICES ASSUME TypeOK, RetryInv, [Next]_vars PROVE RetryInv'
  OBVIOUS
<1>1. CASE Calls
  <2>1. CASE set_reconnect_init_sql
    BY <2>1, SameRetry DEF set_reconnect_init_sql
  <2>2. CASE reconnect
    BY <2>2, OnwardRetry DEF reconnect, StartReconnect
  <2>3. CASE ensure_alive
    BY <2>3, SendRetry, OnwardRetry DEF ensure_alive, StartReconnect
  <2> QED
    BY <1>1, <2>1, <2>2, <2>3, SendRetry
    DEF Calls, execute, set_param, listen, unlisten, unlisten_all, ping, reset, with_retry
<1>2. CASE Answers
  <2>1. CASE Recover
    BY <2>1, SameRetry DEF Recover
  <2>2. CASE resetRolledBack
    BY <2>2 DEF resetRolledBack, Done, RetryInv, Limit, retryVars
  <2>3. CASE Refused \/ Lost \/ InvalidState
    BY <2>3, FailsRetry DEF Refused, Lost, InvalidState
  <2>4. ASSUME Return, NEW cs, Done(cs) PROVE RetryInv'
    BY <2>4, ReturnRetry DEF Done
  <2> QED
    BY <1>2, <2>1, <2>2, <2>3, <2>4
    DEF Answers, executeOk, set_paramOk, listenOk, unlistenOk, unlisten_allOk, resetOk, pingOk,
        with_retryOk
<1>3. CASE BackoffEnds
  BY <1>3, AgainRetry DEF BackoffEnds, RetryInv
<1>4. CASE ReconnectBackoffEnds \/ ShutdownEnds \/ ConnectOk \/ InitOk
  BY <1>4, OnwardRetry DEF ReconnectBackoffEnds, StartReconnect, ShutdownEnds, ConnectOk, InitOk
<1>5. CASE ReconnectFails \/ AbandonStatement \/ AbandonWait
  BY <1>5, ReturnRetry DEF ReconnectFails, AbandonStatement, AbandonWait
<1>6. CASE RebuildOk \/ RebuildErr \/ ServerDies \/ NewServerDies \/ UNCHANGED vars
  BY <1>6, SameRetry DEF RebuildOk, RebuildErr, ServerDies, NewServerDies, vars
<1>7. CASE Swap
  BY <1>7, AgainRetry, ReturnRetry DEF Swap, Installed
<1> QED BY <1>1, <1>2, <1>3, <1>4, <1>5, <1>6, <1>7 DEF Next, Step

(* with_retry runs the operation at most max_attempts times, whatever its    *)
(* errors, however many reconnects come between, and once when reconnection  *)
(* is disabled.                                                              *)
THEOREM ReconnectRetryBounded == Spec => []RetryBounded
<1>1. Init => TypeOK /\ RetryInv
  <2> SUFFICES ASSUME Init PROVE TypeOK /\ RetryInv
    OBVIOUS
  <2>1. TypeOK
    BY InitTypeOK
  <2> QED BY <2>1, LimitType DEF Init, RetryInv
<1>2. (TypeOK /\ RetryInv) /\ [Next]_vars => (TypeOK /\ RetryInv)'
  BY NextTypeOK, NextRetry
<1>3. TypeOK /\ RetryInv => RetryBounded
  BY ConfigAssumption DEF TypeOK, RetryInv, RetryBounded, Limit, ReconnectConfig
<1> QED BY <1>1, <1>2, <1>3, PTL DEF Spec

-----------------------------------------------------------------------------
(* What each statement does to the settings in force.                        *)
LEMMA ChangeNow ==
    ASSUME NEW s \in Session, NEW n \in Settings
    PROVE  Change(s, n).now = n
BY DEF Change, Session

(* What SET does to a session.                                               *)
LEMMA SetEffect ==
    ASSUME NEW s \in Session, NEW k \in Keys, NEW v \in Values
    PROVE  /\ Effect(s, <<"set", k, v>>).now.gucs = [s.now.gucs EXCEPT ![k] = v]
           /\ Effect(s, <<"set", k, v>>).now.channels = s.now.channels
<1>1. s.now \in Settings
  BY DEF Session
<1>2. PICK n : n = [s.now EXCEPT !.gucs[k] = v]
  OBVIOUS
<1>3. n \in Settings /\ n.gucs = [s.now.gucs EXCEPT ![k] = v] /\ n.channels = s.now.channels
  BY <1>1, <1>2 DEF Settings
<1>4. Effect(s, <<"set", k, v>>) = Change(s, n)
  BY <1>2 DEF Effect
<1>5. Change(s, n).now = n
  BY <1>3, ChangeNow
<1> QED BY <1>3, <1>4, <1>5

(* A statement about channels leaves the parameters alone.                   *)
LEMMA ChannelEffect ==
    ASSUME NEW s \in Session, NEW q, NEW n \in SUBSET Channels,
           Effect(s, q) = Change(s, [s.now EXCEPT !.channels = n])
    PROVE  Effect(s, q).now.gucs = s.now.gucs /\ Effect(s, q).now.channels = n
<1>1. s.now \in Settings
  BY DEF Session
<1>2. PICK m : m = [s.now EXCEPT !.channels = n]
  OBVIOUS
<1>3. m \in Settings /\ m.gucs = s.now.gucs /\ m.channels = n
  BY <1>1, <1>2 DEF Settings
<1>4. Effect(s, q) = Change(s, m)
  BY <1>2
<1>5. Change(s, m).now = m
  BY <1>3, ChangeNow
<1> QED BY <1>3, <1>4, <1>5

(* LISTEN and UNLISTEN of one channel.                                       *)
LEMMA ListenEffect ==
    ASSUME NEW s \in Session, NEW c \in Channels
    PROVE  /\ Effect(s, <<"listen", c>>).now.gucs = s.now.gucs
           /\ Effect(s, <<"listen", c>>).now.channels = s.now.channels \cup {c}
           /\ Effect(s, <<"unlisten", c>>).now.gucs = s.now.gucs
           /\ Effect(s, <<"unlisten", c>>).now.channels = s.now.channels \ {c}
<1>1. s.now.channels \in SUBSET Channels
  BY DEF Session, Settings
<1>2. Effect(s, <<"listen", c>>) = Change(s, [s.now EXCEPT !.channels = s.now.channels \cup {c}])
  BY DEF Effect
<1>3. Effect(s, <<"unlisten", c>>) = Change(s, [s.now EXCEPT !.channels = s.now.channels \ {c}])
  BY DEF Effect
<1>4. s.now.channels \cup {c} \in SUBSET Channels /\ s.now.channels \ {c} \in SUBSET Channels
  BY <1>1
<1>5. /\ Effect(s, <<"listen", c>>).now.gucs = s.now.gucs
      /\ Effect(s, <<"listen", c>>).now.channels = s.now.channels \cup {c}
  BY <1>2, <1>4, ChannelEffect
<1>6. /\ Effect(s, <<"unlisten", c>>).now.gucs = s.now.gucs
      /\ Effect(s, <<"unlisten", c>>).now.channels = s.now.channels \ {c}
  <2> DEFINE n == s.now.channels \ {c}
  <2>1. n \in SUBSET Channels /\ Effect(s, <<"unlisten", c>>) = Change(s, [s.now EXCEPT !.channels = n])
    BY <1>3, <1>4
  <2> HIDE DEF n
  <2>2. /\ Effect(s, <<"unlisten", c>>).now.gucs = s.now.gucs
        /\ Effect(s, <<"unlisten", c>>).now.channels = n
    BY <2>1, ChannelEffect
  <2> QED BY <2>2 DEF n
<1> QED BY <1>5, <1>6

(* UNLISTEN of all channels, DISCARD ALL, and a query.                       *)
LEMMA OtherEffect ==
    ASSUME NEW s \in Session
    PROVE  /\ Effect(s, <<"unlisten_all">>).now.gucs = s.now.gucs
           /\ Effect(s, <<"unlisten_all">>).now.channels = {}
           /\ Effect(s, <<"discard_all">>).now = Defaults
           /\ Effect(s, <<"select">>) = s
<1>1. Effect(s, <<"unlisten_all">>) = Change(s, [s.now EXCEPT !.channels = {}])
  BY DEF Effect
<1>2. Effect(s, <<"discard_all">>) = Change(s, Defaults)
  BY DEF Effect
<1>3. Effect(s, <<"select">>) = s
  BY DEF Effect
<1>4. Effect(s, <<"discard_all">>).now = Defaults
  BY <1>2, ChangeNow, DefaultsType
<1>5. /\ Effect(s, <<"unlisten_all">>).now.gucs = s.now.gucs
      /\ Effect(s, <<"unlisten_all">>).now.channels = {}
  <2>1. {} \in SUBSET Channels
    OBVIOUS
  <2> QED BY <1>1, <2>1, ChannelEffect
<1> QED BY <1>3, <1>4, <1>5

-----------------------------------------------------------------------------
(* The session under construction, step by step: it holds the settings that  *)
(* have been rebuilt, over the initialization SQL's, and no others.          *)
Built == (ToRebuild \ todo) \ refused

BuildBase(k) == IF at = "rebuild" /\ reconnect_init_sql /\ k \in InitKeys THEN "base" ELSE "default"

Rebuilding ==
    /\ todo \cap refused = {}
    /\ at \in {"init", "rebuild"} /\ fresh.open =>
        /\ fresh.now.channels = Channels \cap Built
        /\ \A k \in Keys : fresh.now.gucs[k] = IF k \in Built THEN custom_gucs[k] ELSE BuildBase(k)
    /\ at = "init" => todo = ToRebuild /\ reconnect_init_sql

(* Outside a reconnect there is nothing to say.                              *)
LEMMA NotRebuilding == TypeOK /\ NotBuilding => Rebuilding
BY DEF TypeOK, NotBuilding, Rebuilding

(* In the next state as well.                                                *)
LEMMA NotRebuildingNext == TypeOK' /\ NotBuilding' => Rebuilding'
BY DEF TypeOK, NotBuilding, Rebuilding

(* connect(): nothing has been rebuilt yet.                                  *)
LEMMA ConnectRebuilding == TypeOK /\ ConnectOk => Rebuilding'
<1> SUFFICES ASSUME TypeOK, ConnectOk PROVE Rebuilding'
  OBVIOUS
<1>1. /\ fresh' = NewSession /\ todo' = ToRebuild /\ refused' = {}
      /\ UNCHANGED <<config, listen_channels, custom_gucs, reconnect_init_sql>>
      /\ at' = IF reconnect_init_sql THEN "init" ELSE "rebuild"
  BY DEF ConnectOk, TypeOK, tracked
<1>2. ToRebuild' = ToRebuild
  BY <1>1 DEF ToRebuild
<1>3. Built' = {}
  BY <1>1, <1>2 DEF Built
<1>4. \A k \in Keys : BuildBase(k)' = "default"
  BY <1>1 DEF BuildBase
<1>5. fresh'.now.channels = {} /\ \A k \in Keys : fresh'.now.gucs[k] = "default"
  BY <1>1 DEF NewSession, Defaults
<1> QED BY <1>1, <1>2, <1>3, <1>4, <1>5 DEF Rebuilding

(* The initialization SQL is the base of what follows.                       *)
LEMMA InitRebuilding == TypeOK /\ Rebuilding /\ InitOk => Rebuilding'
<1> SUFFICES ASSUME TypeOK, Rebuilding, InitOk PROVE Rebuilding'
  OBVIOUS
<1> DEFINE n == [fresh.now EXCEPT !.gucs =
                     [k \in Keys |-> IF k \in InitKeys THEN "base" ELSE fresh.now.gucs[k]]]
<1>1. /\ UNCHANGED <<config, listen_channels, custom_gucs, reconnect_init_sql, todo, refused>>
      /\ at = "init" /\ at' = "rebuild" /\ fresh.open /\ fresh' = Change(fresh, n)
  BY DEF InitOk, tracked
<1>2. fresh \in Session /\ fresh.now \in Settings /\ n \in Settings
  BY InitSqlType DEF TypeOK, Session
<1>3. /\ n.channels = fresh.now.channels
      /\ \A k \in Keys : n.gucs[k] = IF k \in InitKeys THEN "base" ELSE fresh.now.gucs[k]
  BY <1>2 DEF Settings
<1>4. fresh'.now = n
  BY <1>1, <1>2, ChangeNow
<1> HIDE DEF n
<1>5. ToRebuild' = ToRebuild /\ Built = {} /\ Built' = {}
  BY <1>1 DEF ToRebuild, Rebuilding, Built
<1>6. \A k \in Keys : BuildBase(k)' = IF k \in InitKeys THEN "base" ELSE "default"
  BY <1>1 DEF BuildBase, Rebuilding
<1>7. fresh.now.channels = {} /\ \A k \in Keys : fresh.now.gucs[k] = "default"
  BY <1>1, <1>5 DEF Rebuilding, BuildBase
<1> QED BY <1>1, <1>3, <1>4, <1>5, <1>6, <1>7 DEF Rebuilding

(* One tracked setting more ...                                              *)
LEMMA RebuildOkRebuilding == TypeOK /\ Rebuilding /\ RebuildOk => Rebuilding'
<1> SUFFICES ASSUME TypeOK, Rebuilding, RebuildOk PROVE Rebuilding'
  OBVIOUS
<1>1. PICK x \in NextToRebuild :
          /\ fresh' = Effect(fresh, IF x \in Channels THEN <<"listen", x>>
                                    ELSE <<"set", x, custom_gucs[x]>>)
          /\ todo' = todo \ {x}
  BY DEF RebuildOk
<1>2. /\ UNCHANGED <<config, listen_channels, custom_gucs, reconnect_init_sql, refused, at>>
      /\ at = "rebuild" /\ fresh.open
  BY DEF RebuildOk, tracked, callVars
<1>3. x \in todo /\ x \in ToRebuild /\ x \notin refused /\ fresh \in Session
  BY RebuildQuery DEF TypeOK, Rebuilding
<1>4. ToRebuild' = ToRebuild
  BY <1>2 DEF ToRebuild
<1>5. Built' = Built \cup {x} /\ x \notin Built
  BY <1>1, <1>2, <1>3, <1>4 DEF Built
<1>6. \A k \in Keys : BuildBase(k)' = BuildBase(k)
  BY <1>2 DEF BuildBase
<1>7. /\ fresh.now.channels = Channels \cap Built
      /\ \A k \in Keys : fresh.now.gucs[k] = IF k \in Built THEN custom_gucs[k] ELSE BuildBase(k)
  BY <1>2 DEF Rebuilding
<1>8. CASE x \in Channels
  <2>1. fresh'.now.gucs = fresh.now.gucs /\ fresh'.now.channels = fresh.now.channels \cup {x}
    BY <1>1, <1>3, <1>8, ListenEffect
  <2>2. x \notin Keys
    BY <1>8, SettingsAssumption
  <2>3. fresh'.now.channels = Channels \cap Built'
    BY <1>5, <1>7, <1>8, <2>1
  <2>4. \A k \in Keys :
          fresh'.now.gucs[k] = IF k \in Built' THEN custom_gucs'[k] ELSE BuildBase(k)'
    BY <1>2, <1>5, <1>6, <1>7, <2>1, <2>2
  <2> QED BY <1>1, <1>2, <2>3, <2>4 DEF Rebuilding
<1>9. CASE x \notin Channels
  <2>1. x \in Keys /\ custom_gucs[x] \in Values
    BY <1>3, <1>9 DEF ToRebuild, TypeOK
  <2>2. /\ fresh'.now.gucs = [fresh.now.gucs EXCEPT ![x] = custom_gucs[x]]
        /\ fresh'.now.channels = fresh.now.channels
    BY <1>1, <1>3, <1>9, <2>1, SetEffect
  <2>3. fresh'.now.channels = Channels \cap Built'
    BY <1>5, <1>7, <1>9, <2>2
  <2>4. DOMAIN fresh.now.gucs = Keys
    BY <1>3 DEF Session, Settings
  <2>5. \A k \in Keys :
          fresh'.now.gucs[k] = IF k \in Built' THEN custom_gucs'[k] ELSE BuildBase(k)'
    BY <1>2, <1>5, <1>6, <1>7, <2>1, <2>2, <2>4
  <2> QED BY <1>1, <1>2, <2>3, <2>5 DEF Rebuilding
<1> QED BY <1>8, <1>9

(* ... or one refused.                                                       *)
LEMMA RebuildErrRebuilding == TypeOK /\ Rebuilding /\ RebuildErr => Rebuilding'
<1> SUFFICES ASSUME TypeOK, Rebuilding, RebuildErr PROVE Rebuilding'
  OBVIOUS
<1>1. PICK x \in NextToRebuild : todo' = todo \ {x} /\ refused' = refused \cup {x}
  BY DEF RebuildErr
<1>2. /\ UNCHANGED <<config, listen_channels, custom_gucs, reconnect_init_sql, fresh, at>>
      /\ at = "rebuild"
  BY DEF RebuildErr, tracked, callVars
<1>3. x \in todo
  BY RebuildQuery
<1>4. ToRebuild' = ToRebuild
  BY <1>2 DEF ToRebuild
<1>5. Built' = Built
  BY <1>1, <1>3, <1>4 DEF Built
<1>6. \A k \in Keys : BuildBase(k)' = BuildBase(k)
  BY <1>2 DEF BuildBase
<1> QED BY <1>1, <1>2, <1>5, <1>6 DEF Rebuilding

(* Rebuilding is inductive.                                                  *)
LEMMA NextRebuilding == TypeOK /\ Rebuilding /\ [Next]_vars => Rebuilding'
<1> SUFFICES ASSUME TypeOK, Rebuilding, [Next]_vars PROVE Rebuilding'
  OBVIOUS
<1>1. TypeOK'
  BY NextTypeOK
<1>n. ASSUME NotBuilding' PROVE Rebuilding'
  BY <1>1, <1>n, NotRebuildingNext
<1>2. CASE Calls
  <2>1. at = "rest" /\ at' \in {"rest", "answer", "shutdown"}
    BY <1>2 DEF Calls, execute, set_param, listen, unlisten, unlisten_all, ping, reset, with_retry,
                Send, set_reconnect_init_sql, reconnect, ensure_alive, StartReconnect, callVars
  <2> QED BY <1>n, <2>1 DEF NotBuilding
<1>3. CASE Answers
  <2>1. at = "answer"
    BY <1>3 DEF Answers, executeOk, set_paramOk, listenOk, unlistenOk, unlisten_allOk,
                resetRolledBack, resetOk, pingOk, with_retryOk, Done, Recover, Refused, Lost,
                InvalidState
  <2>2. ASSUME NEW class, Fails(class) PROVE NotBuilding'
    <3>1. CallType /\ alive \in BOOLEAN
      BY TypeOKParts DEF TypeOK
    <3> QED BY <2>1, <2>2, <3>1, FailsType
  <2>3. NotBuilding'
    BY <1>3, <2>1, <2>2, ReturnType
    DEF Answers, executeOk, set_paramOk, listenOk, unlistenOk, unlisten_allOk, resetRolledBack,
        resetOk, pingOk, with_retryOk, Recover, Refused, Lost, InvalidState, callVars, NotBuilding
  <2> QED BY <1>n, <2>3
<1>4. CASE BackoffEnds \/ ReconnectBackoffEnds \/ ShutdownEnds
  <2>1. NotBuilding'
    BY <1>4 DEF BackoffEnds, ReconnectBackoffEnds, ShutdownEnds, Again, StartReconnect, NotBuilding
  <2> QED BY <1>n, <2>1
<1>5. CASE ReconnectFails \/ AbandonStatement \/ AbandonWait
  BY <1>5, <1>n, ReturnType DEF ReconnectFails, AbandonStatement, AbandonWait
<1>6. CASE Swap
  <2>1. NotBuilding'
    BY <1>6, ReturnType DEF Swap, Installed, Again, NotBuilding
  <2> QED BY <1>n, <2>1
<1>7. CASE ConnectOk \/ InitOk \/ RebuildOk \/ RebuildErr
  BY <1>7, ConnectRebuilding, InitRebuilding, RebuildOkRebuilding, RebuildErrRebuilding
<1>8. CASE ServerDies \/ UNCHANGED vars
  <2>1. UNCHANGED <<config, listen_channels, custom_gucs, reconnect_init_sql, todo, refused, fresh,
                    at>>
    BY <1>8 DEF ServerDies, vars, tracked, buildVars, callVars
  <2> QED BY <2>1 DEF Rebuilding, Built, BuildBase, ToRebuild
<1>9. CASE NewServerDies
  <2>1. /\ UNCHANGED <<config, listen_channels, custom_gucs, reconnect_init_sql, todo, refused, at>>
        /\ ~fresh'.open
    BY <1>9 DEF NewServerDies, tracked, callVars, NoSession, NewSession
  <2> QED BY <2>1 DEF Rebuilding, ToRebuild
<1> QED BY <1>2, <1>3, <1>4, <1>5, <1>6, <1>7, <1>8, <1>9 DEF Next, Step

(* No step but Swap opens a session.                                         *)
LEMMA OnlySwapOpens == TypeOK /\ [Next]_vars /\ ~Swap /\ session'.open => session.open
<1> SUFFICES ASSUME TypeOK, [Next]_vars, ~Swap, session'.open PROVE session.open
  OBVIOUS
<1>1. session \in Session /\ query \in Queries
  BY QueriesOfFacts DEF TypeOK
<1>2. ~NoSession.open
  BY DEF NoSession, NewSession
<1>3. CASE UNCHANGED session
  BY <1>3
<1>4. CASE Gone
  BY <1>2, <1>4 DEF Gone
<1>5. CASE AbandonStatement
  BY <1>3, <1>5, AbandonedType DEF AbandonStatement
<1>6. CASE Answers
  BY <1>6, <1>3 DEF Answers, executeOk, set_paramOk, listenOk, unlistenOk, unlisten_allOk,
                    resetRolledBack, resetOk, pingOk, with_retryOk, Done, Recover, Refused, Lost,
                    InvalidState
<1>7. CASE Calls
  BY <1>7, <1>3 DEF Calls, execute, set_param, listen, unlisten, unlisten_all, ping, reset,
                    with_retry, Send, set_reconnect_init_sql, reconnect, ensure_alive
<1> QED
  BY <1>3, <1>4, <1>5, <1>6, <1>7
  DEF Next, Step, BackoffEnds, ReconnectBackoffEnds, ShutdownEnds, ConnectOk, InitOk,
      ReconnectFails, RebuildOk, RebuildErr, AbandonWait, ServerDies, NewServerDies, vars

(* A session that replaces another one is complete when self gets it: what   *)
(* session_state tracks and the server accepted, over the initialization     *)
(* SQL's settings, whatever was refused and in whatever order.               *)
THEOREM ReconnectRebuiltSession == Spec => RebuiltSession
<1>1. Init => TypeOK /\ Rebuilding
  <2> SUFFICES ASSUME Init PROVE TypeOK /\ Rebuilding
    OBVIOUS
  <2>1. TypeOK /\ NotBuilding
    BY InitTypeOK DEF Init, NotBuilding
  <2> QED BY <2>1, NotRebuilding
<1>2. (TypeOK /\ Rebuilding) /\ [Next]_vars => (TypeOK /\ Rebuilding)'
  BY NextTypeOK, NextRebuilding
<1>3. ASSUME TypeOK, Rebuilding, [Next]_vars, ~session.open, session'.open
      PROVE  LET wanted == ToRebuild \ refused IN
             /\ session'.now.channels = Channels \cap wanted
             /\ \A k \in Keys : session'.now.gucs[k] =
                    IF k \in wanted THEN custom_gucs[k]
                    ELSE IF reconnect_init_sql /\ k \in InitKeys THEN "base" ELSE "default"
  <2>1. Swap
    BY <1>3, OnlySwapOpens
  <2>2. at = "rebuild" /\ todo = {} /\ session' = fresh
    BY <2>1 DEF Swap, Installed
  <2>3. Built = ToRebuild \ refused
    BY <2>2 DEF Built
  <2> QED BY <1>3, <2>2, <2>3 DEF Rebuilding, BuildBase
<1>4. TypeOK /\ Rebuilding /\ [Next]_vars =>
         [~session.open /\ session'.open =>
            LET wanted == ToRebuild \ refused IN
            /\ session'.now.channels = Channels \cap wanted
            /\ \A k \in Keys : session'.now.gucs[k] =
                   IF k \in wanted THEN custom_gucs[k]
                   ELSE IF reconnect_init_sql /\ k \in InitKeys THEN "base" ELSE "default"]_vars
  BY <1>3
<1> QED BY <1>1, <1>2, <1>4, PTL DEF Spec, RebuiltSession

-----------------------------------------------------------------------------
(* The calls that change nothing on the server send a plain query.           *)
PingsOnly == call \in {"none", "ping", "ensure_alive", "reconnect"} => query = <<"select">>

(* That is inductive.                                                        *)
LEMMA NextPingsOnly == TypeOK /\ PingsOnly /\ [Next]_vars => PingsOnly'
<1> SUFFICES ASSUME TypeOK, PingsOnly, [Next]_vars PROVE PingsOnly'
  OBVIOUS
<1>1. CASE Return
  BY <1>1 DEF Return, PingsOnly
<1>2. CASE UNCHANGED <<call, query>>
  BY <1>2 DEF PingsOnly
<1>3. ASSUME NEW class, Fails(class) PROVE PingsOnly'
  BY <1>1, <1>2, <1>3 DEF Fails, Retry, StartReconnect
<1>4. CASE Calls
  <2>1. ASSUME NEW c \in {"execute", "set_param", "listen", "unlisten", "unlisten_all", "reset",
                          "with_retry"}, NEW q, Send(c, q)
        PROVE  PingsOnly'
    BY <2>1 DEF Send, PingsOnly
  <2>2. ASSUME NEW c, Send(c, <<"select">>) PROVE PingsOnly'
    BY <2>2 DEF Send, PingsOnly
  <2>3. ASSUME NEW c, at = "rest", StartReconnect(c), UNCHANGED query PROVE PingsOnly'
    <3>1. call = "none"
      BY <2>3 DEF TypeOK
    <3> QED BY <2>3, <3>1 DEF PingsOnly
  <2> QED
    BY <1>2, <1>4, <2>1, <2>2, <2>3
    DEF Calls, execute, set_param, listen, unlisten, unlisten_all, ping, reset, with_retry,
        set_reconnect_init_sql, reconnect, ensure_alive, callVars
<1>5. CASE Answers
  <2>1. CASE resetRolledBack
    BY <2>1 DEF resetRolledBack, Done, PingsOnly
  <2> QED
    BY <1>1, <1>2, <1>3, <1>5, <2>1
    DEF Answers, executeOk, set_paramOk, listenOk, unlistenOk, unlisten_allOk, resetOk, pingOk,
        with_retryOk, Recover, Refused, Lost, InvalidState, callVars
<1>6. CASE Swap
  BY <1>1, <1>2, <1>6 DEF Swap, Installed
<1> QED
  BY <1>1, <1>2, <1>4, <1>5, <1>6
  DEF Next, Step, BackoffEnds, ReconnectBackoffEnds, StartReconnect, ShutdownEnds, ConnectOk, InitOk,
      ReconnectFails, RebuildOk, RebuildErr, AbandonStatement, AbandonWait, ServerDies,
      NewServerDies, vars, callVars

-----------------------------------------------------------------------------
(* TrackedAgrees.  A change that the client does not see is excused.         *)
LEMMA DifferenceExcused ==
    ASSUME TypeOK, TrackedAgrees, session'.open => session.open,
           excused' = excused \cup Differing(session, session'),
           UNCHANGED <<listen_channels, custom_gucs>>
    PROVE  TrackedAgrees'
<1> SUFFICES ASSUME session'.open
             PROVE  /\ \A k \in Keys \ excused' :
                          custom_gucs[k] # "none" => session'.now.gucs[k] = custom_gucs[k]
                    /\ \A c \in Channels \ excused' :
                          (c \in listen_channels) = (c \in session'.now.channels)
  BY DEF TrackedAgrees
<1>1. /\ \A k \in Keys \ excused :
             custom_gucs[k] # "none" => session.now.gucs[k] = custom_gucs[k]
      /\ \A c \in Channels \ excused : (c \in listen_channels) = (c \in session.now.channels)
  BY DEF TrackedAgrees
<1>2. /\ \A k \in Keys \ excused' : session'.now.gucs[k] = session.now.gucs[k]
      /\ \A c \in Channels \ excused' : (c \in session.now.channels) = (c \in session'.now.channels)
  BY DEF Differing
<1> QED BY <1>1, <1>2

(* Nothing of it changes.                                                    *)
LEMMA TrackedKept ==
    ASSUME TrackedAgrees, session'.open => session.open /\ session'.now = session.now,
           UNCHANGED <<listen_channels, custom_gucs, excused>>
    PROVE  TrackedAgrees'
BY DEF TrackedAgrees

(* The answers that change what is tracked.                                  *)
LEMMA AnswersTracked == TypeOK /\ PingsOnly /\ TrackedAgrees /\ Answers => TrackedAgrees'
<1> SUFFICES ASSUME TypeOK, PingsOnly, TrackedAgrees, Answers PROVE TrackedAgrees'
  OBVIOUS
<1>1. /\ session \in Session /\ query \in QueriesOf(call) /\ call \in CallNames
      /\ custom_gucs \in [Keys -> Values \cup {"none"}]
  BY DEF TypeOK
<1>2. ASSUME NEW cs, Done(cs)
      PROVE  session' = Effect(session, query) /\ call \in cs /\ session.open
  BY <1>2 DEF Done
<1>o. /\ \A k \in Keys \ excused :
             custom_gucs[k] # "none" => (session.open => session.now.gucs[k] = custom_gucs[k])
      /\ \A c \in Channels \ excused :
             session.open => ((c \in listen_channels) = (c \in session.now.channels))
  BY DEF TrackedAgrees
<1>3. CASE executeOk
  BY <1>2, <1>3, DifferenceExcused DEF executeOk
<1>4. CASE set_paramOk
  <2>1. query \in Sets /\ session' = Effect(session, query) /\ session.open
    BY <1>1, <1>2, <1>4, QueriesOfFacts DEF set_paramOk
  <2>2. PICK k \in Keys, v \in Values : query = <<"set", k, v>>
    BY <2>1 DEF Sets
  <2>3. query[2] = k /\ query[3] = v
    BY <2>2
  <2>4. /\ session'.now.gucs = [session.now.gucs EXCEPT ![k] = v]
        /\ session'.now.channels = session.now.channels
    BY <1>1, <2>1, <2>2, SetEffect
  <2>5. /\ custom_gucs' = [custom_gucs EXCEPT ![k] = v] /\ excused' = excused \ {k}
        /\ UNCHANGED listen_channels
    BY <1>4, <2>3 DEF set_paramOk
  <2>6. DOMAIN session.now.gucs = Keys /\ DOMAIN custom_gucs = Keys
    BY <1>1 DEF Session, Settings
  <2>7. k \notin Channels
    BY SettingsAssumption
  <2>8. \A j \in Keys \ excused' :
          custom_gucs'[j] # "none" => session'.now.gucs[j] = custom_gucs'[j]
    BY <1>o, <2>1, <2>4, <2>5, <2>6
  <2>9. \A c \in Channels \ excused' : (c \in listen_channels') = (c \in session'.now.channels)
    BY <1>o, <2>1, <2>4, <2>5, <2>7
  <2> QED BY <2>8, <2>9 DEF TrackedAgrees
<1>5. ASSUME NEW c \in Channels, session.open,
             session'.now.gucs = session.now.gucs, UNCHANGED custom_gucs,
             \/ /\ session'.now.channels = session.now.channels \cup {c}
                /\ listen_channels' = listen_channels \cup {c}
             \/ /\ session'.now.channels = session.now.channels \ {c}
                /\ listen_channels' = listen_channels \ {c},
             excused' = excused \ {c}
      PROVE  TrackedAgrees'
  <2>1. c \notin Keys
    BY <1>5, SettingsAssumption
  <2>2. \A j \in Keys \ excused' :
          custom_gucs'[j] # "none" => session'.now.gucs[j] = custom_gucs'[j]
    BY <1>o, <1>5, <2>1
  <2>3. \A d \in Channels \ excused' : (d \in listen_channels') = (d \in session'.now.channels)
    BY <1>o, <1>5
  <2> QED BY <2>2, <2>3 DEF TrackedAgrees
<1>6. CASE listenOk
  <2>1. query \in Listens /\ session' = Effect(session, query) /\ session.open
    BY <1>1, <1>2, <1>6, QueriesOfFacts DEF listenOk
  <2>2. PICK c \in Channels : query = <<"listen", c>>
    BY <2>1 DEF Listens
  <2>3. /\ session'.now.gucs = session.now.gucs
        /\ session'.now.channels = session.now.channels \cup {c}
    BY <1>1, <2>1, <2>2, ListenEffect
  <2>4. query[2] = c
    BY <2>2
  <2>5. /\ UNCHANGED custom_gucs /\ excused' = excused \ {c}
        /\ listen_channels' = listen_channels \cup {c}
    BY <1>6, <2>4 DEF listenOk
  <2> QED BY <1>5, <2>1, <2>3, <2>5
<1>7. CASE unlistenOk
  <2>1. query \in Unlistens /\ session' = Effect(session, query) /\ session.open
    BY <1>1, <1>2, <1>7, QueriesOfFacts DEF unlistenOk
  <2>2. PICK c \in Channels : query = <<"unlisten", c>>
    BY <2>1 DEF Unlistens
  <2>3. /\ session'.now.gucs = session.now.gucs
        /\ session'.now.channels = session.now.channels \ {c}
    BY <1>1, <2>1, <2>2, ListenEffect
  <2>4. query[2] = c
    BY <2>2
  <2>5. /\ UNCHANGED custom_gucs /\ excused' = excused \ {c}
        /\ listen_channels' = listen_channels \ {c}
    BY <1>7, <2>4 DEF unlistenOk
  <2> QED BY <1>5, <2>1, <2>3, <2>5
<1>8. CASE unlisten_allOk
  <2>1. /\ session'.now.gucs = session.now.gucs /\ session'.now.channels = {} /\ session.open
    BY <1>1, <1>2, <1>8, QueriesOfFacts, OtherEffect DEF unlisten_allOk
  <2>2. listen_channels' = {} /\ excused' = excused \ Channels /\ UNCHANGED custom_gucs
    BY <1>8 DEF unlisten_allOk
  <2>3. \A j \in Keys : j \notin Channels
    BY SettingsAssumption
  <2> QED BY <1>o, <2>1, <2>2, <2>3 DEF TrackedAgrees
<1>9. CASE resetRolledBack
  BY <1>2, <1>9, DifferenceExcused DEF resetRolledBack
<1>10. CASE resetOk
  <2>1. session'.now = Defaults
    BY <1>1, <1>2, <1>10, OtherEffect DEF resetOk
  <2>2. session'.now.channels = {}
    BY <2>1 DEF Defaults
  <2>3. listen_channels' = {} /\ \A k \in Keys : custom_gucs'[k] = "none"
    BY <1>10 DEF resetOk
  <2> QED BY <2>2, <2>3 DEF TrackedAgrees
<1>11. CASE pingOk
  <2>1. query = <<"select">> /\ session' = Effect(session, query)
    BY <1>2, <1>11 DEF pingOk, PingsOnly
  <2>2. session' = session
    BY <1>1, <2>1, OtherEffect
  <2> QED BY <1>11, <2>2, TrackedKept DEF pingOk
<1>12. CASE with_retryOk
  BY <1>2, <1>12, DifferenceExcused DEF with_retryOk
<1>13. CASE Recover
  <2>1. session'.now = session.now /\ session.open
    BY <1>1, <1>13 DEF Recover, Session
  <2> QED BY <1>13, <2>1, TrackedKept DEF Recover
<1>14. CASE Refused
  BY <1>14, DifferenceExcused DEF Refused
<1>15. CASE Lost \/ InvalidState
  BY <1>15, TrackedKept DEF Lost, InvalidState
<1> QED
  BY <1>3, <1>4, <1>6, <1>7, <1>8, <1>9, <1>10, <1>11, <1>12, <1>13, <1>14, <1>15 DEF Answers

(* The replacement has what is tracked, or excuses it.                       *)
LEMMA SwapTracked == TypeOK /\ Rebuilding /\ Swap => TrackedAgrees'
<1> SUFFICES ASSUME TypeOK, Rebuilding, Swap, session'.open PROVE TrackedAgrees'
  BY DEF TrackedAgrees
<1>1. /\ at = "rebuild" /\ todo = {} /\ session' = fresh
      /\ UNCHANGED <<config, listen_channels, custom_gucs>>
      /\ excused' = refused \cup (IF config.rebuild_session THEN {} ELSE Keys \cup Channels)
  BY DEF Swap, Installed, tracked
<1>2. CASE ~config.rebuild_session
  BY <1>1, <1>2 DEF TrackedAgrees
<1>3. CASE config.rebuild_session
  <2>1. Built = (listen_channels \cup {k \in Keys : custom_gucs[k] # "none"}) \ refused
    BY <1>1, <1>3 DEF Built, ToRebuild
  <2>2. /\ fresh.now.channels = Channels \cap Built
        /\ \A k \in Keys \cap Built : fresh.now.gucs[k] = custom_gucs[k]
    BY <1>1 DEF Rebuilding
  <2>3. excused' = refused /\ \A c \in Channels : c \notin Keys
    BY <1>1, <1>3, SettingsAssumption
  <2>4. \A k \in Keys \ excused' :
          custom_gucs'[k] # "none" => session'.now.gucs[k] = custom_gucs'[k]
    BY <1>1, <2>1, <2>2, <2>3
  <2>5. \A c \in Channels \ excused' : (c \in listen_channels') = (c \in session'.now.channels)
    BY <1>1, <2>1, <2>2, <2>3
  <2> QED BY <2>4, <2>5 DEF TrackedAgrees
<1> QED BY <1>2, <1>3

(* The inductive invariant.                                                  *)
TrackedInv == TypeOK /\ Rebuilding /\ PingsOnly /\ TrackedAgrees

(* Every step keeps tracked and live state in agreement.                     *)
LEMMA NextTracked == TrackedInv /\ [Next]_vars => TrackedAgrees'
<1> SUFFICES ASSUME TrackedInv, [Next]_vars PROVE TrackedAgrees'
  OBVIOUS
<1>1. TypeOK /\ Rebuilding /\ PingsOnly /\ TrackedAgrees
  BY DEF TrackedInv
<1>2. CASE UNCHANGED <<session, listen_channels, custom_gucs, excused>>
  BY <1>1, <1>2, TrackedKept
<1>3. CASE Gone
  BY <1>3 DEF Gone, TrackedAgrees, NoSession, NewSession
<1>4. CASE AbandonStatement
  <2>1. session'.open => session.open
    BY <1>1, <1>4, AbandonedType DEF AbandonStatement
  <2> QED BY <1>1, <1>4, <2>1, DifferenceExcused DEF AbandonStatement, tracked
<1>5. CASE Calls
  BY <1>2, <1>5 DEF Calls, execute, set_param, listen, unlisten, unlisten_all, ping, reset,
                    with_retry, Send, set_reconnect_init_sql, reconnect, ensure_alive, tracked
<1>6. CASE Answers
  BY <1>1, <1>6, AnswersTracked
<1>7. CASE Swap
  BY <1>1, <1>7, SwapTracked
<1> QED
  BY <1>2, <1>3, <1>4, <1>5, <1>6, <1>7
  DEF Next, Step, BackoffEnds, ReconnectBackoffEnds, ShutdownEnds, ConnectOk, InitOk,
      ReconnectFails, RebuildOk, RebuildErr, AbandonWait, ServerDies, NewServerDies, vars, tracked

(* What session_state tracks is what the server's session has, across        *)
(* reconnects, resets, refusals and abandoned calls, but for the settings    *)
(* whose last change the client cannot know.                                 *)
THEOREM ReconnectTrackedAgrees == Spec => []TrackedAgrees
<1>1. Init => TrackedInv
  <2> SUFFICES ASSUME Init PROVE TrackedInv
    OBVIOUS
  <2>1. TypeOK /\ NotBuilding
    BY InitTypeOK DEF Init, NotBuilding
  <2>2. PingsOnly
    BY DEF Init, PingsOnly
  <2>3. session.now.channels = {} /\ listen_channels = {} /\ \A k \in Keys : custom_gucs[k] = "none"
    BY DEF Init, NewSession, Defaults
  <2>4. TrackedAgrees
    BY <2>3 DEF TrackedAgrees
  <2> QED BY <2>1, <2>2, <2>4, NotRebuilding DEF TrackedInv
<1>2. TrackedInv /\ [Next]_vars => TrackedInv'
  BY NextTypeOK, NextRebuilding, NextPingsOnly, NextTracked DEF TrackedInv
<1>3. TrackedInv => TrackedAgrees
  BY DEF TrackedInv
<1> QED BY <1>1, <1>2, <1>3, PTL DEF Spec
=============================================================================
