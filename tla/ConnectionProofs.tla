-------------------------- MODULE ConnectionProofs --------------------------
(***************************************************************************)
(* Proofs about module Connection: client and server agree on whose turn   *)
(* it is, for any set of calls, any number of messages in flight and of    *)
(* notifications.                                                          *)
(***************************************************************************)
EXTENDS Connection, SequenceTheorems, TLAPS

(* What callers leave alone: the three uses that are known to hang.          *)
Careful ==
    /\ "drop_cursor_stream" \notin Calls /\ "resume_next" \notin Calls
    /\ "query_params_stream" \notin Empty

-----------------------------------------------------------------------------
(* Types and control.                                                        *)

(* The messages of the server.                                               *)
Kinds == {"RowDescription", "CommandComplete", "ErrorResponse", "ReadyForQuery", "DataRow",
          "EmptyQueryResponse", "Ack", "NoData", "PortalSuspended", "CopyInResponse",
          "CopyOutResponse", "CopyData", "CopyDone", "NotificationResponse"}

(* The phases of a request.                                                  *)
Phases == {"query", "more", "rows", "empty", "parse", "describe", "execute", "parse_empty",
           "batch", "batch_describe", "batch_execute", "ack", "ack_end", "fetch", "fetched",
           "begin", "commit", "copy_in", "copying", "copy_done", "copy_fail", "copy_out", "out",
           "out_done", "ready"}

(* A message; a notification has a number.                                   *)
Message ==
    {m \in [kind : Kinds, status : TransactionStatus, note : 0 .. MaxNotes] :
        m.kind = "NotificationResponse" => m.note # 0}

(* The types of the variables; the server has one request at most.           *)
Typed ==
    /\ tokio \in BOOLEAN /\ needs_recovery \in BOOLEAN /\ broken \in BOOLEAN
    /\ owns_transaction \in BOOLEAN
    /\ state \in ConnectionState
    /\ transaction_status \in TransactionStatus /\ stx \in TransactionStatus
    /\ wire \in Seq(Message) /\ Len(wire) <= MaxWire
    /\ srv = <<>> \/ \E p \in Phases : srv = <<p>>
    /\ notes \in 0 .. MaxNotes /\ held \in 0 .. MaxNotes /\ missed \in SUBSET (1 .. MaxNotes)
    /\ notification_queue \in Seq(1 .. MaxNotes) /\ delivered \in Seq(1 .. MaxNotes)

(* Handles that may own a transaction, and the calls that end a COPY.        *)
Cursors  == {"Cursor", "CursorStream"}
CopyEnds == {"copy_finish", "copy_cancel"}

(* The handle of each call.                                                  *)
Holds(j, h, hs) ==
    /\ j = "next" => h = "RowStream" /\ hs \notin {"Done", "Error"}
    /\ j = "copy_read" => h = "CopyOut" /\ hs = "Active"
    /\ j = "fetch" => \/ h = "Cursor" /\ hs \in {"Active", "Done"}
                      \/ h = "CursorStream" /\ hs \in {"Active", "Completing"}
    /\ j \in {"open", "begin"} => h \in Cursors /\ hs = "Done"
    /\ j \in {"close_cursor", "commit"} => h \in Cursors
    /\ j \in CopyEnds => h = "CopyIn"
    /\ j \notin {"none", "next", "copy_read", "fetch", "open", "begin", "close_cursor", "commit"}
                \cup CopyEnds => h = "none"
    /\ hs = "Completing" => j = "fetch"

(* The calls that recover the connection before they send.                   *)
RecoverJobs == {"query_stream", "query_prepared_stream", "query_params_stream", "begin", "commit",
                "recover"}

(* The await at which each call can be suspended.                            *)
Awaits(j, a) ==
    /\ j = "none" <=> a = "rest"
    /\ a = "recover" => j \in RecoverJobs
    /\ a = "notification" => j = "wait_for_notification"
    /\ a = "send" => j \notin {"recover", "next", "copy_read"}
    /\ a \in {"read", "drain"} => j \notin {"recover", "query_stream", "query_prepared_stream"}
    /\ a = "read" => j # "copy_cancel"

(* Calls and handles fit together.                                           *)
Control ==
    /\ job \in Jobs /\ at \in {"rest", "send", "read", "drain", "recover", "notification"}
    /\ Awaits(job, at) /\ Holds(job, handle, hstate)
    /\ handle \in {"none", "RowStream", "Cursor", "CursorStream", "CopyIn", "CopyOut"}
    /\ hstate \in HandleStates(handle)
    /\ owns_transaction => handle \in Cursors

(* Recovery is asked for when nobody holds the connection, and never of an   *)
(* idle one.                                                                 *)
Recovery ==
    /\ at = "recover" => needs_recovery
    /\ needs_recovery => /\ state # "Idle"
                         /\ at = "recover" \/ (at = "rest" /\ handle = "none")
    /\ at \in {"send", "read", "drain"} => state # "Idle"
    /\ handle = "RowStream" /\ hstate \notin {"Done", "Error"} => state # "Idle"
    /\ handle = "CopyIn" \/ (handle = "CopyOut" /\ hstate = "Active") => state # "Idle"

-----------------------------------------------------------------------------
(* Whose turn it is.                                                         *)
Async == {"NotificationResponse", "Ack"}

(* A message of these kinds is among those in flight; all of them are.       *)
Has(w, K)   == \E i \in DOMAIN w : w[i].kind \in K
Only(w, K)  == \A i \in DOMAIN w : w[i].kind \in K
(* A message of K comes next, but for notifications and notices.             *)
Leads(w, K) == \E k \in DOMAIN w : /\ w[k].kind \in K
                                   /\ \A i \in DOMAIN w : i < k => w[i].kind \in Async
(* The server is in one of these phases.                                     *)
In(P) == srv # <<>> /\ Head(srv) \in P

(* Part of an answer is outstanding.                                         *)
Owed == srv # <<>> \/ Has(wire, {"ReadyForQuery"})

(* ReadyForQuery ends an answer and carries the server's status.             *)
Answer ==
    /\ srv # <<>> => ~Has(wire, {"ReadyForQuery"})
    /\ \A i \in DOMAIN wire :
         wire[i].kind = "ReadyForQuery" =>
            wire[i].status = stx /\ \A k \in DOMAIN wire : k > i => wire[k].kind \in Async
    /\ ~Owed => Only(wire, Async) /\ transaction_status = stx

(* Nothing is owed to a client that believes itself idle or is about to      *)
(* send, and something is to one that reads, has to recover or holds an      *)
(* unfinished stream or COPY.                                                *)
Turn ==
    /\ state = "Idle" /\ at \in {"rest", "notification"} => ~Owed
    /\ at = "notification" => state = "Idle"
    /\ at = "send" /\ job \notin CopyEnds => ~Owed
    /\ Reading \/ needs_recovery => Owed
    /\ handle = "RowStream" /\ hstate \notin {"Done", "Error"} => Owed
    /\ handle = "CopyIn" \/ (handle = "CopyOut" /\ hstate = "Active") => Owed

(* Something of K is still to come.                                          *)
ToCome(K, P) == Has(wire, K) \/ In(P)
(* ... and nothing but notifications and notices before it.                  *)
ComesNext(K, P) == Leads(wire, K) \/ (In(P) /\ Only(wire, Async))

(* What ends a stream of rows, and the phases from which it follows.         *)
Ends      == {"CommandComplete", "ErrorResponse"}
EndPhases == {"query", "rows", "parse", "describe", "execute"}
EndToCome == ToCome(Ends, EndPhases)

(* An empty statement has an answer of its own, without a description.       *)
EmptyToCome ==
    /\ ToCome({"EmptyQueryResponse"}, {"empty", "parse_empty"})
    /\ ~Has(wire, {"RowDescription"})
    /\ srv = <<>> \/ In({"empty", "parse_empty", "ready"})

(* What ends the preamble of query_params_stream, and what copy_in and       *)
(* copy_out wait for.                                                        *)
Described == {"RowDescription", "NoData", "ErrorResponse"}
CopyAnswers == {"CopyInResponse", "CopyOutResponse", "RowDescription", "CommandComplete",
                "EmptyQueryResponse", "ErrorResponse"}

(* The loops that do not stop at ReadyForQuery meet what they stop at before *)
(* it.                                                                       *)
Stops ==
    /\ handle = "RowStream" /\ at # "drain" =>
         /\ hstate = "WaitingForDescription" => EndToCome \/ EmptyToCome
         /\ hstate = "ReceivingRows" => EndToCome
    /\ job = "query_params_stream" /\ at = "read" =>
         EndToCome /\ ComesNext(Described, {"parse", "describe"})
    /\ job \in {"copy_in", "copy_out"} /\ at = "read" =>
         ComesNext(CopyAnswers, {"copy_in", "copy_out", "empty"})

(* A server that waits for copy data is not waited for.                      *)
Copying ==
    In({"copy_in", "copying"}) =>
        /\ handle \in {"none", "CopyIn"} /\ ~needs_recovery
        /\ Reading => /\ job = "copy_in" /\ at = "read"
                      /\ ComesNext({"CopyInResponse"}, {"copy_in"})
        /\ In({"copy_in"}) => handle = "none" /\ (Reading => Only(wire, Async))

(* A cursor's block stays open.                                              *)
Portal ==
    /\ job = "begin" /\ at = "read" =>
         /\ ToCome({"ErrorResponse"}, {"begin"}) \/ stx # "Idle"
         /\ srv = <<>> \/ In({"begin", "ready"})
    /\ handle \in Cursors /\ job \notin {"begin", "commit"} =>
         /\ srv = <<>> \/ In({"ack", "ack_end", "fetch", "fetched", "ready"})
         /\ hstate \in {"Active", "Completing"} \/ job = "open" => stx # "Idle"

(* All of this as long as the transport lives.                               *)
Protocol == ~broken => Answer /\ Turn /\ Stops /\ Copying /\ Portal

(* The invariant of the exchange.                                            *)
Exchange == Typed /\ Control /\ Recovery /\ Protocol

(* A wait holds a notification only while it drains, and begins with an      *)
(* empty queue.                                                              *)
Waiting ==
    /\ held # 0 => job = "wait_for_notification" /\ at = "drain"
    /\ job = "wait_for_notification" /\ at # "drain" => notification_queue = <<>>
    /\ ~broken => missed \subseteq 1 .. notes

(* The notifications: where they can be, and that none is lost.              *)
Noted == Waiting /\ NotificationsKept

(* The inductive invariant.                                                  *)
ConnectionInv == Exchange /\ Noted

-----------------------------------------------------------------------------
(* Messages in flight.                                                       *)

(* The first message, and those behind it.                                   *)
LEMMA TailParts ==
    ASSUME NEW w \in Seq(Message), w # <<>>
    PROVE  /\ Head(w) \in Message /\ Tail(w) \in Seq(Message) /\ Len(w) \in Nat /\ Len(w) > 0
           /\ Len(Tail(w)) = Len(w) - 1
           /\ DOMAIN w = 1 .. Len(w) /\ DOMAIN Tail(w) = 1 .. Len(w) - 1 /\ w[1] = Head(w)
           /\ \A i \in DOMAIN Tail(w) : i + 1 \in DOMAIN w /\ Tail(w)[i] = w[i + 1]
           /\ \A i \in DOMAIN w : i # 1 => i - 1 \in DOMAIN Tail(w) /\ Tail(w)[i - 1] = w[i]
<1>1. /\ Len(w) \in Nat /\ DOMAIN w = 1 .. Len(w) /\ Tail(w) \in Seq(Message)
      /\ Len(Tail(w)) = Len(w) - 1 /\ Head(w) \in Message /\ w[1] = Head(w)
      /\ \A i \in 1 .. Len(Tail(w)) : Tail(w)[i] = w[i + 1]
  BY LenProperties, HeadTailProperties
<1>2. DOMAIN Tail(w) = 1 .. Len(w) - 1
  BY <1>1, LenProperties
<1>3. Len(w) > 0
  BY <1>1, EmptySeq
<1>4. \A i \in DOMAIN Tail(w) : i + 1 \in DOMAIN w /\ Tail(w)[i] = w[i + 1]
  BY <1>1, <1>2
<1>5. \A i \in DOMAIN w : i # 1 => i - 1 \in DOMAIN Tail(w) /\ Tail(w)[i - 1] = w[i]
  <2> SUFFICES ASSUME NEW i \in DOMAIN w, i # 1 PROVE i - 1 \in DOMAIN Tail(w) /\ Tail(w)[i - 1] = w[i]
    OBVIOUS
  <2>1. i - 1 \in DOMAIN Tail(w) /\ (i - 1) + 1 = i
    BY <1>1, <1>2, <1>3
  <2> QED BY <1>4, <2>1
<1> QED BY <1>1, <1>2, <1>3, <1>4, <1>5

(* A message that joins them.                                                *)
LEMMA AppendParts ==
    ASSUME NEW w \in Seq(Message), NEW m \in Message
    PROVE  /\ Append(w, m) \in Seq(Message) /\ Len(w) \in Nat /\ Len(Append(w, m)) = Len(w) + 1
           /\ DOMAIN w = 1 .. Len(w) /\ DOMAIN Append(w, m) = 1 .. Len(w) + 1
           /\ Append(w, m)[Len(w) + 1] = m
           /\ \A i \in DOMAIN w : i \in DOMAIN Append(w, m) /\ Append(w, m)[i] = w[i]
           /\ \A i \in DOMAIN Append(w, m) : i \in DOMAIN w \/ i = Len(w) + 1
<1>1. /\ Len(w) \in Nat /\ DOMAIN w = 1 .. Len(w) /\ Append(w, m) \in Seq(Message)
      /\ Len(Append(w, m)) = Len(w) + 1 /\ Append(w, m)[Len(w) + 1] = m
      /\ \A i \in 1 .. Len(w) : Append(w, m)[i] = w[i]
  BY LenProperties, AppendProperties
<1>2. DOMAIN Append(w, m) = 1 .. Len(w) + 1
  BY <1>1, LenProperties
<1> QED BY <1>1, <1>2

(* Reading the first message.                                                *)
LEMMA ReadKinds ==
    ASSUME NEW w \in Seq(Message), w # <<>>, NEW K
    PROVE  /\ Has(w, K) <=> Head(w).kind \in K \/ Has(Tail(w), K)
           /\ Only(w, K) => Head(w).kind \in K /\ Only(Tail(w), K)
           /\ Leads(w, K) => Head(w).kind \in K \/ (Head(w).kind \in Async /\ Leads(Tail(w), K))
<1>1. /\ DOMAIN w = 1 .. Len(w) /\ w[1] = Head(w) /\ 1 \in DOMAIN w
      /\ \A i \in DOMAIN Tail(w) : i + 1 \in DOMAIN w /\ Tail(w)[i] = w[i + 1]
      /\ \A i \in DOMAIN w : i # 1 => i - 1 \in DOMAIN Tail(w) /\ Tail(w)[i - 1] = w[i]
      /\ Len(w) \in Nat
  BY TailParts
<1>2. Has(w, K) <=> Head(w).kind \in K \/ Has(Tail(w), K)
  BY <1>1 DEF Has
<1>3. Only(w, K) => Head(w).kind \in K /\ Only(Tail(w), K)
  BY <1>1 DEF Only
<1>4. ASSUME Leads(w, K), Head(w).kind \notin K
      PROVE  Head(w).kind \in Async /\ Leads(Tail(w), K)
  <2>1. PICK k \in DOMAIN w : w[k].kind \in K /\ \A i \in DOMAIN w : i < k => w[i].kind \in Async
    BY <1>4 DEF Leads
  <2>2. k # 1 /\ 1 < k
    BY <1>1, <1>4, <2>1
  <2>3. k - 1 \in DOMAIN Tail(w) /\ Tail(w)[k - 1].kind \in K
    BY <1>1, <2>1, <2>2
  <2>4. \A i \in DOMAIN Tail(w) : i < k - 1 => Tail(w)[i].kind \in Async
    <3> SUFFICES ASSUME NEW i \in DOMAIN Tail(w), i < k - 1 PROVE Tail(w)[i].kind \in Async
      OBVIOUS
    <3>1. i \in Int /\ k \in Int /\ i + 1 \in DOMAIN w /\ Tail(w)[i] = w[i + 1]
      BY <1>1, TailParts
    <3>2. i + 1 < k
      BY <3>1
    <3> QED BY <2>1, <3>1, <3>2
  <2> QED BY <1>1, <2>1, <2>2, <2>3, <2>4 DEF Leads
<1> QED BY <1>2, <1>3, <1>4

(* One message more.                                                         *)
LEMMA SendKinds ==
    ASSUME NEW w \in Seq(Message), NEW m \in Message, NEW K
    PROVE  /\ Has(Append(w, m), K) <=> Has(w, K) \/ m.kind \in K
           /\ Only(Append(w, m), K) <=> Only(w, K) /\ m.kind \in K
           /\ Leads(w, K) => Leads(Append(w, m), K)
           /\ Only(w, Async) /\ m.kind \in K => Leads(Append(w, m), K)
<1>1. /\ Len(w) \in Nat /\ DOMAIN w = 1 .. Len(w) /\ DOMAIN Append(w, m) = 1 .. Len(w) + 1
      /\ Append(w, m)[Len(w) + 1] = m /\ Len(w) + 1 \in DOMAIN Append(w, m)
      /\ \A i \in DOMAIN w : i \in DOMAIN Append(w, m) /\ Append(w, m)[i] = w[i]
      /\ \A i \in DOMAIN Append(w, m) : i \in DOMAIN w \/ i = Len(w) + 1
  BY AppendParts
<1>2. Has(Append(w, m), K) <=> Has(w, K) \/ m.kind \in K
  BY <1>1 DEF Has
<1>3. Only(Append(w, m), K) <=> Only(w, K) /\ m.kind \in K
  BY <1>1 DEF Only
<1>4. ASSUME Leads(w, K) PROVE Leads(Append(w, m), K)
  <2>1. PICK k \in DOMAIN w : w[k].kind \in K /\ \A i \in DOMAIN w : i < k => w[i].kind \in Async
    BY <1>4 DEF Leads
  <2>2. \A i \in DOMAIN Append(w, m) : i < k => i \in DOMAIN w
    BY <1>1
  <2> QED BY <1>1, <2>1, <2>2 DEF Leads
<1>5. ASSUME Only(w, Async), m.kind \in K PROVE Leads(Append(w, m), K)
  <2>1. \A i \in DOMAIN Append(w, m) : i < Len(w) + 1 => i \in DOMAIN w
    BY <1>1
  <2> QED BY <1>1, <1>5, <2>1 DEF Leads, Only
<1> QED BY <1>2, <1>3, <1>4, <1>5

(* What the server says, and the phase that follows.                         *)
LEMMA SayType ==
    ASSUME NEW p \in Phases, NEW s \in Say(p)
    PROVE  /\ s[1] \in Kinds \ {"NotificationResponse"} /\ s[2] \in Phases \cup {"idle"}
           /\ s[1] = "ReadyForQuery" <=> s[2] = "idle"
           /\ p \in EndPhases => s[1] \in Ends \/ s[2] \in EndPhases
           /\ p \in {"empty", "parse_empty"} =>
                \/ s[1] = "EmptyQueryResponse" /\ s[2] = "ready"
                \/ s[1] = "NoData" /\ s[2] = "empty"
           /\ p = "ready" => s[1] = "ReadyForQuery"
           /\ p \in {"parse", "describe"} =>
                s[1] \in Described \/ (s[1] = "Ack" /\ s[2] \in {"parse", "describe"})
           /\ p \in {"copy_in", "copy_out", "empty"} => s[1] \in CopyAnswers
           /\ p = "copy_in" /\ s[2] \in {"copy_in", "copying"} => s[1] = "CopyInResponse"
           /\ s[2] \in {"copy_in", "copying"} => p = "copy_in" /\ s[2] = "copying"
           /\ p = "begin" => s[1] \in Ends /\ s[2] = "ready"
           /\ p \in {"ack", "ack_end", "fetch", "fetched"} =>
                s[2] \in {"ack", "ack_end", "fetch", "fetched", "ready", "idle"}
<1>1. CASE p = "query"
  BY <1>1 DEF Say, Statement, Phases, Kinds, EndPhases, Ends, Described, CopyAnswers
<1>2. CASE p = "more"
  BY <1>2 DEF Say, Statement, Phases, Kinds, EndPhases, Ends, Described, CopyAnswers
<1>3. CASE p = "rows"
  BY <1>3 DEF Say, Statement, Phases, Kinds, EndPhases, Ends, Described, CopyAnswers
<1>4. CASE p = "empty"
  BY <1>4 DEF Say, Statement, Phases, Kinds, EndPhases, Ends, Described, CopyAnswers
<1>5. CASE p = "parse"
  BY <1>5 DEF Say, Statement, Phases, Kinds, EndPhases, Ends, Described, CopyAnswers
<1>6. CASE p = "describe"
  BY <1>6 DEF Say, Statement, Phases, Kinds, EndPhases, Ends, Described, CopyAnswers
<1>7. CASE p = "execute"
  BY <1>7 DEF Say, Statement, Phases, Kinds, EndPhases, Ends, Described, CopyAnswers
<1>8. CASE p = "parse_empty"
  BY <1>8 DEF Say, Statement, Phases, Kinds, EndPhases, Ends, Described, CopyAnswers
<1>9. CASE p = "batch"
  BY <1>9 DEF Say, Statement, Phases, Kinds, EndPhases, Ends, Described, CopyAnswers
<1>10. CASE p = "batch_describe"
  BY <1>10 DEF Say, Statement, Phases, Kinds, EndPhases, Ends, Described, CopyAnswers
<1>11. CASE p = "batch_execute"
  BY <1>11 DEF Say, Statement, Phases, Kinds, EndPhases, Ends, Described, CopyAnswers
<1>12. CASE p = "ack"
  BY <1>12 DEF Say, Statement, Phases, Kinds, EndPhases, Ends, Described, CopyAnswers
<1>13. CASE p = "ack_end"
  BY <1>13 DEF Say, Statement, Phases, Kinds, EndPhases, Ends, Described, CopyAnswers
<1>14. CASE p = "fetch"
  BY <1>14 DEF Say, Statement, Phases, Kinds, EndPhases, Ends, Described, CopyAnswers
<1>15. CASE p = "fetched"
  BY <1>15 DEF Say, Statement, Phases, Kinds, EndPhases, Ends, Described, CopyAnswers
<1>16. CASE p = "begin"
  BY <1>16 DEF Say, Statement, Phases, Kinds, EndPhases, Ends, Described, CopyAnswers
<1>17. CASE p = "commit"
  BY <1>17 DEF Say, Statement, Phases, Kinds, EndPhases, Ends, Described, CopyAnswers
<1>18. CASE p = "copy_in"
  BY <1>18 DEF Say, Statement, Phases, Kinds, EndPhases, Ends, Described, CopyAnswers
<1>19. CASE p = "copying"
  BY <1>19 DEF Say, Statement, Phases, Kinds, EndPhases, Ends, Described, CopyAnswers
<1>20. CASE p = "copy_done"
  BY <1>20 DEF Say, Statement, Phases, Kinds, EndPhases, Ends, Described, CopyAnswers
<1>21. CASE p = "copy_fail"
  BY <1>21 DEF Say, Statement, Phases, Kinds, EndPhases, Ends, Described, CopyAnswers
<1>22. CASE p = "copy_out"
  BY <1>22 DEF Say, Statement, Phases, Kinds, EndPhases, Ends, Described, CopyAnswers
<1>23. CASE p = "out"
  BY <1>23 DEF Say, Statement, Phases, Kinds, EndPhases, Ends, Described, CopyAnswers
<1>24. CASE p = "out_done"
  BY <1>24 DEF Say, Statement, Phases, Kinds, EndPhases, Ends, Described, CopyAnswers
<1>25. CASE p = "ready"
  BY <1>25 DEF Say, Statement, Phases, Kinds, EndPhases, Ends, Described, CopyAnswers
<1> QED BY <1>1, <1>2, <1>3, <1>4, <1>5, <1>6, <1>7, <1>8, <1>9, <1>10, <1>11, <1>12, <1>13, <1>14, <1>15, <1>16, <1>17, <1>18, <1>19, <1>20, <1>21, <1>22, <1>23, <1>24, <1>25 DEF Phases

-----------------------------------------------------------------------------
(* The server's steps.                                                       *)

(* What belongs to the client.                                               *)
clientVars == <<tokio, connVars, callVars, handleVars>>

(* The server's request, and what In says of it.                             *)
LEMMA OnePhase ==
    ASSUME NEW p, srv = <<p>>
    PROVE  srv # <<>> /\ Head(srv) = p /\ Tail(srv) = <<>> /\ \A P : In(P) <=> p \in P
<1>1. srv # <<>> /\ Head(srv) = p /\ Tail(srv) = <<>>
  OBVIOUS
<1> QED BY <1>1 DEF In

(* Without a request it is in no phase.                                      *)
LEMMA NoPhase == srv = <<>> => \A P : ~In(P)
BY DEF In

(* One message of an answer.                                                 *)
LEMMA SendParts ==
    ASSUME Typed, ServerSend
    PROVE  \E p \in Phases : \E s \in Say(p) :
             /\ srv = <<p>> /\ stx' \in StatusAfter(s[1], p)
             /\ srv' = IF s[2] = "idle" THEN <<>> ELSE <<s[2]>>
             /\ Msg(s[1], stx', 0) \in Message /\ wire' = Append(wire, Msg(s[1], stx', 0))
             /\ stx' \in TransactionStatus
             /\ Len(wire) < MaxWire
<1>1. PICK p \in Phases : srv = <<p>>
  BY DEF Typed, ServerSend
<1>2. srv # <<>> /\ Head(srv) = p /\ Tail(srv) = <<>>
  BY <1>1, OnePhase
<1>3. PICK s \in Say(p) :
        /\ stx' \in StatusAfter(s[1], p)
        /\ wire' = Append(wire, Msg(s[1], stx', 0))
        /\ srv' = (IF s[2] = "idle" THEN <<>> ELSE <<s[2]>>) \o Tail(srv)
  BY <1>2 DEF ServerSend
<1>4. s[1] \in Kinds \ {"NotificationResponse"} /\ s[2] \in Phases \cup {"idle"}
  BY SayType
<1>5. srv' = IF s[2] = "idle" THEN <<>> ELSE <<s[2]>>
  <2> DEFINE x == s[2]
  <2>1. <<>> \in Seq({x}) /\ <<x>> \in Seq({x})
    BY EmptySeq
  <2>2. <<>> \o <<>> = <<>> /\ <<x>> \o <<>> = <<x>>
    BY <2>1, ConcatEmptySeq
  <2> QED BY <1>2, <1>3, <2>2
<1>6. stx' \in TransactionStatus
  BY <1>3 DEF StatusAfter, Typed, TransactionStatus
<1>7. Msg(s[1], stx', 0) \in Message
  BY <1>4, <1>6, BoundsAssumption DEF Msg, Message
<1>8. Len(wire) < MaxWire
  BY DEF ServerSend
<1> QED BY <1>1, <1>3, <1>5, <1>6, <1>7, <1>8

(* What is to come comes.                                                    *)
LEMMA SendComes ==
    ASSUME Typed, NEW p \in Phases, NEW s \in Say(p), srv = <<p>>,
           srv' = IF s[2] = "idle" THEN <<>> ELSE <<s[2]>>,
           NEW m \in Message, m.kind = s[1], wire' = Append(wire, m), NEW K, NEW P, "idle" \notin P
    PROVE  /\ In(P)' <=> s[2] \in P
           /\ Has(wire', K) <=> Has(wire, K) \/ s[1] \in K
           /\ (p \in P => s[1] \in K \/ s[2] \in P) /\ ToCome(K, P) => ToCome(K, P)'
           /\ (p \in P => s[1] \in K \/ (s[1] \in Async /\ s[2] \in P)) /\ ComesNext(K, P)
                => ComesNext(K, P)'
<1>0. wire \in Seq(Message)
  BY DEF Typed
<1>1. In(P)' <=> s[2] \in P
  BY DEF In
<1>2. In(P) <=> p \in P
  BY OnePhase
<1>3. /\ Has(wire', K) <=> Has(wire, K) \/ s[1] \in K
      /\ Only(wire', Async) <=> Only(wire, Async) /\ s[1] \in Async
      /\ Leads(wire, K) => Leads(wire', K)
      /\ Only(wire, Async) /\ s[1] \in K => Leads(wire', K)
  BY <1>0, SendKinds
<1> QED BY <1>1, <1>2, <1>3 DEF ToCome, ComesNext

(* The server says one message of its answer.                                *)
LEMMA SendProtocol ==
    ASSUME Typed, Protocol, ServerSend
    PROVE  Protocol'
<1>0. UNCHANGED clientVars /\ UNCHANGED broken
  BY DEF ServerSend, clientVars
<1>p. PICK p \in Phases : \E s \in Say(p) :
        /\ srv = <<p>> /\ stx' \in StatusAfter(s[1], p)
        /\ srv' = IF s[2] = "idle" THEN <<>> ELSE <<s[2]>>
        /\ Msg(s[1], stx', 0) \in Message /\ wire' = Append(wire, Msg(s[1], stx', 0))
        /\ stx' \in TransactionStatus
  BY SendParts
<1>1. PICK s \in Say(p) :
        /\ srv = <<p>> /\ stx' \in StatusAfter(s[1], p)
        /\ srv' = IF s[2] = "idle" THEN <<>> ELSE <<s[2]>>
        /\ Msg(s[1], stx', 0) \in Message /\ wire' = Append(wire, Msg(s[1], stx', 0))
        /\ stx' \in TransactionStatus
  BY <1>p
<1> DEFINE m == Msg(s[1], stx', 0)
<1>2. m \in Message /\ m.kind = s[1] /\ m.status = stx' /\ wire' = Append(wire, m)
      /\ wire \in Seq(Message)
  BY <1>1 DEF Msg, Typed
<1> HIDE DEF m
<1> SUFFICES ASSUME ~broken, Answer, Turn, Stops, Copying, Portal
             PROVE  Answer' /\ Turn' /\ Stops' /\ Copying' /\ Portal'
  BY <1>0 DEF Protocol
<1>3. /\ s[1] \in Kinds \ {"NotificationResponse"} /\ s[2] \in Phases \cup {"idle"}
      /\ s[1] = "ReadyForQuery" <=> s[2] = "idle"
  BY SayType
<1>4. srv # <<>> /\ (\A P : In(P) <=> p \in P) /\ ~Has(wire, {"ReadyForQuery"}) /\ Owed
  BY <1>1, OnePhase DEF Answer, Owed
<1>5. /\ Has(wire', {"ReadyForQuery"}) <=> s[1] = "ReadyForQuery"
      /\ srv' # <<>> <=> s[1] # "ReadyForQuery"
  <2>1. Has(wire', {"ReadyForQuery"}) <=> s[1] = "ReadyForQuery"
    BY <1>2, <1>4, SendKinds
  <2>2. srv' # <<>> <=> s[2] # "idle"
    BY <1>1
  <2> QED BY <1>3, <2>1, <2>2
<1>6. Owed'
  BY <1>5 DEF Owed
<1>7. Answer'
  <2>1. ASSUME NEW i \in DOMAIN wire', wire'[i].kind = "ReadyForQuery"
        PROVE  wire'[i].status = stx' /\ \A k \in DOMAIN wire' : k > i => wire'[k].kind \in Async
    <3>1. i = Len(wire) + 1 /\ wire'[i] = m /\ DOMAIN wire' = 1 .. Len(wire) + 1 /\ Len(wire) \in Nat
      BY <1>2, <1>4, <2>1, AppendParts DEF Has
    <3> QED BY <1>2, <3>1
  <2> QED BY <1>5, <1>6, <2>1 DEF Answer
<1>8. Turn'
  BY <1>0, <1>4, <1>6 DEF Turn, clientVars, connVars, callVars, handleVars, Reading
<1>9. Stops'
  <2>1. EndToCome => EndToCome'
    <3>1. p \in EndPhases => s[1] \in Ends \/ s[2] \in EndPhases
      BY SayType
    <3> QED BY <1>1, <1>2, <3>1, SendComes DEF EndToCome, EndPhases
  <2>2. EmptyToCome => EmptyToCome'
    <3> SUFFICES ASSUME EmptyToCome PROVE EmptyToCome'
      OBVIOUS
    <3> DEFINE K == {"EmptyQueryResponse"}
               P == {"empty", "parse_empty"}
    <3>1. p \in {"empty", "parse_empty", "ready"} /\ ~Has(wire, {"RowDescription"})
      BY <1>4 DEF EmptyToCome
    <3>2. /\ p \in P => (s[1] \in K /\ s[2] = "ready") \/ (s[1] = "NoData" /\ s[2] = "empty")
          /\ p = "ready" => s[1] = "ReadyForQuery"
      BY SayType
    <3>3. ToCome(K, P) /\ "idle" \notin P
      BY DEF EmptyToCome
    <3>4. p \in P => s[1] \in K \/ s[2] \in P
      BY <3>2
    <3>5. ToCome(K, P)'
      BY <1>1, <1>2, <3>3, <3>4, SendComes
    <3>6. ~Has(wire', {"RowDescription"})
      BY <1>2, <3>1, <3>2, SendKinds
    <3>7. srv' = <<>> \/ s[2] \in {"empty", "parse_empty", "ready"}
      BY <1>1, <1>3, <3>1, <3>2
    <3>8. In({"empty", "parse_empty", "ready"})' <=> s[2] \in {"empty", "parse_empty", "ready"}
      BY <1>1, <1>2, SendComes
    <3> QED BY <3>5, <3>6, <3>7, <3>8 DEF EmptyToCome
  <2>3. ComesNext(Described, {"parse", "describe"}) => ComesNext(Described, {"parse", "describe"})'
    <3>1. p \in {"parse", "describe"} =>
            s[1] \in Described \/ (s[1] \in Async /\ s[2] \in {"parse", "describe"})
      BY SayType DEF Async
    <3> QED BY <1>1, <1>2, <3>1, SendComes
  <2>4. ComesNext(CopyAnswers, {"copy_in", "copy_out", "empty"})
          => ComesNext(CopyAnswers, {"copy_in", "copy_out", "empty"})'
    <3>1. p \in {"copy_in", "copy_out", "empty"} => s[1] \in CopyAnswers
      BY SayType
    <3> QED BY <1>1, <1>2, <3>1, SendComes
  <2> QED BY <1>0, <2>1, <2>2, <2>3, <2>4 DEF Stops, clientVars, connVars, callVars, handleVars
<1>10. Copying'
  <2> DEFINE P == {"copy_in", "copying"}
  <2> SUFFICES ASSUME In(P)' PROVE Copying'
    BY DEF Copying
  <2>1. s[2] \in P
    BY <1>1, <1>2, SendComes
  <2>2. p = "copy_in" /\ s[1] = "CopyInResponse"
    BY <2>1, SayType
  <2>3. In(P)
    BY <1>4, <2>2
  <2>4. ComesNext({"CopyInResponse"}, {"copy_in"}) => ComesNext({"CopyInResponse"}, {"copy_in"})'
    BY <1>1, <1>2, <2>2, SendComes
  <2>5. ~In({"copy_in"})'
    BY <1>1, <2>1, SayType DEF In
  <2> QED BY <1>0, <2>3, <2>4, <2>5 DEF Copying, Reading, clientVars, connVars, callVars, handleVars
<1>11. Portal'
  <2>1. ASSUME job = "begin", at = "read"
        PROVE  /\ ToCome({"ErrorResponse"}, {"begin"})' \/ stx' # "Idle"
               /\ srv' = <<>> \/ In({"begin", "ready"})'
    <3>1. p \in {"begin", "ready"} /\ (ToCome({"ErrorResponse"}, {"begin"}) \/ stx # "Idle")
      BY <1>4, <2>1 DEF Portal
    <3>2. CASE p = "begin"
      <4>1. s[1] \in Ends /\ s[2] = "ready"
        BY <3>2, SayType
      <4>2. s[1] = "ErrorResponse" \/ stx' = "InTransaction"
        BY <1>1, <3>2, <4>1 DEF StatusAfter, Ends
      <4>3. Has(wire', {"ErrorResponse"}) <=> Has(wire, {"ErrorResponse"}) \/ s[1] \in {"ErrorResponse"}
        BY <1>2, SendKinds
      <4>4. In({"begin", "ready"})'
        BY <1>1, <4>1 DEF In
      <4> QED BY <4>2, <4>3, <4>4 DEF ToCome
    <3>3. CASE p = "ready"
      <4>1. s[1] = "ReadyForQuery" /\ srv' = <<>>
        BY <1>1, <1>3, <3>3, SayType
      <4>2. stx' = stx
        BY <1>1, <4>1 DEF StatusAfter
      <4>3. Has(wire', {"ErrorResponse"}) <=> Has(wire, {"ErrorResponse"}) \/ s[1] \in {"ErrorResponse"}
        BY <1>2, SendKinds
      <4>4. ~In({"begin"})
        BY <1>4, <3>3
      <4> QED BY <3>1, <4>1, <4>2, <4>3, <4>4 DEF ToCome
    <3> QED BY <3>1, <3>2, <3>3
  <2>2. ASSUME handle \in Cursors, job \notin {"begin", "commit"}
        PROVE  /\ srv' = <<>> \/ In({"ack", "ack_end", "fetch", "fetched", "ready"})'
               /\ stx # "Idle" => stx' # "Idle"
    <3>1. p \in {"ack", "ack_end", "fetch", "fetched", "ready"}
      BY <1>4, <2>2 DEF Portal
    <3>2. s[2] \in {"ack", "ack_end", "fetch", "fetched", "ready", "idle"}
      BY <1>3, <3>1, SayType
    <3>3. srv' = <<>> \/ In({"ack", "ack_end", "fetch", "fetched", "ready"})'
      BY <1>1, <3>2 DEF In
    <3>4. stx # "Idle" => stx' # "Idle"
      BY <1>1, <3>1 DEF StatusAfter
    <3> QED BY <3>3, <3>4
  <2> QED BY <1>0, <2>1, <2>2 DEF Portal, clientVars, connVars, callVars, handleVars
<1> QED BY <1>7, <1>8, <1>9, <1>10, <1>11

(* A notification or a notice changes nothing.                               *)
LEMMA AsyncProtocol ==
    ASSUME Typed, Protocol, NEW m \in Message, m.kind \in Async, wire' = Append(wire, m),
           UNCHANGED <<clientVars, srv, stx, broken>>
    PROVE  Protocol'
<1>0. wire \in Seq(Message) /\ m.kind # "ReadyForQuery" /\ m.kind # "RowDescription"
  BY DEF Typed, Async
<1> SUFFICES ASSUME ~broken, Answer, Turn, Stops, Copying, Portal
             PROVE  Answer' /\ Turn' /\ Stops' /\ Copying' /\ Portal'
  BY DEF Protocol
<1>1. \A P : In(P)' <=> In(P)
  BY DEF In
<1>2. /\ Has(wire', {"ReadyForQuery"}) <=> Has(wire, {"ReadyForQuery"})
      /\ Has(wire', {"RowDescription"}) <=> Has(wire, {"RowDescription"})
      /\ Only(wire, Async) => Only(wire', Async)
  BY <1>0, SendKinds
<1>3. Owed' <=> Owed
  BY <1>2 DEF Owed
<1>4. ASSUME NEW K, NEW P
      PROVE  (ToCome(K, P) => ToCome(K, P)') /\ (ComesNext(K, P) => ComesNext(K, P)')
  BY <1>0, <1>1, <1>2, SendKinds DEF ToCome, ComesNext
<1>5. Answer'
  <2>1. ASSUME NEW i \in DOMAIN wire', wire'[i].kind = "ReadyForQuery"
        PROVE  wire'[i].status = stx' /\ \A k \in DOMAIN wire' : k > i => wire'[k].kind \in Async
    <3>1. /\ \A k \in DOMAIN wire : k \in DOMAIN wire' /\ wire'[k] = wire[k]
          /\ \A k \in DOMAIN wire' : k \in DOMAIN wire \/ wire'[k] = m
      BY <1>0, AppendParts
    <3>2. i \in DOMAIN wire /\ wire'[i] = wire[i]
      BY <1>0, <2>1, <3>1
    <3> QED BY <2>1, <3>1, <3>2 DEF Answer
  <2> QED BY <1>2, <1>3, <2>1 DEF Answer, clientVars, connVars
<1>6. Turn'
  BY <1>3 DEF Turn, Reading, clientVars, connVars, callVars, handleVars
<1>7. Stops'
  <2>1. (EndToCome => EndToCome') /\ (EmptyToCome => EmptyToCome')
    BY <1>1, <1>2, <1>4 DEF EndToCome, EmptyToCome
  <2> QED BY <1>4, <2>1 DEF Stops, clientVars, connVars, callVars, handleVars
<1>8. Copying'
  BY <1>1, <1>2, <1>4 DEF Copying, Reading, clientVars, connVars, callVars, handleVars
<1>9. Portal'
  BY <1>1, <1>4 DEF Portal, clientVars, connVars, callVars, handleVars
<1> QED BY <1>5, <1>6, <1>7, <1>8, <1>9

-----------------------------------------------------------------------------
(* Reading.                                                                  *)

(* ReadyForQuery ends what is owed, and nothing else does.                   *)
LEMMA ReadAnswer ==
    ASSUME Typed, Answer, wire # <<>>, wire' = Tail(wire), UNCHANGED <<srv, stx>>
    PROVE  /\ Head(wire).kind = "ReadyForQuery" => /\ Owed /\ ~Owed' /\ srv = <<>>
                                                   /\ Head(wire).status = stx
           /\ Head(wire).kind # "ReadyForQuery" => (Owed' <=> Owed)
           /\ transaction_status' = (IF Head(wire).kind = "ReadyForQuery" THEN Head(wire).status
                                     ELSE transaction_status) => Answer'
<1>0. wire \in Seq(Message)
  BY DEF Typed
<1>1. /\ 1 \in DOMAIN wire /\ wire[1] = Head(wire)
      /\ \A i \in DOMAIN Tail(wire) : i + 1 \in DOMAIN wire /\ Tail(wire)[i] = wire[i + 1] /\ i + 1 > 1
      /\ \A i, k \in DOMAIN Tail(wire) : k > i => k + 1 > i + 1
  BY <1>0, TailParts
<1>2. /\ Has(wire, {"ReadyForQuery"}) <=> Head(wire).kind = "ReadyForQuery" \/ Has(wire', {"ReadyForQuery"})
      /\ Only(wire, Async) => Only(wire', Async)
  BY <1>0, ReadKinds
<1>3. ASSUME NEW i \in DOMAIN wire', wire'[i].kind = "ReadyForQuery"
      PROVE  wire'[i].status = stx' /\ \A k \in DOMAIN wire' : k > i => wire'[k].kind \in Async
  <2>1. i + 1 \in DOMAIN wire /\ wire[i + 1].kind = "ReadyForQuery" /\ wire'[i] = wire[i + 1]
    BY <1>1, <1>3
  <2>2. wire[i + 1].status = stx /\ \A k \in DOMAIN wire : k > i + 1 => wire[k].kind \in Async
    BY <2>1 DEF Answer
  <2> QED BY <1>1, <2>1, <2>2
<1>4. srv' # <<>> => ~Has(wire', {"ReadyForQuery"})
  BY <1>2 DEF Answer
<1>5. CASE Head(wire).kind = "ReadyForQuery"
  <2>1. Head(wire).status = stx /\ \A k \in DOMAIN wire : k > 1 => wire[k].kind \in Async
    BY <1>1, <1>5 DEF Answer
  <2>2. Only(wire', Async)
    BY <1>1, <2>1 DEF Only
  <2>3. ~Has(wire', {"ReadyForQuery"})
    BY <2>2 DEF Has, Only, Async
  <2>4. Owed /\ ~Owed' /\ srv = <<>>
    BY <1>2, <1>5, <2>3 DEF Owed, Answer
  <2> QED BY <1>3, <1>4, <1>5, <2>1, <2>2, <2>4 DEF Answer
<1>6. CASE Head(wire).kind # "ReadyForQuery"
  <2>1. Owed' <=> Owed
    BY <1>2, <1>6 DEF Owed
  <2>2. ~Owed /\ UNCHANGED transaction_status => Only(wire', Async) /\ transaction_status' = stx'
    BY <1>2 DEF Answer
  <2> QED BY <1>3, <1>4, <1>6, <2>1, <2>2 DEF Answer
<1> QED BY <1>5, <1>6

(* What is to come stays to come until it is read.                           *)
LEMMA ReadComes ==
    ASSUME Typed, wire # <<>>, wire' = Tail(wire), UNCHANGED srv, NEW K, NEW P
    PROVE  /\ In(P)' <=> In(P)
           /\ ~Has(wire, K) => ~Has(wire', K) /\ Head(wire).kind \notin K
           /\ ToCome(K, P) /\ Head(wire).kind \notin K => ToCome(K, P)'
           /\ ComesNext(K, P) /\ Head(wire).kind \notin K
                => ComesNext(K, P)' /\ Head(wire).kind \in Async
<1>0. wire \in Seq(Message)
  BY DEF Typed
<1>1. In(P)' <=> In(P)
  BY DEF In
<1>2. /\ Has(wire, K) <=> Head(wire).kind \in K \/ Has(wire', K)
      /\ Only(wire, Async) => Head(wire).kind \in Async /\ Only(wire', Async)
      /\ Leads(wire, K) => Head(wire).kind \in K \/ (Head(wire).kind \in Async /\ Leads(wire', K))
  BY <1>0, ReadKinds
<1> QED BY <1>1, <1>2 DEF ToCome, ComesNext

(* With nothing owed, little remains to be said.                             *)
LEMMA QuietProtocol ==
    ASSUME Answer', Turn', ~Owed',
           handle' \in Cursors /\ job' \notin {"begin", "commit"}
             => (hstate' \in {"Active", "Completing"} \/ job' = "open" => stx' # "Idle")
    PROVE  Protocol'
<1>1. srv' = <<>> /\ \A P : ~In(P)'
  BY DEF Owed, In
<1>2. ~Reading' /\ ~(handle' = "RowStream" /\ hstate' \notin {"Done", "Error"})
  BY DEF Turn
<1>3. Stops'
  BY <1>2 DEF Stops, Reading
<1>4. Copying' /\ Portal'
  BY <1>1, <1>2 DEF Copying, Portal, Reading
<1> QED BY <1>3, <1>4 DEF Protocol

(* A server that owes something has not been misread.                        *)
LEMMA OwedOrQuiet ==
    ASSUME Typed, Answer
    PROVE  /\ Owed => wire # <<>> \/ srv # <<>>
           /\ ~Owed => srv = <<>> /\ Only(wire, Async)
BY DEF Owed, Answer, Has

-----------------------------------------------------------------------------
(* Calls begin.                                                              *)

(* The state a call asks for is never Idle.                                  *)
LEMMA ActiveStates == \A j : ActiveState(j) \in ConnectionState \ {"Idle"}
BY DEF ActiveState, ConnectionState

(* With the same wire and server, the same is owed.                          *)
LEMMA StillOwed ==
    ASSUME UNCHANGED <<wire, srv>>
    PROVE  /\ Owed' <=> Owed
           /\ \A P : In(P)' <=> In(P)
           /\ \A K, P : ToCome(K, P)' <=> ToCome(K, P)
           /\ \A K, P : ComesNext(K, P)' <=> ComesNext(K, P)
           /\ EndToCome' <=> EndToCome
           /\ EmptyToCome' <=> EmptyToCome
           /\ UNCHANGED <<stx, transaction_status>> => (Answer' <=> Answer)
<1>1. /\ Owed' <=> Owed
      /\ \A P : In(P)' <=> In(P)
  BY DEF Owed, In
<1>2. /\ \A K, P : ToCome(K, P)' <=> ToCome(K, P)
      /\ \A K, P : ComesNext(K, P)' <=> ComesNext(K, P)
  BY <1>1 DEF ToCome, ComesNext
<1>3. (EndToCome' <=> EndToCome) /\ (EmptyToCome' <=> EmptyToCome)
  BY <1>1, <1>2 DEF EndToCome, EmptyToCome
<1>4. UNCHANGED <<stx, transaction_status>> => (Answer' <=> Answer)
  BY <1>1 DEF Answer
<1> QED BY <1>1, <1>2, <1>3, <1>4

(* A call begins with recovery or with its transition.                       *)
LEMMA StartExchange ==
    ASSUME Exchange, at = "rest", NEW j \in Jobs \ ({"none", "next", "copy_read"} \cup CopyEnds),
           UNCHANGED <<tokio, needs_recovery, transaction_status, noteVars, wire, serverVars>>,
           \/ needs_recovery /\ Suspend(j, "recover") /\ state' = state /\ j \in RecoverJobs
           \/ state = "Idle" /\ Transition(j) /\ j # "recover",
           \/ UNCHANGED handleVars /\ Holds(j, handle, hstate)
           \/ UNCHANGED handleVars /\ at' = "rest"
           \/ /\ at' # "rest" /\ handle = "none" /\ j \in {"begin", "open"}
              /\ handle' \in Cursors /\ hstate' = "Done" /\ owns_transaction' \in BOOLEAN,
           j = "open" => transaction_status # "Idle"
    PROVE  Exchange'
<1>0. Typed /\ Control /\ Recovery /\ Protocol
  BY DEF Exchange
<1>1. /\ UNCHANGED <<tokio, needs_recovery, transaction_status, notification_queue, delivered, held,
                     missed, wire, srv, stx, broken, notes>>
  BY DEF noteVars, serverVars
<1>2. /\ job' \in {"none", j} /\ job = "none"
      /\ \/ needs_recovery /\ state' = state /\ j \in RecoverJobs /\ at' = "recover" /\ job' = j
         \/ /\ state = "Idle" /\ state' \in ConnectionState \ {"Idle"} /\ j # "recover"
            /\ \/ at' = "send" /\ job' = j
               \/ at' = "rest" /\ job' = "none"
  BY <1>0, ActiveStates DEF Suspend, Transition, Return, Control, Awaits
<1>3. Typed'
  <2>1. state' \in ConnectionState /\ owns_transaction' \in BOOLEAN
    BY <1>0, <1>2 DEF Typed, handleVars
  <2> QED BY <1>0, <1>1, <2>1 DEF Typed
<1>4. Control'
  <2>1. job' \in Jobs /\ at' \in {"rest", "send", "read", "drain", "recover", "notification"}
    BY <1>2 DEF Jobs
  <2>2. Awaits(job, at)'
    BY <1>2 DEF Awaits, RecoverJobs
  <2>3. CASE UNCHANGED handleVars
    <3>1. Holds(job, handle, hstate)'
      BY <1>0, <1>2, <2>3 DEF Holds, handleVars, Control
    <3> QED BY <1>0, <2>1, <2>2, <2>3, <3>1 DEF Control, handleVars
  <2>4. CASE /\ at' # "rest" /\ handle = "none" /\ j \in {"begin", "open"}
             /\ handle' \in Cursors /\ hstate' = "Done" /\ owns_transaction' \in BOOLEAN
    <3>1. job' = j
      BY <1>2, <2>4
    <3>2. Holds(job, handle, hstate)'
      BY <2>4, <3>1 DEF Holds, CopyEnds
    <3>3. hstate' \in HandleStates(handle')
      BY <2>4 DEF HandleStates, Cursors
    <3> QED BY <2>1, <2>2, <2>4, <3>2, <3>3 DEF Control, Cursors
  <2> QED BY <2>3, <2>4
<1>5. Recovery'
  <2>1. needs_recovery => at' = "recover" /\ state' # "Idle"
    BY <1>0, <1>2 DEF Recovery
  <2>2. at' = "send" => state' # "Idle"
    BY <1>2
  <2>3. state' # "Idle"
    BY <1>2, <2>1
  <2> QED BY <1>1, <1>2, <2>1, <2>3 DEF Recovery
<1>6. Protocol'
  <2> SUFFICES ASSUME ~broken PROVE Protocol'
    BY <1>1 DEF Protocol
  <2>0. Answer /\ Turn /\ Stops /\ Copying /\ Portal
    BY <1>0 DEF Protocol
  <2>1. Answer' /\ (Owed' <=> Owed) /\ \A P : In(P)' <=> In(P)
    BY <1>1, <2>0, StillOwed
  <2>2. CASE needs_recovery
    <3>1. at' = "recover" /\ job' \in RecoverJobs /\ Owed /\ handle = "none" /\ state' # "Idle" /\ job' = j
      BY <1>0, <1>2, <2>0, <2>2 DEF Turn, Recovery
    <3>2. handle' \in Cursors \cup {"none"}
      BY <3>1 DEF handleVars
    <3>3. Turn'
      BY <2>1, <3>1, <3>2 DEF Turn, Cursors
    <3>4. Stops'
      BY <3>1, <3>2 DEF Stops, Cursors
    <3>5. Copying'
      <4>1. ~In({"copy_in", "copying"})
        BY <2>0, <2>2 DEF Copying
      <4> QED BY <2>1, <4>1 DEF Copying
    <3>6. Portal'
      <4>1. handle' \in Cursors => job' \in {"begin", "commit"}
        BY <3>1, <3>2 DEF handleVars, RecoverJobs, Cursors
      <4> QED BY <3>1, <4>1 DEF Portal
    <3> QED BY <2>1, <3>3, <3>4, <3>5, <3>6 DEF Protocol
  <2>3. CASE ~needs_recovery
    <3>1. /\ state = "Idle" /\ state' # "Idle" /\ ~Owed
          /\ (at' = "send" /\ job' = j) \/ (at' = "rest" /\ job' = "none")
      BY <1>2, <2>0, <2>3 DEF Turn
    <3>2. transaction_status = stx
      BY <2>0, <3>1 DEF Answer
    <3>3. ~needs_recovery'
      BY <1>1, <2>3
    <3>4. ~(handle' = "RowStream" /\ hstate' \notin {"Done", "Error"})
          /\ ~(handle' = "CopyIn" \/ (handle' = "CopyOut" /\ hstate' = "Active"))
      BY <2>0, <3>1 DEF Turn, handleVars, Cursors
    <3>5. Turn'
      BY <2>1, <3>1, <3>3, <3>4 DEF Turn, Reading
    <3>6. ASSUME handle' \in Cursors, job' \notin {"begin", "commit"},
                 hstate' \in {"Active", "Completing"} \/ job' = "open"
          PROVE  stx' # "Idle"
      <4>1. CASE job' = "open"
        BY <1>1, <3>1, <3>2, <4>1
      <4>2. CASE job' # "open" /\ hstate' \in {"Active", "Completing"}
        BY <1>1, <1>2, <2>0, <3>6, <4>2 DEF Portal, handleVars
      <4> QED BY <3>6, <4>1, <4>2
    <3> QED BY <2>1, <3>1, <3>5, <3>6, QuietProtocol
  <2> QED BY <2>2, <2>3
<1> QED BY <1>3, <1>4, <1>5, <1>6 DEF Exchange

(* A call that finds the connection free has no handle.                      *)
LEMMA FreeHolds ==
    ASSUME Control, Free
    PROVE  /\ at = "rest" /\ handle = "none" /\ hstate = "Done"
           /\ \A j : j \notin {"next", "copy_read", "fetch", "open", "begin", "close_cursor", "commit"}
                              \cup CopyEnds => Holds(j, handle, hstate)
<1>1. at = "rest" /\ handle = "none" /\ hstate = "Done"
  BY DEF Control, Free, HandleStates
<1> QED BY <1>1 DEF Holds

(* query_stream, query_prepared_stream and query_params_stream.              *)
LEMMA StartStreamExchange ==
    ASSUME Exchange, NEW j \in {"query_stream", "query_prepared_stream", "query_params_stream"},
           StartStream(j)
    PROVE  Exchange'
<1>1. Control /\ Free
  BY DEF Exchange, StartStream
<1>2. at = "rest" /\ Holds(j, handle, hstate)
  BY <1>1, FreeHolds DEF CopyEnds
<1>3. /\ UNCHANGED <<tokio, needs_recovery, transaction_status, noteVars, wire, serverVars>>
      /\ UNCHANGED handleVars
      /\ \/ needs_recovery /\ Suspend(j, "recover") /\ state' = state
         \/ state = "Idle" /\ Transition(j)
  BY DEF StartStream, RecoverFirst
<1>4. j \in Jobs \ ({"none", "next", "copy_read"} \cup CopyEnds) /\ j \in RecoverJobs /\ j # "recover"
  BY DEF Jobs, CopyEnds, RecoverJobs
<1> QED BY <1>2, <1>3, <1>4, StartExchange

(* The calls that need an idle connection.                                   *)
LEMMA StartCallExchange ==
    ASSUME Exchange, NEW j \in {"batch_execute", "query_params", "query_prepared", "prepare",
                                "close_statement", "pipeline", "copy_in", "copy_out"},
           StartCall(j)
    PROVE  Exchange'
<1>1. Control /\ Free
  BY DEF Exchange, StartCall
<1>2. at = "rest" /\ Holds(j, handle, hstate)
  BY <1>1, FreeHolds DEF CopyEnds
<1>3. /\ UNCHANGED <<tokio, needs_recovery, transaction_status, noteVars, wire, serverVars>>
      /\ UNCHANGED handleVars /\ state = "Idle" /\ Transition(j)
  BY DEF StartCall
<1>4. j \in Jobs \ ({"none", "next", "copy_read"} \cup CopyEnds) /\ j # "recover" /\ j # "open"
  BY DEF Jobs, CopyEnds
<1> QED BY <1>2, <1>3, <1>4, StartExchange

(* query_cursor and query_cursor_stream.                                     *)
LEMMA StartCursorExchange ==
    ASSUME Exchange, NEW h \in Cursors, StartCursor(h)
    PROVE  Exchange'
<1>1. Control /\ Free /\ Typed
  BY DEF Exchange, StartCursor
<1>2. at = "rest" /\ handle = "none"
  BY <1>1, FreeHolds
<1>3. /\ UNCHANGED <<tokio, needs_recovery, transaction_status, noteVars, wire, serverVars>>
      /\ \/ UNCHANGED handleVars /\ at' = "rest"
         \/ /\ at' # "rest" /\ handle' = h /\ hstate' = "Done"
            /\ owns_transaction' = (transaction_status = "Idle")
  BY DEF StartCursor
<1>4. \/ UNCHANGED handleVars /\ at' = "rest"
      \/ /\ at' # "rest" /\ handle' \in Cursors /\ hstate' = "Done" /\ owns_transaction' \in BOOLEAN
  BY <1>3, Zenon
<1>5. CASE transaction_status = "Idle"
  <2>1. \/ needs_recovery /\ Suspend("begin", "recover") /\ state' = state
        \/ state = "Idle" /\ Transition("begin")
    BY <1>5 DEF StartCursor, RecoverFirst
  <2> DEFINE j == "begin"
  <2>2. j \in Jobs \ ({"none", "next", "copy_read"} \cup CopyEnds) /\ j \in RecoverJobs /\ j # "recover"
        /\ j # "open" /\ j \in {"begin", "open"}
    BY DEF Jobs, CopyEnds, RecoverJobs
  <2>3. \/ needs_recovery /\ Suspend(j, "recover") /\ state' = state
        \/ state = "Idle" /\ Transition(j)
    BY <2>1
  <2> HIDE DEF j
  <2> QED BY <1>2, <1>3, <1>4, <2>2, <2>3, StartExchange
<1>6. CASE transaction_status # "Idle"
  <2> DEFINE j == "open"
  <2>1. state = "Idle" /\ Transition(j)
    BY <1>6 DEF StartCursor
  <2>2. j \in Jobs \ ({"none", "next", "copy_read"} \cup CopyEnds) /\ j # "recover"
        /\ j \in {"begin", "open"}
    BY DEF Jobs, CopyEnds
  <2> HIDE DEF j
  <2> QED BY <1>2, <1>3, <1>4, <1>6, <2>1, <2>2, StartExchange
<1> QED BY <1>5, <1>6

(* recover().                                                                *)
LEMMA RecoverExchange ==
    ASSUME Exchange, recover
    PROVE  Exchange'
<1> DEFINE j == "recover"
<1>1. Control /\ Free
  BY DEF Exchange, recover
<1>2. at = "rest" /\ Holds(j, handle, hstate)
  BY <1>1, FreeHolds DEF CopyEnds
<1>3. /\ UNCHANGED <<tokio, needs_recovery, transaction_status, noteVars, wire, serverVars>>
      /\ UNCHANGED handleVars /\ needs_recovery /\ Suspend(j, "recover") /\ state' = state
  BY DEF recover, connVars
<1>4. j \in Jobs \ ({"none", "next", "copy_read"} \cup CopyEnds) /\ j \in RecoverJobs /\ j # "open"
  BY DEF Jobs, CopyEnds, RecoverJobs
<1> HIDE DEF j
<1> QED BY <1>2, <1>3, <1>4, StartExchange

(* The calls of a cursor.                                                    *)
LEMMA StartHandleExchange ==
    ASSUME Exchange, NEW j \in {"fetch", "close_cursor", "commit"}, at = "rest",
           UNCHANGED <<tokio, needs_recovery, transaction_status, noteVars, handleVars, wire,
                       serverVars>>,
           \/ j \in RecoverJobs /\ RecoverFirst(j, state)
           \/ state = "Idle" /\ Transition(j),
           Holds(j, handle, hstate)
    PROVE  Exchange'
<1>1. \/ needs_recovery /\ Suspend(j, "recover") /\ state' = state /\ j \in RecoverJobs
      \/ state = "Idle" /\ Transition(j)
  BY DEF RecoverFirst
<1>2. j \in Jobs \ ({"none", "next", "copy_read"} \cup CopyEnds) /\ j # "recover" /\ j # "open"
  BY DEF Jobs, CopyEnds
<1> QED BY <1>1, <1>2, StartExchange

(* fetch_next, fetch_batch, cursor_close, close_portal and consume.          *)
LEMMA CursorCallExchange ==
    ASSUME Exchange, fetch_next \/ fetch_batch \/ cursor_close \/ close_portal \/ consume
    PROVE  Exchange'
<1>1. CASE fetch_next \/ fetch_batch
  <2> DEFINE j == "fetch"
  <2>1. /\ at = "rest" /\ state = "Idle" /\ Transition(j)
        /\ handle \in {"Cursor", "CursorStream"} /\ hstate = "Active"
        /\ UNCHANGED <<tokio, needs_recovery, transaction_status, noteVars, handleVars, wire, serverVars>>
    BY <1>1 DEF fetch_next, fetch_batch, StartHandleCall
  <2>2. Holds(j, handle, hstate) /\ j \in {"fetch", "close_cursor", "commit"}
    BY <2>1 DEF Holds, CopyEnds
  <2> HIDE DEF j
  <2> QED BY <2>1, <2>2, StartHandleExchange
<1>2. CASE cursor_close \/ close_portal
  <2> DEFINE j == "close_cursor"
  <2>1. /\ at = "rest" /\ state = "Idle" /\ Transition(j)
        /\ handle \in {"Cursor", "CursorStream"} /\ hstate \in {"Active", "Done", "Error"}
        /\ UNCHANGED <<tokio, needs_recovery, transaction_status, noteVars, handleVars, wire, serverVars>>
    BY <1>2 DEF cursor_close, close_portal, StartHandleCall
  <2>2. Holds(j, handle, hstate) /\ j \in {"fetch", "close_cursor", "commit"}
    BY <2>1 DEF Holds, CopyEnds, Cursors
  <2> HIDE DEF j
  <2> QED BY <2>1, <2>2, StartHandleExchange
<1>3. CASE consume
  <2> DEFINE j == "commit"
  <2>1. /\ at = "rest" /\ RecoverFirst(j, state) /\ j \in RecoverJobs
        /\ handle = "CursorStream" /\ hstate = "Done"
        /\ UNCHANGED <<tokio, needs_recovery, transaction_status, noteVars, handleVars, wire, serverVars>>
    BY <1>3 DEF consume, RecoverJobs
  <2>2. Holds(j, handle, hstate) /\ j \in {"fetch", "close_cursor", "commit"}
    BY <2>1 DEF Holds, CopyEnds, Cursors
  <2> HIDE DEF j
  <2> QED BY <2>1, <2>2, StartHandleExchange
<1> QED BY <1>1, <1>2, <1>3

(* The calls that go on with an answer: RowStream::next, CopyIn::finish and  *)
(* cancel, CopyOut::read_next.                                               *)
LEMMA GoOnExchange ==
    ASSUME Exchange, next \/ finish \/ copy_cancel \/ read_next
    PROVE  Exchange'
<1>0. Typed /\ Control /\ Recovery /\ Protocol
  BY DEF Exchange
<1>1. /\ at = "rest" /\ UNCHANGED <<tokio, connVars, noteVars, handleVars, wire, serverVars>>
      /\ \/ /\ handle = "RowStream" /\ hstate \notin {"Done", "Error"}
            /\ job' = "next" /\ at' = "read"
         \/ handle = "CopyIn" /\ job' \in CopyEnds /\ at' = "send"
         \/ handle = "CopyOut" /\ hstate = "Active" /\ job' = "copy_read" /\ at' = "read"
  BY DEF next, finish, copy_cancel, read_next, StartCopyEnd, Suspend, CopyEnds
<1>2. UNCHANGED <<tokio, state, needs_recovery, transaction_status, notification_queue, delivered, held,
                  missed, handle, hstate, owns_transaction, wire, srv, stx, broken, notes>>
  BY <1>1 DEF connVars, noteVars, handleVars, serverVars
<1>3. Typed'
  BY <1>0, <1>2 DEF Typed
<1>4. Control'
  <2>1. Awaits(job, at)' /\ Holds(job, handle, hstate)'
    BY <1>0, <1>1, <1>2 DEF Control, Awaits, Holds, CopyEnds, HandleStates
  <2>2. job' \in Jobs /\ at' \in {"rest", "send", "read", "drain", "recover", "notification"}
    BY <1>1 DEF Jobs, CopyEnds
  <2> QED BY <1>0, <1>2, <2>1, <2>2 DEF Control
<1>5. ~needs_recovery
  BY <1>0, <1>1 DEF Recovery
<1>6. Protocol'
  <2> SUFFICES ASSUME ~broken PROVE Protocol'
    BY <1>2 DEF Protocol
  <2>0. Answer /\ Turn /\ Stops /\ Copying /\ Portal
    BY <1>0 DEF Protocol
  <2>1. /\ Answer' /\ (Owed' <=> Owed) /\ (\A P : In(P)' <=> In(P))
        /\ (EndToCome' <=> EndToCome) /\ (EmptyToCome' <=> EmptyToCome)
    BY <1>2, <2>0, StillOwed
  <2>2. Owed
    BY <1>1, <2>0 DEF Turn
  <2>3. state # "Idle"
    BY <1>1, <2>0, <2>2 DEF Turn
  <2>4. Turn'
    BY <1>1, <1>2, <1>5, <2>1, <2>2, <2>3 DEF Turn
  <2>5. Stops'
    BY <1>1, <1>2, <2>0, <2>1 DEF Stops, CopyEnds
  <2>6. Copying'
    BY <1>1, <1>2, <2>0, <2>1 DEF Copying, Reading
  <2>7. Portal'
    BY <1>1, <1>2, <2>0, <2>1 DEF Portal, Cursors, CopyEnds
  <2> QED BY <2>1, <2>4, <2>5, <2>6, <2>7 DEF Protocol
<1>7. Recovery'
  BY <1>0, <1>1, <1>2, <1>5 DEF Recovery
<1> QED BY <1>3, <1>4, <1>6, <1>7 DEF Exchange

-----------------------------------------------------------------------------
(* Handles are dropped, calls are given up.                                  *)

(* Drop of a handle.                                                         *)
LEMMA DropExchange ==
    ASSUME Careful, Exchange, DropHandle
    PROVE  Exchange'
<1>0. Typed /\ Control /\ Recovery /\ Protocol
  BY DEF Exchange
<1>1. /\ at = "rest" /\ handle # "none" /\ job = "none"
      /\ handle' = "none" /\ hstate' = "Done" /\ owns_transaction' = FALSE
      /\ needs_recovery' = (needs_recovery \/ Unfinished(handle, hstate))
      /\ state' = IF handle = "CopyIn" \/ (handle = "CopyOut" /\ hstate = "Active")
                  THEN "Closed" ELSE state
      /\ UNCHANGED <<tokio, transaction_status, notification_queue, delivered, held, missed, job, at,
                     wire, srv, stx, broken, notes>>
  BY <1>0 DEF DropHandle, Release, noteVars, callVars, serverVars, Control, Awaits
<1>2. Unfinished(handle, hstate) => handle = "RowStream" /\ hstate \notin {"Done", "Error"}
  <2>1. handle = "CursorStream" => hstate # "Active"
    BY DEF DropHandle, Careful
  <2>2. hstate # "Completing"
    BY <1>0, <1>1 DEF Control, Holds
  <2>3. handle = "CursorStream" => hstate \in {"Done", "Error"}
    BY <1>0, <2>1, <2>2 DEF Control, HandleStates
  <2> QED BY <2>3 DEF Unfinished
<1>3. needs_recovery' => handle = "RowStream" /\ hstate \notin {"Done", "Error"}
  <2>1. ~needs_recovery
    BY <1>0, <1>1 DEF Recovery
  <2> QED BY <1>1, <1>2, <2>1
<1>4. Typed'
  <2>1. needs_recovery' \in BOOLEAN
    BY <1>1, Zenon
  <2>2. state' \in ConnectionState
    BY <1>0, <1>1 DEF Typed, ConnectionState
  <2> QED BY <1>0, <1>1, <2>1, <2>2 DEF Typed
<1>5. Control'
  BY <1>0, <1>1 DEF Control, Awaits, Holds, HandleStates, CopyEnds
<1>6. Recovery'
  BY <1>0, <1>1, <1>3 DEF Recovery
<1>7. Protocol'
  <2> SUFFICES ASSUME ~broken PROVE Protocol'
    BY <1>1 DEF Protocol
  <2>0. Answer /\ Turn /\ Stops /\ Copying /\ Portal
    BY <1>0 DEF Protocol
  <2>1. Answer' /\ (Owed' <=> Owed) /\ (\A P : In(P)' <=> In(P))
    BY <1>1, <2>0, StillOwed
  <2>2. Turn'
    BY <1>1, <1>3, <2>0, <2>1 DEF Turn, Reading
  <2>3. Stops' /\ Portal'
    BY <1>1 DEF Stops, Portal, Cursors
  <2>4. Copying'
    BY <1>1, <1>3, <2>0, <2>1 DEF Copying, Reading
  <2> QED BY <2>1, <2>2, <2>3, <2>4 DEF Protocol
<1> QED BY <1>4, <1>5, <1>6, <1>7 DEF Exchange

(* What is left of a call that was given up.                                 *)
LEMMA AbandonParts ==
    ASSUME Exchange, at # "rest", Abandon
    PROVE  /\ job' = "none" /\ at' = "rest"
           /\ \/ /\ job \in Borrows /\ handle' = handle /\ UNCHANGED owns_transaction
                 /\ hstate' = IF hstate = "Completing" THEN "Active" ELSE hstate
              \/ /\ job \notin Borrows /\ handle' = "none" /\ hstate' = "Done"
                 /\ owns_transaction' = FALSE
           /\ needs_recovery' => \/ needs_recovery /\ at = "recover"
                                 \/ job \in {"begin", "commit"} /\ at \in {"read", "drain"}
           /\ needs_recovery' \in BOOLEAN
           /\ held' = 0 /\ missed' = (IF held = 0 THEN missed ELSE missed \cup {held})
           /\ missed' \in SUBSET (1 .. MaxNotes)
           /\ UNCHANGED <<tokio, transaction_status, notification_queue, delivered, wire, stx, broken,
                          notes>>
           /\ Control'
<1>0. Typed /\ Control /\ Recovery
  BY DEF Exchange
<1>1. /\ job' = "none" /\ at' = "rest"
      /\ \/ /\ job \in Borrows /\ handle' = handle /\ UNCHANGED owns_transaction
            /\ hstate' = IF hstate = "Completing" THEN "Active" ELSE hstate
         \/ /\ job \notin Borrows /\ handle' = "none" /\ hstate' = "Done"
            /\ owns_transaction' = FALSE
      /\ needs_recovery' = (\/ needs_recovery
                            \/ job \in {"begin", "commit"} /\ at \in {"read", "drain"})
      /\ held' = 0 /\ missed' = (IF held = 0 THEN missed ELSE missed \cup {held})
      /\ UNCHANGED <<tokio, transaction_status, notification_queue, delivered, wire, stx, broken, notes>>
  BY DEF Abandon, Return, Release
<1>2. needs_recovery' \in BOOLEAN
  BY <1>1, Zenon
<1>3. needs_recovery' => \/ needs_recovery /\ at = "recover"
                         \/ job \in {"begin", "commit"} /\ at \in {"read", "drain"}
  BY <1>0, <1>1 DEF Recovery
<1>4. missed' \in SUBSET (1 .. MaxNotes)
  <2>1. held # 0 => held \in 1 .. MaxNotes
    BY <1>0, BoundsAssumption DEF Typed
  <2> QED BY <1>0, <1>1, <2>1 DEF Typed
<1>5. Control'
  <2>1. CASE job \in Borrows
    <3>1. /\ handle' = handle /\ UNCHANGED owns_transaction
          /\ hstate' = IF hstate = "Completing" THEN "Active" ELSE hstate
      BY <1>1, <2>1
    <3>2. hstate' \in HandleStates(handle')
      BY <1>0, <3>1 DEF Control, HandleStates
    <3>3. hstate' # "Completing"
      BY <3>1
    <3>4. Awaits(job, at)' /\ Holds(job, handle, hstate)'
      BY <1>1, <3>3 DEF Awaits, Holds, CopyEnds
    <3> QED BY <1>0, <1>1, <3>1, <3>2, <3>4 DEF Control, Jobs
  <2>2. CASE job \notin Borrows
    BY <1>1, <2>2 DEF Control, Awaits, Holds, HandleStates, CopyEnds, Jobs
  <2> QED BY <2>1, <2>2
<1> QED BY <1>1, <1>2, <1>3, <1>4, <1>5

(* The caller gives up, or the transport has failed; nothing was sent.       *)
LEMMA AbandonExchange ==
    ASSUME Careful, Exchange, at # "rest", Abandon, UNCHANGED srv,
           \/ broken
           \/ ~(job = "next" /\ at = "drain"),
           state' \in ConnectionState,
           \/ state' = state \/ state' = "Closed"
           \/ broken /\ job \in {"query_params", "query_prepared"}
    PROVE  Exchange'
<1>0. Typed /\ Control /\ Recovery /\ Protocol
  BY DEF Exchange
<1>1. /\ job' = "none" /\ at' = "rest"
      /\ \/ /\ job \in Borrows /\ handle' = handle /\ UNCHANGED owns_transaction
            /\ hstate' = IF hstate = "Completing" THEN "Active" ELSE hstate
         \/ /\ job \notin Borrows /\ handle' = "none" /\ hstate' = "Done"
            /\ owns_transaction' = FALSE
      /\ needs_recovery' => \/ needs_recovery /\ at = "recover"
                            \/ job \in {"begin", "commit"} /\ at \in {"read", "drain"}
      /\ needs_recovery' \in BOOLEAN
      /\ held' = 0 /\ missed' \in SUBSET (1 .. MaxNotes)
      /\ UNCHANGED <<tokio, transaction_status, notification_queue, delivered, wire, stx, broken, notes>>
      /\ Control'
  BY AbandonParts
<1>2. Typed'
  <2>1. owns_transaction' \in BOOLEAN
    BY <1>0, <1>1 DEF Typed
  <2>2. held' \in 0 .. MaxNotes
    BY <1>1, BoundsAssumption
  <2> QED BY <1>0, <1>1, <2>1, <2>2 DEF Typed
<1>3. Recovery'
  <2>1. needs_recovery' => handle' = "none"
    BY <1>0, <1>1 DEF Control, Awaits, RecoverJobs, Borrows
  <2>2. needs_recovery' => state' # "Idle"
    BY <1>0, <1>1 DEF Recovery, Control, Awaits, RecoverJobs
  <2>3. /\ handle' = "RowStream" /\ hstate' \notin {"Done", "Error"} => state' # "Idle"
        /\ handle' = "CopyIn" \/ (handle' = "CopyOut" /\ hstate' = "Active") => state' # "Idle"
    <3>1. handle' # "none" => job \in Borrows /\ (state' = state \/ state' = "Closed")
      BY <1>1 DEF Borrows
    <3> QED BY <1>0, <1>1, <3>1 DEF Recovery, Control, Holds, Borrows
  <2> QED BY <1>1, <2>1, <2>2, <2>3 DEF Recovery
<1>4. Protocol'
  <2> SUFFICES ASSUME ~broken PROVE Protocol'
    BY <1>1 DEF Protocol
  <2>0. Answer /\ Turn /\ Stops /\ Copying /\ Portal
    BY <1>0 DEF Protocol
  <2>1. /\ Answer' /\ (Owed' <=> Owed) /\ (\A P : In(P)' <=> In(P))
        /\ (EndToCome' <=> EndToCome) /\ (EmptyToCome' <=> EmptyToCome)
    BY <1>1, <2>0, StillOwed
  <2>2. Turn'
    <3>1. state' = "Idle" => ~Owed
      BY <1>0, <2>0 DEF Turn, Recovery, Control
    <3>2. needs_recovery' => Owed
      BY <1>1, <2>0 DEF Turn, Reading
    <3>3. handle' = "RowStream" /\ hstate' \notin {"Done", "Error"} => Owed
      BY <1>1, <2>0 DEF Turn
    <3>4. handle' = "CopyIn" \/ (handle' = "CopyOut" /\ hstate' = "Active") => Owed
      BY <1>0, <1>1, <2>0 DEF Turn, Control, Holds, Borrows
    <3> QED BY <1>1, <2>1, <3>1, <3>2, <3>3, <3>4 DEF Turn, Reading
  <2>3. Stops'
    <3>1. handle' = "RowStream" => handle = "RowStream" /\ at # "drain" /\ hstate' = hstate
      BY <1>0, <1>1 DEF Control, Holds, Borrows
    <3> QED BY <1>1, <2>0, <2>1, <3>1 DEF Stops
  <2>4. Copying'
    BY <1>1, <2>0, <2>1 DEF Copying, Reading
  <2>5. Portal'
    <3>1. handle' \in Cursors => job = "fetch" /\ handle \in Cursors
      BY <1>0, <1>1 DEF Control, Holds, Borrows, Cursors
    <3>2. hstate' \in {"Active", "Completing"} /\ handle' \in Cursors => hstate \in {"Active", "Completing"}
      BY <1>1, <3>1
    <3> QED BY <1>1, <2>0, <2>1, <3>1, <3>2 DEF Portal
  <2> QED BY <2>1, <2>2, <2>3, <2>4, <2>5 DEF Protocol
<1> QED BY <1>1, <1>2, <1>3, <1>4 DEF Exchange

-----------------------------------------------------------------------------
(* Requests go out.                                                          *)

(* The phase in which each request begins.                                   *)
LEMMA RequestParts ==
    ASSUME Careful, NEW j \in Jobs \ {"none", "recover", "next", "copy_read"}, NEW p \in Requests(j)
    PROVE  /\ p \in Phases
           /\ p \in {"copy_in", "copying"} => j = "copy_in" /\ p = "copy_in"
           /\ p \in {"copy_done", "copy_fail"} <=> j \in CopyEnds
           /\ j \in {"query_stream", "query_prepared_stream"} => p \in {"query", "parse", "empty", "parse_empty"}
           /\ j = "query_params_stream" => p = "parse"
           /\ j \in {"copy_in", "copy_out"} => p \in {"copy_in", "copy_out", "empty"}
           /\ j = "begin" => p = "begin"
           /\ j = "fetch" => p = "fetch"
           /\ j \in {"open", "close_cursor"} => p = "ack"
<1>1. CASE j \in {"query_stream", "batch_execute"}
  BY <1>1 DEF Requests, Phases, CopyEnds
<1>2. CASE j \in {"copy_in", "copy_out"}
  BY <1>2 DEF Requests, Phases, CopyEnds
<1>3. CASE j \in {"query_prepared_stream", "query_params", "query_prepared"}
  BY <1>3 DEF Requests, Phases, CopyEnds
<1>4. CASE j = "query_params_stream"
  BY <1>4 DEF Requests, Phases, CopyEnds, Careful
<1>5. CASE j \in {"prepare", "close_statement", "open", "close_cursor"}
  BY <1>5 DEF Requests, Phases, CopyEnds
<1>6. CASE j \in {"pipeline", "wait_for_notification", "copy_finish", "copy_cancel"}
  BY <1>6 DEF Requests, Phases, CopyEnds
<1>7. CASE j \in {"begin", "commit", "fetch"}
  BY <1>7 DEF Requests, Phases, CopyEnds
<1> QED BY <1>1, <1>2, <1>3, <1>4, <1>5, <1>6, <1>7 DEF Jobs

(* A request reaches a server that has none, or ends the COPY under way.     *)
LEMMA ReceiveParts ==
    ASSUME Careful, Exchange, at = "send", ~broken, NEW p \in Requests(job), Receive(p),
           UNCHANGED <<wire, stx, transaction_status>>
    PROVE  /\ srv' = <<>> \/ \E x \in Phases : srv' = <<x>>
           /\ Answer'
           /\ job \notin CopyEnds => /\ ~Owed /\ Owed' /\ p \in Phases /\ (\A P : In(P)' <=> p \in P)
                                     /\ Only(wire', Async) /\ srv' # <<>>
           /\ job \in CopyEnds => (Owed /\ Owed') /\ ~In({"copy_in", "copying"})'
<1>0. Typed /\ Control /\ Answer /\ Turn /\ Copying
  BY DEF Exchange, Protocol
<1>1. job \in Jobs \ {"none", "recover", "next", "copy_read"}
  BY <1>0 DEF Control, Awaits
<1>2. p \in Phases /\ (p \in {"copy_done", "copy_fail"} <=> job \in CopyEnds)
  BY <1>1, RequestParts
<1>3. CASE job \notin CopyEnds
  <2>1. ~Owed /\ srv = <<>> /\ Only(wire, Async)
    BY <1>0, <1>3 DEF Turn, Owed, Answer
  <2>2. srv' = Append(<<>>, p)
    BY <1>2, <1>3, <2>1 DEF Receive
  <2>3. srv' = <<p>>
    BY <2>2
  <2>4. srv' # <<>> /\ \A P : In(P)' <=> p \in P
    BY <2>3 DEF In
  <2>5. Owed' /\ ~Has(wire', {"ReadyForQuery"})
    BY <2>1, <2>4 DEF Owed
  <2>6. Answer'
    BY <1>0, <2>5 DEF Answer
  <2> QED BY <1>2, <1>3, <2>1, <2>3, <2>4, <2>5, <2>6
<1>4. CASE job \in CopyEnds
  <2>0. handle = "CopyIn" /\ Owed
    BY <1>0, <1>4 DEF Control, Holds, Turn
  <2>1. CASE srv # <<>> /\ Head(srv) = "copying"
    <3>1. srv = <<"copying">>
      <4>1. PICK x \in Phases : srv = <<x>>
        BY <1>0, <2>1 DEF Typed
      <4> QED BY <2>1, <4>1
    <3>2. srv' = <<p>> \o <<>>
      BY <1>2, <1>4, <2>1, <3>1 DEF Receive
    <3>3. srv' = <<p>>
      <4>1. <<p>> \in Seq({p})
        OBVIOUS
      <4> QED BY <3>2, <4>1, ConcatEmptySeq
    <3>4. srv' # <<>> /\ ~In({"copy_in", "copying"})'
      BY <1>2, <1>4, <3>3 DEF In
    <3>5. Owed' /\ Answer'
      BY <1>0, <2>1, <3>4 DEF Owed, Answer
    <3> QED BY <1>2, <1>4, <2>0, <3>3, <3>4, <3>5
  <2>2. CASE ~(srv # <<>> /\ Head(srv) = "copying")
    <3>1. srv' = srv
      BY <1>2, <1>4, <2>2 DEF Receive
    <3>2. ~In({"copy_in", "copying"})'
      <4>1. ~In({"copying"})
        BY <2>2 DEF In
      <4>2. ~In({"copy_in"})
        <5>1. In({"copy_in"}) => In({"copy_in", "copying"})
          BY DEF In
        <5> QED BY <1>0, <2>0, <5>1 DEF Copying
      <4> QED BY <3>1, <4>1, <4>2 DEF In
    <3>3. Owed' /\ Answer'
      BY <1>0, <2>0, <3>1, StillOwed
    <3> QED BY <1>0, <1>4, <2>0, <3>1, <3>2, <3>3 DEF Typed
  <2> QED BY <2>1, <2>2
<1> QED BY <1>3, <1>4

(* The caller gives up while the request goes out.                           *)
LEMMA AbandonSendExchange ==
    ASSUME Careful, Exchange, at = "send", ~broken, Abandon, NEW p \in Requests(job), Receive(p),
           state' = IF job \in CopyEnds THEN "Closed" ELSE state
    PROVE  Exchange'
<1>0. Typed /\ Control /\ Recovery /\ Protocol /\ Answer /\ Turn /\ Stops /\ Copying /\ Portal
  BY DEF Exchange, Protocol
<1>1. /\ job' = "none" /\ at' = "rest"
      /\ \/ /\ job \in Borrows /\ handle' = handle /\ UNCHANGED owns_transaction
            /\ hstate' = IF hstate = "Completing" THEN "Active" ELSE hstate
         \/ /\ job \notin Borrows /\ handle' = "none" /\ hstate' = "Done"
            /\ owns_transaction' = FALSE
      /\ ~needs_recovery' /\ needs_recovery' \in BOOLEAN
      /\ held' = 0 /\ missed' \in SUBSET (1 .. MaxNotes)
      /\ UNCHANGED <<tokio, transaction_status, notification_queue, delivered, wire, stx, broken, notes>>
      /\ Control'
  BY AbandonParts
<1>2. /\ srv' = <<>> \/ \E x \in Phases : srv' = <<x>>
      /\ Answer'
      /\ job \notin CopyEnds => /\ ~Owed /\ Owed' /\ p \in Phases /\ (\A P : In(P)' <=> p \in P)
                                /\ Only(wire', Async) /\ srv' # <<>>
      /\ job \in CopyEnds => (Owed /\ Owed') /\ ~In({"copy_in", "copying"})'
  BY <1>1, ReceiveParts
<1>3. state # "Idle" /\ state' # "Idle" /\ state' \in ConnectionState
  BY <1>0 DEF Recovery, Typed, ConnectionState
<1>4. Typed'
  <2>1. owns_transaction' \in BOOLEAN
    BY <1>0, <1>1 DEF Typed
  <2>2. held' \in 0 .. MaxNotes
    BY <1>1, BoundsAssumption
  <2> QED BY <1>0, <1>1, <1>2, <1>3, <2>1, <2>2 DEF Typed
<1>5. Recovery'
  BY <1>1, <1>3 DEF Recovery
<1>6. handle' # "none" => job = "fetch" /\ handle \in Cursors /\ handle' = handle
                          /\ (hstate' = "Active" => hstate \in {"Active", "Completing"})
                          /\ hstate' # "Completing"
  BY <1>0, <1>1 DEF Control, Awaits, Holds, Borrows, Cursors
<1>7. Turn'
  BY <1>1, <1>3, <1>6 DEF Turn, Reading, Cursors
<1>8. Stops'
  BY <1>1, <1>6 DEF Stops, Cursors
<1>j. job \in Jobs \ {"none", "recover", "next", "copy_read"}
  BY <1>0 DEF Control, Awaits
<1>9. Copying'
  <2> SUFFICES ASSUME In({"copy_in", "copying"})' PROVE handle' = "none"
    BY <1>1 DEF Copying, Reading
  <2>1. job \notin CopyEnds /\ p \in {"copy_in", "copying"}
    BY <1>2
  <2>2. job = "copy_in"
    BY <1>j, <2>1, RequestParts
  <2> QED BY <1>6, <2>2
<1>10. Portal'
  <2> SUFFICES ASSUME handle' \in Cursors
               PROVE  /\ In({"ack", "ack_end", "fetch", "fetched", "ready"})'
                      /\ hstate' = "Active" => stx' # "Idle"
    BY <1>1, <1>6 DEF Portal
  <2>1. job = "fetch"
    BY <1>6 DEF Cursors
  <2>2. p = "fetch"
    BY <1>j, <2>1, RequestParts
  <2> QED BY <1>0, <1>1, <1>2, <1>6, <2>1, <2>2 DEF Portal, CopyEnds, Cursors
<1> QED BY <1>1, <1>2, <1>4, <1>5, <1>7, <1>8, <1>9, <1>10 DEF Exchange, Protocol

(* Cancel and IoError.                                                       *)
LEMMA CancelExchange ==
    ASSUME Careful, Exchange, Cancel
    PROVE  Exchange'
<1>1. at # "rest" /\ Abandon /\ ~(job = "next" /\ at = "drain")
      /\ state' = IF job \in CopyEnds THEN "Closed" ELSE state
  BY DEF Cancel, Careful, CopyEnds
<1>2. CASE UNCHANGED srv
  <2>1. state' \in ConnectionState /\ (state' = state \/ state' = "Closed")
    BY <1>1 DEF Exchange, Typed, ConnectionState
  <2> QED BY <1>1, <1>2, <2>1, AbandonExchange
<1>3. CASE at = "send" /\ ~broken /\ \E phase \in Requests(job) : Receive(phase)
  BY <1>1, <1>3, AbandonSendExchange
<1> QED BY <1>2, <1>3 DEF Cancel

(* The transport has failed under the call.                                  *)
LEMMA IoErrorExchange ==
    ASSUME Careful, Exchange, IoError
    PROVE  Exchange'
<1>1. broken /\ at # "rest" /\ Abandon /\ UNCHANGED srv
  BY DEF IoError
<1>2. /\ state' = state \/ state' = "Closed" \/ job \in {"query_params", "query_prepared"}
      /\ state' \in ConnectionState
  BY DEF IoError, Exchange, Typed, ConnectionState
<1> QED BY <1>1, <1>2, AbandonExchange

(* The request has gone out, and its answer is awaited.                      *)
LEMMA SentExchange ==
    ASSUME Careful, Exchange, Sent
    PROVE  Exchange'
<1>0. /\ at = "send" /\ ~broken /\ Typed /\ Control /\ Recovery
      /\ Answer /\ Turn /\ Stops /\ Copying /\ Portal
  BY DEF Sent, Exchange, Protocol
<1>1. PICK p \in Requests(job) : Receive(p)
  BY DEF Sent
<1>2. /\ \/ /\ job \in {"query_stream", "query_prepared_stream"}
            /\ job' = "none" /\ at' = "rest" /\ handle' = "RowStream"
            /\ hstate' = "WaitingForDescription" /\ UNCHANGED owns_transaction
         \/ /\ job \notin {"query_stream", "query_prepared_stream"} /\ job' = job
            /\ at' = (IF job = "copy_cancel" THEN "drain" ELSE "read")
            /\ UNCHANGED <<handle, hstate, owns_transaction>>
      /\ UNCHANGED <<tokio, state, needs_recovery, transaction_status, notification_queue, delivered,
                     held, missed, wire, stx, broken, notes>>
  BY DEF Sent, Return, Suspend, handleVars, connVars, noteVars
<1>3. /\ srv' = <<>> \/ \E x \in Phases : srv' = <<x>>
      /\ Answer'
      /\ job \notin CopyEnds => /\ ~Owed /\ Owed' /\ p \in Phases /\ (\A P : In(P)' <=> p \in P)
                                /\ Only(wire', Async) /\ srv' # <<>>
      /\ job \in CopyEnds => (Owed /\ Owed') /\ ~In({"copy_in", "copying"})'
  BY <1>0, <1>1, <1>2, ReceiveParts
<1>4. job \in Jobs \ {"none", "recover", "next", "copy_read"}
  BY <1>0 DEF Control, Awaits
<1>5. state # "Idle" /\ ~needs_recovery
  BY <1>0 DEF Recovery
<1>6. Typed'
  BY <1>0, <1>2, <1>3 DEF Typed
<1>7. Control'
  <2>1. CASE job \in {"query_stream", "query_prepared_stream"}
    <3>1. handle = "none" /\ ~owns_transaction
      BY <1>0, <2>1 DEF Control, Holds, CopyEnds, Cursors
    <3> QED BY <1>2, <2>1, <3>1 DEF Control, Awaits, Holds, HandleStates, Jobs, CopyEnds
  <2>2. CASE job \notin {"query_stream", "query_prepared_stream"}
    <3>1. Awaits(job, at)'
      BY <1>2, <1>4, <2>2 DEF Awaits, RecoverJobs
    <3> QED BY <1>0, <1>2, <2>2, <3>1 DEF Control
  <2> QED BY <2>1, <2>2
<1>8. Recovery'
  BY <1>2, <1>5 DEF Recovery
<1>9. Turn'
  BY <1>2, <1>3, <1>5 DEF Turn, Reading
<1>10. Stops'
  <2>1. CASE job \in {"query_stream", "query_prepared_stream"}
    <3>1. p \in {"query", "parse", "empty", "parse_empty"} /\ job \notin CopyEnds
      BY <1>4, <2>1, RequestParts DEF CopyEnds
    <3>2. p \in {"query", "parse"} => EndToCome'
      BY <1>3, <3>1 DEF EndToCome, ToCome, EndPhases
    <3>3. p \in {"empty", "parse_empty"} => EmptyToCome'
      <4>1. ~Has(wire', {"RowDescription"})
        BY <1>3, <3>1 DEF Has, Only, Async
      <4> QED BY <1>3, <3>1, <4>1 DEF EmptyToCome, ToCome
    <3> QED BY <1>2, <2>1, <3>1, <3>2, <3>3 DEF Stops
  <2>2. CASE job = "query_params_stream"
    <3>1. p = "parse" /\ job \notin CopyEnds
      BY <1>4, <2>2, RequestParts DEF CopyEnds
    <3>2. EndToCome' /\ ComesNext(Described, {"parse", "describe"})'
      BY <1>3, <3>1 DEF EndToCome, ToCome, EndPhases, ComesNext
    <3>3. handle' = "none"
      BY <1>0, <1>2, <2>2 DEF Control, Holds, CopyEnds
    <3> QED BY <1>2, <2>2, <3>2, <3>3 DEF Stops
  <2>3. CASE job \in {"copy_in", "copy_out"}
    <3>1. p \in {"copy_in", "copy_out", "empty"} /\ job \notin CopyEnds
      BY <1>4, <2>3, RequestParts DEF CopyEnds
    <3>2. ComesNext(CopyAnswers, {"copy_in", "copy_out", "empty"})'
      BY <1>3, <3>1 DEF ComesNext
    <3>3. handle' = "none"
      BY <1>0, <1>2, <2>3 DEF Control, Holds, CopyEnds
    <3> QED BY <1>2, <2>3, <3>2, <3>3 DEF Stops
  <2>4. CASE job \notin {"query_stream", "query_prepared_stream", "query_params_stream", "copy_in",
                         "copy_out"}
    <3>1. handle # "RowStream"
      BY <1>0, <1>4 DEF Control, Holds, Cursors
    <3> QED BY <1>2, <2>4, <3>1 DEF Stops
  <2> QED BY <2>1, <2>2, <2>3, <2>4
<1>11. Copying'
  <2> SUFFICES ASSUME In({"copy_in", "copying"})'
               PROVE  /\ handle' = "none" /\ ~needs_recovery'
                      /\ Reading' => job' = "copy_in" /\ at' = "read"
                                     /\ ComesNext({"CopyInResponse"}, {"copy_in"})' /\ Only(wire', Async)
    BY DEF Copying
  <2>1. job \notin CopyEnds /\ p \in {"copy_in", "copying"}
    BY <1>3
  <2>2. job = "copy_in" /\ p = "copy_in"
    BY <1>4, <2>1, RequestParts
  <2>3. handle = "none"
    BY <1>0, <2>2 DEF Control, Holds, CopyEnds
  <2>4. ComesNext({"CopyInResponse"}, {"copy_in"})' /\ Only(wire', Async)
    BY <1>3, <2>1, <2>2 DEF ComesNext
  <2> QED BY <1>2, <1>5, <2>2, <2>3, <2>4
<1>12. Portal'
  <2>1. CASE job = "begin"
    <3>1. p = "begin" /\ job \notin CopyEnds
      BY <1>4, <2>1, RequestParts DEF CopyEnds
    <3>2. ToCome({"ErrorResponse"}, {"begin"})' /\ In({"begin", "ready"})'
      BY <1>3, <3>1 DEF ToCome
    <3> QED BY <1>2, <2>1, <3>2 DEF Portal
  <2>2. CASE job = "commit"
    BY <1>2, <2>2 DEF Portal
  <2>3. CASE job \notin {"begin", "commit"} /\ handle' \in Cursors
    <3>1. job \in {"fetch", "open", "close_cursor"} /\ job' = job /\ UNCHANGED <<handle, hstate>>
      BY <1>0, <1>2, <1>4, <2>3 DEF Control, Holds, Cursors, CopyEnds
    <3>2. p \in {"fetch", "ack"} /\ job \notin CopyEnds
      BY <1>4, <3>1, RequestParts DEF CopyEnds
    <3> QED BY <1>0, <1>2, <1>3, <2>3, <3>1, <3>2 DEF Portal
  <2>4. CASE job \notin {"begin", "commit"} /\ handle' \notin Cursors
    BY <1>2, <2>4 DEF Portal
  <2> QED BY <2>1, <2>2, <2>3, <2>4
<1> QED BY <1>3, <1>6, <1>7, <1>8, <1>9, <1>10, <1>11, <1>12 DEF Exchange, Protocol

-----------------------------------------------------------------------------
(* The other steps that read nothing.                                        *)

(* Control and Recovery are about the client only.                           *)
LEMMA ClientSame ==
    ASSUME Control, Recovery, UNCHANGED <<connVars, callVars, handleVars>>
    PROVE  Control' /\ Recovery'
<1>1. UNCHANGED <<state, needs_recovery, job, at, handle, hstate, owns_transaction>>
  BY DEF connVars, callVars, handleVars
<1> QED BY <1>1 DEF Control, Recovery

(* The future of a stream's next() is dropped with the stream.               *)
LEMMA CancelNextDrainExchange ==
    ASSUME Exchange, CancelNextDrain
    PROVE  Exchange'
<1>0. Typed /\ Control /\ Recovery /\ Protocol
  BY DEF Exchange
<1>1. /\ job = "next" /\ at = "drain" /\ job' = "none" /\ at' = "rest"
      /\ handle' = "none" /\ hstate' = "Done" /\ owns_transaction' = FALSE /\ needs_recovery' = TRUE
      /\ UNCHANGED <<tokio, state, transaction_status, notification_queue, delivered, held, missed,
                     wire, srv, stx, broken, notes>>
  BY DEF CancelNextDrain, Return, Release, noteVars, serverVars
<1>2. handle = "RowStream" /\ hstate \notin {"Done", "Error"} /\ state # "Idle"
  BY <1>0, <1>1 DEF Control, Holds, Recovery
<1>3. Typed'
  BY <1>0, <1>1 DEF Typed
<1>4. Control' /\ Recovery'
  BY <1>1, <1>2 DEF Control, Awaits, Holds, HandleStates, Jobs, CopyEnds, Recovery
<1>5. Protocol'
  <2> SUFFICES ASSUME ~broken PROVE Protocol'
    BY <1>1 DEF Protocol
  <2>0. Answer /\ Turn /\ Copying
    BY <1>0 DEF Protocol
  <2>1. Answer' /\ (Owed' <=> Owed) /\ (\A P : In(P)' <=> In(P))
    BY <1>1, <2>0, StillOwed
  <2>2. Owed /\ ~In({"copy_in", "copying"})
    BY <1>2, <2>0 DEF Turn, Copying
  <2>3. Turn' /\ Stops' /\ Copying' /\ Portal'
    BY <1>1, <1>2, <2>1, <2>2 DEF Turn, Stops, Copying, Portal, Reading, Cursors
  <2> QED BY <2>1, <2>3 DEF Protocol
<1> QED BY <1>3, <1>4, <1>5 DEF Exchange

(* The transport is gone.                                                    *)
LEMMA DisconnectType ==
    ASSUME Typed, Disconnect
    PROVE  broken' = TRUE /\ srv' = <<>> /\ wire' \in Seq(Message) /\ Len(wire') <= MaxWire
           /\ UNCHANGED <<stx, notes>>
<1>1. PICK n \in 0 .. Len(wire) : wire' = SubSeq(wire, 1, n)
  BY DEF Disconnect
<1>2. wire \in Seq(Message) /\ Len(wire) <= MaxWire /\ Len(wire) \in Nat /\ DOMAIN wire = 1 .. Len(wire)
  BY LenProperties DEF Typed
<1>3. \A i \in 1 .. n : wire[i] \in Message
  BY <1>2, ElementOfSeq
<1>4. wire' \in Seq(Message) /\ Len(wire') = IF 1 <= n THEN n - 1 + 1 ELSE 0
  BY <1>1, <1>2, <1>3, SubSeqProperties
<1>5. Len(wire') <= MaxWire
  BY <1>2, <1>4, BoundsAssumption
<1> QED BY <1>4, <1>5 DEF Disconnect

(* The transport fails, or the client closes it.                             *)
LEMMA GoneExchange ==
    ASSUME Exchange, TransportFails \/ Close
    PROVE  Exchange'
<1>0. Typed /\ Control /\ Recovery
  BY DEF Exchange
<1>1. broken' = TRUE /\ srv' = <<>> /\ wire' \in Seq(Message) /\ Len(wire') <= MaxWire
      /\ UNCHANGED <<stx, notes>>
  BY <1>0, DisconnectType DEF TransportFails, Close
<1>2. UNCHANGED <<tokio, needs_recovery, transaction_status, noteVars, callVars, handleVars>>
      /\ (state' = state \/ (state' \in {"Closing", "Closed"} /\ Free))
  BY DEF TransportFails, Close, connVars
<1>3. Typed'
  BY <1>0, <1>1, <1>2 DEF Typed, ConnectionState, noteVars, handleVars
<1>4. Control'
  BY <1>0, <1>2 DEF Control, callVars, handleVars
<1>5. Recovery'
  BY <1>0, <1>2 DEF Recovery, callVars, handleVars
<1> QED BY <1>1, <1>3, <1>4, <1>5 DEF Exchange, Protocol

(* The server's steps.                                                       *)
LEMMA ServerExchange ==
    ASSUME Exchange, ServerSend \/ ServerNotifies \/ ServerNotices
    PROVE  Exchange'
<1>0. Typed /\ Control /\ Recovery /\ Protocol /\ wire \in Seq(Message)
  BY DEF Exchange, Typed
<1>1. UNCHANGED <<tokio, connVars, noteVars, callVars, handleVars, broken>>
  BY DEF ServerSend, ServerNotifies, ServerNotices, serverVars
<1>2. Control' /\ Recovery'
  BY <1>0, <1>1, ClientSame
<1>t. ASSUME wire' \in Seq(Message), Len(wire') <= MaxWire, stx' \in TransactionStatus,
             srv' = <<>> \/ \E x \in Phases : srv' = <<x>>, notes' \in 0 .. MaxNotes
      PROVE  Typed'
  BY <1>0, <1>1, <1>t DEF Typed, connVars, noteVars, handleVars
<1>3. CASE ServerSend
  <2>1. PICK p \in Phases : \E s \in Say(p) :
          /\ srv' = IF s[2] = "idle" THEN <<>> ELSE <<s[2]>>
          /\ Msg(s[1], stx', 0) \in Message /\ wire' = Append(wire, Msg(s[1], stx', 0))
          /\ stx' \in TransactionStatus
          /\ Len(wire) < MaxWire
    BY <1>0, <1>3, SendParts
  <2>2. PICK s \in Say(p) :
          /\ srv' = IF s[2] = "idle" THEN <<>> ELSE <<s[2]>>
          /\ Msg(s[1], stx', 0) \in Message /\ wire' = Append(wire, Msg(s[1], stx', 0))
          /\ stx' \in TransactionStatus
          /\ Len(wire) < MaxWire
    BY <2>1
  <2>3. s[2] \in Phases \cup {"idle"}
    BY SayType
  <2>4. wire' \in Seq(Message) /\ Len(wire) \in Nat /\ Len(wire') = Len(wire) + 1
    BY <1>0, <2>2, AppendParts
  <2>5. Len(wire') <= MaxWire
    BY <2>2, <2>4, BoundsAssumption
  <2>6. notes' \in 0 .. MaxNotes
    BY <1>0, <1>3 DEF ServerSend, Typed
  <2>7. Typed'
    BY <1>t, <2>2, <2>3, <2>4, <2>5, <2>6
  <2> QED BY <1>0, <1>2, <1>3, <2>7, SendProtocol DEF Exchange
<1>4. CASE ServerNotifies
  <2> DEFINE m == Msg("NotificationResponse", "Idle", notes')
  <2>1. notes' = notes + 1 /\ notes < MaxNotes /\ Len(wire) < MaxWire /\ wire' = Append(wire, m)
        /\ UNCHANGED <<srv, stx>>
    BY <1>4 DEF ServerNotifies
  <2>2. notes' \in 0 .. MaxNotes /\ notes' # 0
    BY <1>0, <2>1, BoundsAssumption DEF Typed
  <2>3. m \in Message /\ m.kind \in Async
    BY <2>2 DEF Msg, Message, Kinds, TransactionStatus, Async
  <2> HIDE DEF m
  <2>4. wire' \in Seq(Message) /\ Len(wire) \in Nat /\ Len(wire') = Len(wire) + 1
    BY <1>0, <2>1, <2>3, AppendParts
  <2>5. Len(wire') <= MaxWire
    BY <2>1, <2>4, BoundsAssumption
  <2>6. Typed'
    BY <1>0, <1>t, <2>1, <2>2, <2>4, <2>5 DEF Typed
  <2>7. UNCHANGED <<clientVars, srv, stx, broken>>
    BY <1>1, <2>1 DEF clientVars
  <2> QED BY <1>0, <1>2, <2>1, <2>3, <2>6, <2>7, AsyncProtocol DEF Exchange
<1>5. CASE ServerNotices
  <2> DEFINE m == Msg("Ack", "Idle", 0)
  <2>1. wire = <<>> /\ wire' = <<m>> /\ UNCHANGED <<srv, stx, notes>>
    BY <1>5 DEF ServerNotices, serverVars
  <2>2. m \in Message /\ m.kind \in Async
    BY BoundsAssumption DEF Msg, Message, Kinds, TransactionStatus, Async
  <2> HIDE DEF m
  <2>3. wire' = Append(wire, m)
    BY <2>1
  <2>4. wire' \in Seq(Message) /\ Len(wire') = 1
    BY <2>1, <2>2
  <2>5. Len(wire') <= MaxWire
    BY <2>4, BoundsAssumption
  <2>6. Typed'
    BY <1>0, <1>t, <2>1, <2>4, <2>5 DEF Typed
  <2>7. UNCHANGED <<clientVars, srv, stx, broken>>
    BY <1>1, <2>1 DEF clientVars
  <2> QED BY <1>0, <1>2, <2>2, <2>3, <2>6, <2>7, AsyncProtocol DEF Exchange
<1> QED BY <1>3, <1>4, <1>5

-----------------------------------------------------------------------------
(* Reads, call by call.                                                      *)

(* The message read.                                                         *)
LEMMA ReadParts ==
    ASSUME Typed, NEW kinds, Read(kinds)
    PROVE  /\ wire # <<>> /\ Head(wire).kind \in kinds /\ wire' = Tail(wire)
           /\ UNCHANGED <<tokio, serverVars, srv, stx, broken, notes>>
           /\ wire' \in Seq(Message) /\ Len(wire') <= MaxWire
           /\ Head(wire).status \in TransactionStatus
           /\ Head(wire).kind = "NotificationResponse" => Head(wire).note \in 1 .. MaxNotes
<1>1. /\ wire # <<>> /\ Head(wire).kind \in kinds /\ wire' = Tail(wire)
      /\ UNCHANGED <<tokio, serverVars, srv, stx, broken, notes>>
  BY DEF Read, serverVars
<1>2. wire \in Seq(Message) /\ Len(wire) <= MaxWire
  BY DEF Typed
<1>3. Head(wire) \in Message /\ Tail(wire) \in Seq(Message) /\ Len(wire) \in Nat
      /\ Len(Tail(wire)) = Len(wire) - 1
  BY <1>1, <1>2, TailParts
<1>4. Len(wire') <= MaxWire
  BY <1>1, <1>2, <1>3, BoundsAssumption
<1>5. Head(wire).status \in TransactionStatus
  BY <1>3 DEF Message
<1>6. Head(wire).kind = "NotificationResponse" => Head(wire).note \in 1 .. MaxNotes
  <2>1. Head(wire).note \in 0 .. MaxNotes /\ (Head(wire).kind = "NotificationResponse" => Head(wire).note # 0)
    BY <1>3 DEF Message
  <2> QED BY <2>1, BoundsAssumption
<1> QED BY <1>1, <1>3, <1>4, <1>5, <1>6

(* Types after a read that leaves the notifications alone.                   *)
LEMMA ReadTyped ==
    ASSUME Typed, NEW kinds, Read(kinds), UNCHANGED noteVars,
           state' \in ConnectionState, needs_recovery' \in BOOLEAN, owns_transaction' \in BOOLEAN,
           transaction_status' \in TransactionStatus
    PROVE  Typed'
<1>1. /\ UNCHANGED <<tokio, serverVars, srv, stx, broken, notes>>
      /\ wire' \in Seq(Message) /\ Len(wire') <= MaxWire
  BY ReadParts
<1>2. UNCHANGED <<notification_queue, delivered, held, missed>>
  BY DEF noteVars
<1> QED BY <1>1, <1>2 DEF Typed

(* What a loop heeds includes what ends it.                                  *)
LEMMA HeedsParts ==
    ASSUME Reading
    PROVE  /\ "NotificationResponse" \notin Heeds
           /\ at \in {"drain", "recover"} => Heeds = {"ReadyForQuery"}
           /\ at = "read" /\ job = "next" /\ hstate = "WaitingForDescription" =>
                Ends \cup {"EmptyQueryResponse"} \subseteq Heeds
           /\ at = "read" /\ job = "next" /\ hstate = "ReceivingRows" => Ends \subseteq Heeds
           /\ at = "read" /\ job = "query_params_stream" =>
                Heeds = {"RowDescription", "NoData", "CommandComplete", "EmptyQueryResponse",
                         "ReadyForQuery", "ErrorResponse"}
           /\ at = "read" /\ job \in {"copy_in", "copy_out"} => Heeds = CopyAnswers
           /\ at = "read" /\ job = "begin" => Heeds = {"ReadyForQuery", "ErrorResponse"}
           /\ \/ job \in {"copy_in", "copy_out"} /\ at = "read"
              \/ job = "next" /\ hstate \in {"WaitingForDescription", "ReceivingRows"} /\ at = "read"
              \/ "ReadyForQuery" \in Heeds
<1>1. CASE at \in {"drain", "recover"}
  <2>1. Heeds = {"ReadyForQuery"} /\ at # "read"
    BY <1>1 DEF Heeds
  <2> QED BY <2>1
<1>2. CASE at = "read"
  <2>0. at \notin {"drain", "recover"}
    BY <1>2
  <2>1. CASE job = "next" /\ hstate = "WaitingForDescription"
    <3>1. Heeds = {"RowDescription", "CommandComplete", "EmptyQueryResponse", "ErrorResponse"}
      BY <2>0, <2>1 DEF Heeds
    <3> QED BY <1>2, <2>0, <2>1, <3>1 DEF Ends
  <2>2. CASE job = "next" /\ hstate = "ReceivingRows"
    <3>1. Heeds = {"DataRow", "CommandComplete", "ErrorResponse"}
      BY <2>0, <2>2 DEF Heeds
    <3> QED BY <1>2, <2>0, <2>2, <3>1 DEF Ends
  <2>3. CASE job = "next" /\ hstate \notin {"WaitingForDescription", "ReceivingRows"}
    BY <2>0, <2>3 DEF Heeds
  <2>4. CASE job = "query_params_stream"
    BY <2>0, <2>4 DEF Heeds
  <2>5. CASE job \in {"copy_in", "copy_out"}
    <3>1. Heeds = CopyAnswers
      BY <2>0, <2>5 DEF Heeds, CopyAnswers
    <3> QED BY <1>2, <2>0, <2>5, <3>1 DEF CopyAnswers
  <2>6. CASE job \in {"copy_read", "fetch", "wait_for_notification"}
    BY <2>0, <2>6 DEF Heeds
  <2>7. CASE job \notin {"next", "query_params_stream", "copy_in", "copy_out", "copy_read", "fetch",
                         "wait_for_notification"}
    <3>1. Heeds = {"ReadyForQuery", "ErrorResponse"}
      BY <2>0, <2>7 DEF Heeds
    <3> QED BY <2>0, <2>7, <3>1
  <2> QED BY <2>1, <2>2, <2>3, <2>4, <2>5, <2>6, <2>7
<1> QED BY <1>1, <1>2 DEF Reading

(* What a stream waits for comes before ReadyForQuery.                       *)
LEMMA EndsFirst ==
    ASSUME Typed, Answer, wire # <<>>, EndToCome \/ EmptyToCome
    PROVE  Head(wire).kind # "ReadyForQuery"
<1> SUFFICES ASSUME Head(wire).kind = "ReadyForQuery" PROVE FALSE
  OBVIOUS
<1>0. wire \in Seq(Message)
  BY DEF Typed
<1>1. 1 \in DOMAIN wire /\ wire[1] = Head(wire) /\ \A i \in DOMAIN wire : i = 1 \/ i > 1
  BY <1>0, TailParts
<1>2. Has(wire, {"ReadyForQuery"})
  BY <1>1 DEF Has
<1>3. srv = <<>> /\ \A i \in DOMAIN wire : wire[i].kind \in Async \cup {"ReadyForQuery"}
  BY <1>1, <1>2 DEF Answer
<1>4. ~Has(wire, Ends) /\ ~Has(wire, {"EmptyQueryResponse"})
  BY <1>3 DEF Has, Async, Ends
<1> QED BY <1>3, <1>4 DEF EndToCome, EmptyToCome, ToCome, In

(* A message that the loop does not heed changes nothing.                    *)
LEMMA SkipExchange ==
    ASSUME Exchange, Reading, wire # <<>>, Head(wire).kind \notin Heeds, wire' = Tail(wire),
           UNCHANGED <<serverVars, connVars, callVars, handleVars>>, Typed'
    PROVE  Exchange'
<1>0. Typed /\ Control /\ Recovery /\ Protocol
  BY DEF Exchange
<1>1. UNCHANGED <<state, needs_recovery, transaction_status, job, at, handle, hstate, owns_transaction,
                  srv, stx, broken>>
  BY DEF connVars, callVars, handleVars, serverVars
<1>2. Control' /\ Recovery'
  BY <1>0, ClientSame
<1> SUFFICES ASSUME ~broken PROVE Protocol'
  BY <1>1, <1>2 DEF Exchange, Protocol
<1>3. Answer /\ Turn /\ Stops /\ Copying /\ Portal
  BY <1>0 DEF Protocol
<1> DEFINE k == Head(wire).kind
<1>h. k \notin Heeds
  OBVIOUS
<1> HIDE DEF k
<1>r. ASSUME NEW K, NEW P
      PROVE  /\ In(P)' <=> In(P)
             /\ ~Has(wire, K) => ~Has(wire', K) /\ k \notin K
             /\ ToCome(K, P) /\ k \notin K => ToCome(K, P)'
             /\ ComesNext(K, P) /\ k \notin K => ComesNext(K, P)' /\ k \in Async
  BY <1>0, <1>1, ReadComes DEF k
<1>n. handle = "RowStream" => job = "next"
  BY <1>0 DEF Control, Holds, Awaits, Reading, Cursors, CopyEnds
<1>4. k # "ReadyForQuery"
  <2>1. CASE job \in {"copy_in", "copy_out"} /\ at = "read"
    <3>1. Heeds = CopyAnswers /\ ComesNext(CopyAnswers, {"copy_in", "copy_out", "empty"})
      BY <1>3, <2>1, HeedsParts DEF Stops
    <3> QED BY <1>h, <1>r, <3>1 DEF Async
  <2>2. CASE job = "next" /\ hstate \in {"WaitingForDescription", "ReceivingRows"} /\ at = "read"
    <3>1. handle = "RowStream"
      BY <1>0, <2>2 DEF Control, Holds
    <3>2. EndToCome \/ EmptyToCome
      BY <1>3, <2>2, <3>1 DEF Stops
    <3> QED BY <1>0, <1>3, <3>2, EndsFirst DEF k
  <2> QED BY <1>h, <2>1, <2>2, HeedsParts
<1>5. Answer' /\ (Owed' <=> Owed)
  BY <1>0, <1>1, <1>3, <1>4, ReadAnswer DEF k
<1>6. Turn'
  BY <1>1, <1>3, <1>5 DEF Turn, Reading
<1>7. Stops'
  <2>1. k \notin Ends /\ EndToCome => EndToCome'
    BY <1>r DEF EndToCome
  <2>2. k # "EmptyQueryResponse" /\ EmptyToCome => EmptyToCome'
    BY <1>1, <1>r DEF EmptyToCome
  <2>3. ASSUME handle = "RowStream", at # "drain"
        PROVE  /\ hstate = "WaitingForDescription" => EndToCome' \/ EmptyToCome'
               /\ hstate = "ReceivingRows" => EndToCome'
    <3>1. job = "next" /\ at = "read"
      BY <1>0, <1>n, <2>3 DEF Control, Awaits, RecoverJobs, Reading
    <3>2. ASSUME hstate = "WaitingForDescription" PROVE EndToCome' \/ EmptyToCome'
      <4>1. k \notin Ends /\ k # "EmptyQueryResponse"
        BY <1>h, <3>1, <3>2, HeedsParts
      <4> QED BY <1>3, <2>1, <2>2, <2>3, <3>2, <4>1 DEF Stops
    <3>3. ASSUME hstate = "ReceivingRows" PROVE EndToCome'
      <4>1. k \notin Ends
        BY <1>h, <3>1, <3>3, HeedsParts
      <4> QED BY <1>3, <2>1, <2>3, <3>3, <4>1 DEF Stops
    <3> QED BY <3>2, <3>3
  <2>4. ASSUME job = "query_params_stream", at = "read"
        PROVE  EndToCome' /\ ComesNext(Described, {"parse", "describe"})'
    <3>1. k \notin Ends /\ k \notin Described
      BY <1>h, <2>4, HeedsParts DEF Ends, Described
    <3>2. EndToCome /\ ComesNext(Described, {"parse", "describe"})
      BY <1>3, <2>4 DEF Stops
    <3> QED BY <1>r, <2>1, <3>1, <3>2
  <2>5. ASSUME job \in {"copy_in", "copy_out"}, at = "read"
        PROVE  ComesNext(CopyAnswers, {"copy_in", "copy_out", "empty"})'
    <3>1. k \notin CopyAnswers
      BY <1>h, <2>5, HeedsParts
    <3> QED BY <1>3, <1>r, <2>5, <3>1 DEF Stops
  <2> QED BY <1>1, <2>3, <2>4, <2>5 DEF Stops
<1>8. Copying'
  <2> SUFFICES ASSUME In({"copy_in", "copying"}) PROVE Copying'
    BY <1>r DEF Copying
  <2>1. /\ handle \in {"none", "CopyIn"} /\ ~needs_recovery /\ job = "copy_in" /\ at = "read"
        /\ ComesNext({"CopyInResponse"}, {"copy_in"})
        /\ In({"copy_in"}) => handle = "none" /\ Only(wire, Async)
    BY <1>3 DEF Copying
  <2>2. k \notin {"CopyInResponse"}
    BY <1>h, <2>1, HeedsParts DEF CopyAnswers
  <2>3. ComesNext({"CopyInResponse"}, {"copy_in"})'
    BY <1>r, <2>1, <2>2
  <2>4. Only(wire, Async) => Only(wire', Async)
    BY <1>0, ReadKinds DEF Typed
  <2> QED BY <1>1, <1>r, <2>1, <2>3, <2>4 DEF Copying, Reading
<1>9. Portal'
  <2>1. ASSUME job = "begin", at = "read"
        PROVE  ToCome({"ErrorResponse"}, {"begin"})' \/ stx' # "Idle"
    <3>1. k # "ErrorResponse"
      BY <1>h, <2>1, HeedsParts
    <3> QED BY <1>1, <1>3, <1>r, <2>1, <3>1 DEF Portal
  <2> QED BY <1>1, <1>3, <1>r, <2>1 DEF Portal
<1> QED BY <1>5, <1>6, <1>7, <1>8, <1>9 DEF Protocol

(* ReadNotification and Discard.                                             *)
LEMMA DiscardExchange ==
    ASSUME Exchange, Discard
    PROVE  Exchange'
<1>1. /\ Reading /\ wire # <<>> /\ Head(wire).kind \notin Heeds /\ Read({Head(wire).kind})
      /\ UNCHANGED <<connVars, noteVars, callVars, handleVars>> /\ Typed
  BY DEF Discard, Exchange
<1>2. wire' = Tail(wire) /\ UNCHANGED serverVars
  BY <1>1 DEF Read
<1>3. Typed'
  <2>1. /\ state' \in ConnectionState /\ needs_recovery' \in BOOLEAN /\ owns_transaction' \in BOOLEAN
        /\ transaction_status' \in TransactionStatus
    BY <1>1 DEF connVars, handleVars, Typed
  <2> QED BY <1>1, <2>1, ReadTyped
<1> QED BY <1>1, <1>2, <1>3, SkipExchange

(* A notification met by any loop.                                           *)
LEMMA ReadNotificationExchange ==
    ASSUME Exchange, ReadNotification
    PROVE  Exchange'
<1>1. /\ Reading /\ Read({"NotificationResponse"}) /\ Typed
      /\ notification_queue' = Append(notification_queue, Head(wire).note)
      /\ UNCHANGED <<connVars, callVars, handleVars, delivered, held, missed>>
  BY DEF ReadNotification, Exchange
<1>2. /\ wire # <<>> /\ Head(wire).kind = "NotificationResponse" /\ wire' = Tail(wire)
      /\ UNCHANGED <<tokio, serverVars, srv, stx, broken, notes>>
      /\ wire' \in Seq(Message) /\ Len(wire') <= MaxWire
      /\ Head(wire).note \in 1 .. MaxNotes
  BY <1>1, ReadParts
<1>3. Typed'
  <2>1. notification_queue' \in Seq(1 .. MaxNotes)
    BY <1>1, <1>2, AppendProperties DEF Typed
  <2> QED BY <1>1, <1>2, <2>1 DEF Typed, connVars, handleVars
<1> QED BY <1>1, <1>2, <1>3, HeedsParts, SkipExchange

(* A read that leaves the connection's fields and the notifications alone.   *)
LEMMA StepTyped ==
    ASSUME Typed, NEW kinds, Read(kinds), UNCHANGED <<connVars, noteVars, owns_transaction>>
    PROVE  Typed' /\ UNCHANGED <<state, needs_recovery, transaction_status>>
<1>1. UNCHANGED <<state, needs_recovery, transaction_status>>
  BY DEF connVars
<1>2. /\ state' \in ConnectionState /\ needs_recovery' \in BOOLEAN /\ owns_transaction' \in BOOLEAN
      /\ transaction_status' \in TransactionStatus
  BY <1>1 DEF Typed
<1> QED BY <1>1, <1>2, ReadTyped

(* A loop that meets something other than a notification or a notice knows   *)
(* that the server does not wait for copy data, or has met CopyInResponse.   *)
LEMMA CopyMet ==
    ASSUME Typed, Copying, Reading, wire # <<>>, Head(wire).kind \notin Async,
           In({"copy_in", "copying"})
    PROVE  /\ Head(wire).kind = "CopyInResponse" /\ job = "copy_in" /\ at = "read"
           /\ ~In({"copy_in"}) /\ handle \in {"none", "CopyIn"} /\ ~needs_recovery
<1>0. wire \in Seq(Message)
  BY DEF Typed
<1>1. /\ ComesNext({"CopyInResponse"}, {"copy_in"}) /\ job = "copy_in" /\ at = "read"
      /\ In({"copy_in"}) => Only(wire, Async)
      /\ handle \in {"none", "CopyIn"} /\ ~needs_recovery
  BY DEF Copying
<1>2. Only(wire, Async) => Head(wire).kind \in Async
  BY <1>0, ReadKinds
<1>3. Leads(wire, {"CopyInResponse"}) =>
        Head(wire).kind \in {"CopyInResponse"} \/ Head(wire).kind \in Async
  BY <1>0, ReadKinds
<1> QED BY <1>1, <1>2, <1>3 DEF ComesNext

(* RowStream::next.                                                          *)
LEMMA NextReadsExchange ==
    ASSUME Exchange, NextReads
    PROVE  Exchange'
<1>0. Typed /\ Control /\ Recovery /\ Protocol
  BY DEF Exchange
<1> DEFINE k == Head(wire).kind
           K == {"RowDescription", "CommandComplete", "EmptyQueryResponse", "DataRow"}
<1>1. /\ job = "next" /\ at = "read" /\ UNCHANGED <<connVars, noteVars, handle, owns_transaction>>
      /\ Read(K)
      /\ \/ /\ hstate = "WaitingForDescription" /\ k = "RowDescription"
            /\ hstate' = "ReceivingRows" /\ job' = "next" /\ at' = "read"
         \/ hstate' = "Finishing" /\ job' = "next" /\ at' = "read"
         \/ /\ hstate = "ReceivingRows" /\ k = "DataRow"
            /\ hstate' = "ReceivingRows" /\ job' = "none" /\ at' = "rest"
  BY DEF NextReads, Read, callVars, Return
<1>2. Typed' /\ UNCHANGED <<state, needs_recovery, transaction_status>>
  BY <1>0, <1>1, StepTyped
<1>3. /\ wire # <<>> /\ k \in K /\ wire' = Tail(wire) /\ UNCHANGED <<srv, stx, broken>>
  BY <1>0, <1>1, ReadParts
<1>4. /\ handle = "RowStream" /\ hstate \notin {"Done", "Error"} /\ state # "Idle" /\ ~needs_recovery
      /\ ~owns_transaction
  BY <1>0, <1>1 DEF Control, Holds, Recovery, Cursors
<1>5. Control' /\ Recovery'
  BY <1>1, <1>2, <1>4 DEF Control, Awaits, Holds, HandleStates, Jobs, CopyEnds, Recovery, RecoverJobs
<1> HIDE DEF k
<1> SUFFICES ASSUME ~broken PROVE Protocol'
  BY <1>2, <1>3, <1>5 DEF Exchange, Protocol
<1>6. Answer /\ Turn /\ Stops /\ Copying
  BY <1>0 DEF Protocol
<1>7. Answer' /\ Owed /\ (Owed' <=> Owed)
  <2>1. Owed
    BY <1>1, <1>6 DEF Turn, Reading
  <2> QED BY <1>0, <1>2, <1>3, <1>6, <2>1, ReadAnswer DEF k
<1>8. Turn'
  BY <1>1, <1>2, <1>4, <1>7 DEF Turn, Reading
<1>9. Stops'
  <2>1. EndToCome /\ k \notin Ends => EndToCome'
    BY <1>0, <1>3, ReadComes DEF EndToCome, k
  <2>2. EmptyToCome => k # "RowDescription"
    BY <1>0, <1>3, ReadComes DEF EmptyToCome, k
  <2>3. hstate' = "ReceivingRows" => EndToCome'
    BY <1>1, <1>4, <1>6, <2>1, <2>2 DEF Stops, Ends
  <2> QED BY <1>1, <2>3 DEF Stops
<1>10. ~In({"copy_in", "copying"})'
  <2>1. ~In({"copy_in", "copying"})
    BY <1>4, <1>6 DEF Copying
  <2> QED BY <1>0, <1>3, <2>1, ReadComes
<1>11. Copying' /\ Portal'
  BY <1>1, <1>4, <1>10 DEF Copying, Portal, Cursors
<1> QED BY <1>7, <1>8, <1>9, <1>11 DEF Protocol

(* The preamble of query_params_stream.                                      *)
LEMMA PreambleEndsExchange ==
    ASSUME Exchange, PreambleEnds
    PROVE  Exchange'
<1>0. Typed /\ Control /\ Recovery /\ Protocol
  BY DEF Exchange
<1> DEFINE k == Head(wire).kind
           K == Heeds \ {"ErrorResponse"}
<1>1. /\ job = "query_params_stream" /\ at = "read" /\ Read(K)
      /\ transaction_status' = (IF k = "ReadyForQuery" THEN Head(wire).status ELSE transaction_status)
      /\ job' = "none" /\ at' = "rest" /\ handle' = "RowStream" /\ hstate' = "ReceivingRows"
      /\ UNCHANGED <<state, needs_recovery, noteVars, owns_transaction>>
  BY DEF PreambleEnds, Return
<1>3. /\ wire # <<>> /\ k \in K /\ wire' = Tail(wire) /\ UNCHANGED <<srv, stx, broken>>
      /\ Head(wire).status \in TransactionStatus
  BY <1>0, <1>1, ReadParts
<1>2. Typed'
  <2>1. transaction_status' \in TransactionStatus
    BY <1>0, <1>1, <1>3 DEF Typed
  <2> QED BY <1>0, <1>1, <2>1, ReadTyped DEF Typed
<1>4. handle = "none" /\ state # "Idle" /\ ~needs_recovery /\ ~owns_transaction
  BY <1>0, <1>1 DEF Control, Holds, Recovery, Cursors, CopyEnds
<1>5. Control' /\ Recovery'
  BY <1>1, <1>4 DEF Control, Awaits, Holds, HandleStates, Jobs, CopyEnds, Recovery
<1> HIDE DEF k
<1> SUFFICES ASSUME ~broken PROVE Protocol'
  BY <1>2, <1>3, <1>5 DEF Exchange, Protocol
<1>6. Answer /\ Turn /\ Stops /\ Copying
  BY <1>0 DEF Protocol
<1>m. k \in {"RowDescription", "NoData"} /\ EndToCome
  <2>1. ComesNext(Described, {"parse", "describe"}) /\ EndToCome
    BY <1>1, <1>6 DEF Stops
  <2>2. k \in Described \/ k \in Async
    BY <1>0, <1>3, <2>1, ReadComes DEF k
  <2>3. k \in {"RowDescription", "NoData", "CommandComplete", "EmptyQueryResponse", "ReadyForQuery"}
    BY <1>1, <1>3, HeedsParts DEF Reading
  <2> QED BY <2>1, <2>2, <2>3 DEF Described, Async
<1>7. Answer' /\ Owed /\ (Owed' <=> Owed)
  <2>1. Owed
    BY <1>1, <1>6 DEF Turn, Reading
  <2> QED BY <1>0, <1>1, <1>3, <1>6, <1>m, <2>1, ReadAnswer DEF k
<1>8. Turn'
  BY <1>1, <1>4, <1>7 DEF Turn, Reading
<1>9. Stops'
  <2>1. EndToCome'
    BY <1>0, <1>3, <1>m, ReadComes DEF EndToCome, Ends, k
  <2> QED BY <1>1, <2>1 DEF Stops
<1>10. ~In({"copy_in", "copying"})'
  <2>1. ~In({"copy_in", "copying"})
    BY <1>1, <1>6 DEF Copying, Reading
  <2> QED BY <1>0, <1>3, <2>1, ReadComes
<1>11. Copying' /\ Portal'
  BY <1>1, <1>4, <1>10 DEF Copying, Portal, Cursors
<1> QED BY <1>7, <1>8, <1>9, <1>11 DEF Protocol

(* A read after which the call goes on, or is drained: the handle keeps its  *)
(* claims.                                                                   *)
LEMMA FetchCompletesExchange ==
    ASSUME Exchange, FetchCompletes
    PROVE  Exchange'
<1>0. Typed /\ Control /\ Recovery /\ Protocol
  BY DEF Exchange
<1> DEFINE k == Head(wire).kind
<1>1. /\ job = "fetch" /\ at = "read" /\ Read({"CommandComplete"})
      /\ hstate' = (IF handle = "Cursor" THEN "Done" ELSE "Completing")
      /\ UNCHANGED <<connVars, noteVars, job, at, handle, owns_transaction>>
  BY DEF FetchCompletes, callVars
<1>2. Typed' /\ UNCHANGED <<state, needs_recovery, transaction_status>>
  BY <1>0, <1>1, StepTyped
<1>3. /\ wire # <<>> /\ k = "CommandComplete" /\ wire' = Tail(wire) /\ UNCHANGED <<srv, stx, broken>>
  BY <1>0, <1>1, ReadParts
<1>4. /\ \/ handle = "Cursor" /\ hstate \in {"Active", "Done"} /\ hstate' = "Done"
         \/ handle = "CursorStream" /\ hstate \in {"Active", "Completing"} /\ hstate' = "Completing"
      /\ state # "Idle" /\ ~needs_recovery
  BY <1>0, <1>1 DEF Control, Holds, Recovery
<1>5. Control' /\ Recovery'
  BY <1>1, <1>2, <1>4 DEF Control, Awaits, Holds, HandleStates, Jobs, CopyEnds, Recovery, RecoverJobs, Cursors
<1> HIDE DEF k
<1> SUFFICES ASSUME ~broken PROVE Protocol'
  BY <1>2, <1>3, <1>5 DEF Exchange, Protocol
<1>6. Answer /\ Turn /\ Copying /\ Portal
  BY <1>0 DEF Protocol
<1>7. Answer' /\ Owed /\ (Owed' <=> Owed)
  <2>1. Owed
    BY <1>1, <1>6 DEF Turn, Reading
  <2> QED BY <1>0, <1>2, <1>3, <1>6, <2>1, ReadAnswer DEF k
<1>8. Turn' /\ Stops'
  BY <1>1, <1>2, <1>4, <1>7 DEF Turn, Stops, Reading
<1>9. Copying' /\ Portal'
  <2>1. ~In({"copy_in", "copying"})
    BY <1>1, <1>6 DEF Copying, Reading
  <2>2. \A P : In(P)' <=> In(P)
    BY <1>3 DEF In
  <2> QED BY <1>1, <1>3, <1>4, <1>6, <2>1, <2>2 DEF Copying, Portal, Cursors
<1> QED BY <1>7, <1>8, <1>9 DEF Protocol

(* copy_in and copy_out read their response.                                 *)
LEMMA CopyStartsExchange ==
    ASSUME Exchange, CopyStarts
    PROVE  Exchange'
<1>0. Typed /\ Control /\ Recovery /\ Protocol
  BY DEF Exchange
<1> DEFINE k == Head(wire).kind
           K == {"CopyInResponse", "CopyOutResponse", "RowDescription", "CommandComplete",
                 "EmptyQueryResponse"}
<1>1. /\ job \in {"copy_in", "copy_out"} /\ at = "read" /\ Read(K)
      /\ UNCHANGED <<connVars, noteVars, owns_transaction>>
      /\ \/ /\ job = "copy_in" /\ handle' = "CopyIn" /\ hstate' = "Active"
            /\ job' = "none" /\ at' = "rest"
         \/ /\ job = "copy_out" /\ k = "CopyOutResponse" /\ handle' = "CopyOut" /\ hstate' = "Active"
            /\ job' = "none" /\ at' = "rest"
         \/ /\ k \in {"RowDescription", "CommandComplete", "EmptyQueryResponse"}
            /\ job' = job /\ at' = "drain" /\ UNCHANGED <<handle, hstate>>
  BY DEF CopyStarts, Read, Return, Suspend
<1>2. Typed' /\ UNCHANGED <<state, needs_recovery, transaction_status>>
  BY <1>0, <1>1, StepTyped
<1>3. /\ wire # <<>> /\ k \in K /\ wire' = Tail(wire) /\ UNCHANGED <<srv, stx, broken>>
  BY <1>0, <1>1, ReadParts
<1>4. handle = "none" /\ hstate = "Done" /\ state # "Idle" /\ ~needs_recovery /\ ~owns_transaction
  BY <1>0, <1>1 DEF Control, Holds, Recovery, Cursors, CopyEnds, HandleStates
<1>5. Control' /\ Recovery'
  BY <1>1, <1>2, <1>4 DEF Control, Awaits, Holds, HandleStates, Jobs, CopyEnds, Recovery, RecoverJobs
<1> HIDE DEF k
<1> SUFFICES ASSUME ~broken PROVE Protocol'
  BY <1>2, <1>3, <1>5 DEF Exchange, Protocol
<1>6. Answer /\ Turn /\ Copying
  BY <1>0 DEF Protocol
<1>7. Answer' /\ Owed /\ (Owed' <=> Owed)
  <2>1. Owed
    BY <1>1, <1>6 DEF Turn, Reading
  <2> QED BY <1>0, <1>2, <1>3, <1>6, <2>1, ReadAnswer DEF k
<1>8. Turn'
  BY <1>1, <1>2, <1>4, <1>7 DEF Turn, Reading
<1>9. Stops' /\ Portal'
  BY <1>1, <1>4 DEF Stops, Portal, Cursors
<1>10. Copying'
  <2> SUFFICES ASSUME In({"copy_in", "copying"})' PROVE Copying'
    BY DEF Copying
  <2>1. \A P : In(P)' <=> In(P)
    BY <1>3 DEF In
  <2>2. k = "CopyInResponse" /\ job = "copy_in" /\ ~In({"copy_in"})
    BY <1>0, <1>1, <1>3, <1>6, <2>1, CopyMet DEF k, Async, Reading
  <2> QED BY <1>1, <1>2, <1>4, <2>1, <2>2 DEF Copying, Reading
<1> QED BY <1>7, <1>8, <1>9, <1>10 DEF Protocol

(* CopyOut::read_next has a chunk of data.                                   *)
LEMMA CopyReadsExchange ==
    ASSUME Exchange, CopyReads
    PROVE  Exchange'
<1>0. Typed /\ Control /\ Recovery /\ Protocol
  BY DEF Exchange
<1> DEFINE k == Head(wire).kind
<1>1. /\ job = "copy_read" /\ at = "read" /\ Read({"CopyData"}) /\ job' = "none" /\ at' = "rest"
      /\ UNCHANGED <<connVars, noteVars, handle, hstate, owns_transaction>>
  BY DEF CopyReads, Return, handleVars
<1>2. Typed' /\ UNCHANGED <<state, needs_recovery, transaction_status>>
  BY <1>0, <1>1, StepTyped
<1>3. /\ wire # <<>> /\ k = "CopyData" /\ wire' = Tail(wire) /\ UNCHANGED <<srv, stx, broken>>
  BY <1>0, <1>1, ReadParts
<1>4. handle = "CopyOut" /\ hstate = "Active" /\ state # "Idle" /\ ~needs_recovery /\ ~owns_transaction
  BY <1>0, <1>1 DEF Control, Holds, Recovery, Cursors
<1>5. Control' /\ Recovery'
  BY <1>1, <1>2, <1>4 DEF Control, Awaits, Holds, HandleStates, Jobs, CopyEnds, Recovery
<1> HIDE DEF k
<1> SUFFICES ASSUME ~broken PROVE Protocol'
  BY <1>2, <1>3, <1>5 DEF Exchange, Protocol
<1>6. Answer /\ Turn /\ Copying
  BY <1>0 DEF Protocol
<1>7. Answer' /\ Owed /\ (Owed' <=> Owed)
  <2>1. Owed
    BY <1>1, <1>6 DEF Turn, Reading
  <2> QED BY <1>0, <1>2, <1>3, <1>6, <2>1, ReadAnswer DEF k
<1>8. Turn' /\ Stops' /\ Portal'
  BY <1>1, <1>2, <1>4, <1>7 DEF Turn, Stops, Portal, Reading, Cursors
<1>9. Copying'
  <2>1. ~In({"copy_in", "copying"})
    BY <1>1, <1>6 DEF Copying, Reading
  <2> QED BY <1>3, <2>1 DEF Copying, In
<1> QED BY <1>7, <1>8, <1>9 DEF Protocol

(* The call goes on to read_until_ready.                                     *)
LEMMA ToDrainExchange ==
    ASSUME Exchange, at = "read", NEW kinds, Read(kinds), Suspend(job, "drain"),
           "ReadyForQuery" \notin kinds,
           Head(wire).kind \notin Async \cup {"CopyInResponse"} \/ job # "copy_in",
           UNCHANGED <<connVars, handleVars>>, Typed'
    PROVE  Exchange'
<1>0. Typed /\ Control /\ Recovery /\ Protocol
  BY DEF Exchange
<1> DEFINE k == Head(wire).kind
<1>1. UNCHANGED <<state, needs_recovery, transaction_status, job, handle, hstate, owns_transaction>>
      /\ at' = "drain"
  BY DEF connVars, handleVars, Suspend
<1>3. /\ wire # <<>> /\ k # "ReadyForQuery" /\ wire' = Tail(wire) /\ UNCHANGED <<srv, stx, broken>>
  BY <1>0, ReadParts
<1>4. state # "Idle" /\ ~needs_recovery
  BY <1>0 DEF Recovery
<1>5. Control' /\ Recovery'
  <2>1. Control'
    BY <1>0, <1>1 DEF Control, Awaits
  <2> QED BY <1>1, <1>4, <2>1 DEF Recovery
<1>k. k \notin Async \cup {"CopyInResponse"} \/ job # "copy_in"
  OBVIOUS
<1> HIDE DEF k
<1> SUFFICES ASSUME ~broken PROVE Protocol'
  BY <1>3, <1>5 DEF Exchange, Protocol
<1>6. Answer /\ Turn /\ Copying /\ Portal
  BY <1>0 DEF Protocol
<1>7. Answer' /\ Owed /\ (Owed' <=> Owed)
  <2>1. Owed
    BY <1>6 DEF Turn, Reading
  <2> QED BY <1>0, <1>1, <1>3, <1>6, <2>1, ReadAnswer DEF k
<1>8. Turn'
  BY <1>1, <1>4, <1>7 DEF Turn
<1>9. Stops'
  BY <1>1 DEF Stops
<1>10. ~In({"copy_in", "copying"})
  <2> SUFFICES ASSUME In({"copy_in", "copying"}) PROVE FALSE
    OBVIOUS
  <2>1. job = "copy_in"
    BY <1>6 DEF Copying, Reading
  <2>2. k \notin Async \cup {"CopyInResponse"}
    BY <1>k, <2>1
  <2> QED BY <1>0, <1>3, <1>6, <2>2, CopyMet DEF Reading, k
<1>11. Copying' /\ Portal'
  <2>1. \A P : In(P)' <=> In(P)
    BY <1>3 DEF In
  <2> QED BY <1>1, <1>3, <1>6, <1>10, <2>1 DEF Copying, Portal
<1> QED BY <1>7, <1>8, <1>9, <1>11 DEF Protocol

(* An ErrorResponse.                                                         *)
LEMMA ReadErrorExchange ==
    ASSUME Exchange, ReadError
    PROVE  Exchange'
<1>0. Typed
  BY DEF Exchange
<1>1. /\ at = "read" /\ Read({"ErrorResponse"}) /\ Suspend(job, "drain")
      /\ UNCHANGED <<connVars, noteVars, handleVars, owns_transaction>>
  BY DEF ReadError, handleVars
<1>2. Typed'
  BY <1>0, <1>1, StepTyped
<1>3. Head(wire).kind = "ErrorResponse"
  BY <1>1 DEF Read
<1> QED BY <1>1, <1>2, <1>3, ToDrainExchange DEF Async

(* Nothing changes but the notifications.                                    *)
LEMMA SameExchange ==
    ASSUME Exchange, UNCHANGED <<connVars, callVars, handleVars, wire, serverVars>>, Typed'
    PROVE  Exchange'
<1>0. Control /\ Recovery /\ Protocol
  BY DEF Exchange
<1>1. UNCHANGED <<state, needs_recovery, transaction_status, job, at, handle, hstate, owns_transaction,
                  wire, srv, stx, broken>>
  BY DEF connVars, callVars, handleVars, serverVars
<1>2. Control' /\ Recovery'
  BY <1>0, ClientSame
<1>3. Protocol'
  <2> SUFFICES ASSUME ~broken PROVE Protocol'
    BY <1>1 DEF Protocol
  <2>0. Answer /\ Turn /\ Stops /\ Copying /\ Portal
    BY <1>0 DEF Protocol
  <2>1. /\ Answer' /\ (Owed' <=> Owed) /\ (\A P : In(P)' <=> In(P))
        /\ \A K, P : ToCome(K, P)' <=> ToCome(K, P)
        /\ \A K, P : ComesNext(K, P)' <=> ComesNext(K, P)
        /\ EndToCome' <=> EndToCome
        /\ EmptyToCome' <=> EmptyToCome
    BY <1>1, <2>0, StillOwed
  <2>2. Turn' /\ Stops' /\ Portal'
    BY <1>1, <2>0, <2>1 DEF Turn, Stops, Portal, Reading
  <2>3. Copying'
    BY <1>1, <2>0, <2>1 DEF Copying, Reading
  <2> QED BY <2>1, <2>2, <2>3 DEF Protocol
<1> QED BY <1>2, <1>3 DEF Exchange

(* ReadyForQuery has been read: nothing is owed any more.                    *)
LEMMA ReadyExchange ==
    ASSUME Exchange, Read({"ReadyForQuery"}), Ready, Typed', Control', Recovery',
           ~needs_recovery', at' \in {"rest", "send"},
           ~(handle' = "RowStream" /\ hstate' \notin {"Done", "Error"}),
           ~(handle' = "CopyIn" \/ (handle' = "CopyOut" /\ hstate' = "Active")),
           ~broken /\ handle' \in Cursors /\ job' \notin {"begin", "commit"}
             => (hstate' \in {"Active", "Completing"} \/ job' = "open" => stx # "Idle")
    PROVE  Exchange'
<1>0. Typed /\ Protocol
  BY DEF Exchange
<1>1. /\ wire # <<>> /\ Head(wire).kind = "ReadyForQuery" /\ wire' = Tail(wire)
      /\ UNCHANGED <<srv, stx, broken>>
  BY <1>0, ReadParts
<1> SUFFICES ASSUME ~broken PROVE Protocol'
  BY <1>1 DEF Exchange, Protocol
<1>2. Answer
  BY <1>0 DEF Protocol
<1>3. Answer' /\ ~Owed'
  BY <1>0, <1>1, <1>2, ReadAnswer DEF Ready
<1>4. Turn'
  BY <1>3 DEF Turn, Reading
<1> QED BY <1>1, <1>3, <1>4, QuietProtocol

(* ... by the call's own loop.                                               *)
LEMMA ReadReadyExchange ==
    ASSUME Exchange, ReadReady
    PROVE  Exchange'
<1>0. Typed /\ Control /\ Recovery /\ Protocol
  BY DEF Exchange
<1>1. /\ at = "read" /\ job \notin {"query_params_stream", "copy_in", "copy_out"}
      /\ Read({"ReadyForQuery"}) /\ Ready /\ UNCHANGED <<needs_recovery, noteVars>>
  BY DEF ReadReady
<1>2. ~needs_recovery /\ ~needs_recovery'
  BY <1>0, <1>1 DEF Recovery
<1>j. job \in Jobs \ {"none", "recover", "query_stream", "query_prepared_stream", "copy_cancel"}
  BY <1>0, <1>1 DEF Control, Awaits
<1>3. /\ wire # <<>> /\ Head(wire).kind = "ReadyForQuery" /\ Head(wire).status \in TransactionStatus
      /\ UNCHANGED <<srv, stx, broken>>
  BY <1>0, <1>1, ReadParts
<1>t. ASSUME state' \in ConnectionState, owns_transaction' \in BOOLEAN PROVE Typed'
  <2>1. transaction_status' \in TransactionStatus /\ needs_recovery' \in BOOLEAN
    BY <1>0, <1>1, <1>3 DEF Ready, Typed
  <2> QED BY <1>0, <1>1, <1>t, <2>1, ReadTyped
<1>4. CASE job = "begin"
  <2>1. /\ Transition("open")
        /\ IF at' = "rest" THEN Release ELSE UNCHANGED handleVars
    BY <1>4 DEF ReadReady
  <2>2. /\ state' \in ConnectionState \ {"Idle"}
        /\ \/ job' = "open" /\ at' = "send" /\ UNCHANGED <<handle, hstate, owns_transaction>>
           \/ /\ job' = "none" /\ at' = "rest" /\ handle' = "none" /\ hstate' = "Done"
              /\ owns_transaction' = FALSE
    BY <2>1, ActiveStates DEF Transition, Suspend, Return, Release, handleVars
  <2>3. handle \in Cursors /\ hstate = "Done"
    BY <1>0, <1>4 DEF Control, Holds
  <2>4. Typed'
    BY <1>0, <1>t, <2>2 DEF Typed
  <2>5. Control' /\ Recovery'
    BY <1>2, <2>2, <2>3 DEF Control, Awaits, Holds, HandleStates, Jobs, CopyEnds, Recovery, Cursors
  <2>6. ASSUME ~broken PROVE stx # "Idle"
    <3>1. Answer /\ Portal
      BY <1>0, <2>6 DEF Protocol
    <3>2. ~EndToCome
      BY <1>0, <1>3, <3>1, EndsFirst
    <3>3. ~Has(wire, {"ErrorResponse"})
      BY <3>2 DEF EndToCome, ToCome, Has, Ends
    <3>4. srv = <<>>
      <4>1. wire' = Tail(wire)
        BY <1>1 DEF Read
      <4> QED BY <1>0, <1>3, <3>1, <4>1, ReadAnswer
    <3> QED BY <1>1, <1>4, <3>1, <3>3, <3>4 DEF Portal, ToCome, In
  <2> QED BY <1>1, <1>2, <2>2, <2>3, <2>4, <2>5, <2>6, ReadyExchange DEF Cursors
<1>5. CASE job = "close_cursor" /\ owns_transaction
  <2>1. RecoverFirst("commit", "Idle") /\ UNCHANGED handleVars
    BY <1>5 DEF ReadReady
  <2>2. Transition("commit") /\ UNCHANGED <<handle, hstate, owns_transaction>>
    BY <1>2, <2>1 DEF RecoverFirst, handleVars
  <2>3. state' \in ConnectionState \ {"Idle"} /\ job' = "commit" /\ at' = "send"
    BY <2>2, ActiveStates DEF Transition, Suspend, Encodes
  <2>4. handle \in Cursors /\ hstate # "Completing"
    BY <1>0, <1>5 DEF Control, Holds
  <2>5. Typed'
    BY <1>0, <1>t, <2>2, <2>3 DEF Typed
  <2>6. Control' /\ Recovery'
    BY <1>0, <1>2, <2>2, <2>3, <2>4 DEF Control, Awaits, Holds, Jobs, CopyEnds, Recovery, Cursors
  <2> QED BY <1>1, <1>2, <2>2, <2>3, <2>4, <2>5, <2>6, ReadyExchange DEF Cursors
<1>6. CASE job # "begin" /\ ~(job = "close_cursor" /\ owns_transaction)
  <2>1. /\ state' = "Idle" /\ Return
        /\ CASE job \in {"next", "copy_read"} ->
                    hstate' = "Done" /\ UNCHANGED <<handle, owns_transaction>>
             [] job = "open" -> hstate' = "Active" /\ UNCHANGED <<handle, owns_transaction>>
             [] job = "fetch" ->
                    /\ hstate' = IF hstate = "Completing" THEN "Done" ELSE hstate
                    /\ UNCHANGED <<handle, owns_transaction>>
             [] job \in {"close_cursor", "commit", "copy_finish"} -> Release
             [] OTHER -> UNCHANGED handleVars
    BY <1>6 DEF ReadReady
  <2>2. state' = "Idle" /\ job' = "none" /\ at' = "rest"
    BY <2>1 DEF Return
  <2>3. /\ handle' \in {handle, "none"} /\ owns_transaction' \in {owns_transaction, FALSE}
        /\ owns_transaction' => handle' = handle
        /\ hstate' \in HandleStates(handle') /\ hstate' # "Completing"
        /\ ~(handle' = "RowStream" /\ hstate' \notin {"Done", "Error"})
        /\ ~(handle' = "CopyIn" \/ (handle' = "CopyOut" /\ hstate' = "Active"))
        /\ handle' \in Cursors /\ hstate' = "Active" => handle = handle' /\ (hstate = "Active" \/ job = "open")
    <3>1. CASE job \in {"next", "copy_read"}
      <4>1. hstate' = "Done" /\ UNCHANGED <<handle, owns_transaction>> /\ handle \in {"RowStream", "CopyOut"}
        BY <1>0, <2>1, <3>1 DEF Control, Holds
      <4> QED BY <4>1 DEF HandleStates, Cursors
    <3>2. CASE job = "open"
      <4>1. hstate' = "Active" /\ UNCHANGED <<handle, owns_transaction>> /\ handle \in Cursors
        BY <1>0, <2>1, <3>2 DEF Control, Holds
      <4> QED BY <3>2, <4>1 DEF HandleStates, Cursors
    <3>3. CASE job = "fetch"
      <4>1. /\ hstate' = (IF hstate = "Completing" THEN "Done" ELSE hstate)
            /\ UNCHANGED <<handle, owns_transaction>>
        BY <2>1, <3>3
      <4>2. \/ handle = "Cursor" /\ hstate \in {"Active", "Done"}
            \/ handle = "CursorStream" /\ hstate \in {"Active", "Completing"}
        BY <1>0, <3>3 DEF Control, Holds
      <4> QED BY <4>1, <4>2 DEF HandleStates, Cursors
    <3>4. CASE job \in {"close_cursor", "commit", "copy_finish"}
      <4>1. handle' = "none" /\ hstate' = "Done" /\ owns_transaction' = FALSE
        BY <2>1, <3>4 DEF Release
      <4> QED BY <4>1 DEF HandleStates, Cursors
    <3>5. CASE job \notin {"next", "copy_read", "open", "fetch", "close_cursor", "commit", "copy_finish"}
      <4>1. UNCHANGED <<handle, hstate, owns_transaction>>
        BY <2>1, <3>5 DEF handleVars
      <4>2. handle = "none" /\ hstate = "Done"
        BY <1>0, <1>6, <1>j, <3>5 DEF Control, Holds, CopyEnds, HandleStates
      <4> QED BY <4>1, <4>2 DEF HandleStates, Cursors
    <3> QED BY <3>1, <3>2, <3>3, <3>4, <3>5
  <2>4. Typed'
    BY <1>0, <1>t, <2>2, <2>3 DEF Typed, ConnectionState
  <2>5. Control'
    <3>1. job' \in Jobs /\ Awaits(job, at)'
      BY <2>2 DEF Awaits, Jobs
    <3>2. Holds(job, handle, hstate)'
      BY <2>2, <2>3 DEF Holds, CopyEnds
    <3>3. owns_transaction' => handle' \in Cursors
      BY <1>0, <2>3 DEF Control
    <3> QED BY <1>0, <2>2, <2>3, <3>1, <3>2, <3>3 DEF Control
  <2>6. Recovery'
    BY <1>2, <2>2, <2>3 DEF Recovery
  <2>7. ASSUME ~broken, handle' \in Cursors, hstate' = "Active" PROVE stx # "Idle"
    <3>1. Portal /\ handle \in Cursors /\ (hstate = "Active" \/ job = "open")
      BY <1>0, <2>3, <2>7 DEF Protocol
    <3>2. job \notin {"begin", "commit"}
      <4>1. job # "commit"
        BY <2>1, <2>7 DEF Release, Cursors
      <4> QED BY <1>6, <4>1
    <3> QED BY <3>1, <3>2 DEF Portal
  <2> QED BY <1>1, <1>2, <2>2, <2>3, <2>4, <2>5, <2>6, <2>7, ReadyExchange
<1> QED BY <1>4, <1>5, <1>6

(* ... by read_until_ready.                                                  *)
LEMMA DrainReadyExchange ==
    ASSUME Exchange, DrainReady
    PROVE  Exchange'
<1>0. Typed /\ Control /\ Recovery /\ Protocol
  BY DEF Exchange
<1>1. /\ at = "drain" /\ Read({"ReadyForQuery"}) /\ Ready
      /\ state' = "Idle" /\ job' = "none" /\ at' = "rest"
      /\ CASE job = "next" \/ (job = "fetch" /\ handle = "CursorStream") ->
                  hstate' = "Error" /\ UNCHANGED <<handle, owns_transaction>>
           [] job = "copy_read" -> hstate' = "Done" /\ UNCHANGED <<handle, owns_transaction>>
           [] job = "fetch" /\ handle = "Cursor" -> UNCHANGED handleVars
           [] OTHER             -> Release
      /\ held' = 0 /\ delivered' = (IF held = 0 THEN delivered ELSE Append(delivered, held))
      /\ UNCHANGED <<needs_recovery, notification_queue, missed>>
  BY DEF DrainReady, Return
<1>2. ~needs_recovery /\ ~needs_recovery'
  BY <1>0, <1>1 DEF Recovery
<1>3. /\ Head(wire).status \in TransactionStatus /\ UNCHANGED <<tokio, srv, stx, broken, notes>>
      /\ wire' \in Seq(Message) /\ Len(wire') <= MaxWire
  BY <1>0, <1>1, ReadParts
<1>4. /\ handle' \in {handle, "none"} /\ owns_transaction' \in {owns_transaction, FALSE}
      /\ owns_transaction' => handle' = handle
      /\ hstate' \in HandleStates(handle') /\ hstate' # "Completing"
      /\ ~(handle' = "RowStream" /\ hstate' \notin {"Done", "Error"})
      /\ ~(handle' = "CopyIn" \/ (handle' = "CopyOut" /\ hstate' = "Active"))
      /\ handle' \in Cursors /\ hstate' = "Active" => handle = handle' /\ hstate = "Active" /\ job = "fetch"
  <2>1. CASE job = "next" \/ (job = "fetch" /\ handle = "CursorStream")
    <3>1. hstate' = "Error" /\ UNCHANGED <<handle, owns_transaction>> /\ handle \in {"RowStream", "CursorStream"}
      BY <1>0, <1>1, <2>1 DEF Control, Holds
    <3> QED BY <3>1 DEF HandleStates, Cursors
  <2>2. CASE job = "copy_read"
    <3>1. hstate' = "Done" /\ UNCHANGED <<handle, owns_transaction>> /\ handle = "CopyOut"
      BY <1>0, <1>1, <2>2 DEF Control, Holds
    <3> QED BY <3>1 DEF HandleStates, Cursors
  <2>3. CASE job = "fetch" /\ handle # "CursorStream"
    <3>1. UNCHANGED <<handle, hstate, owns_transaction>> /\ handle = "Cursor" /\ hstate \in {"Active", "Done"}
      BY <1>0, <1>1, <2>3 DEF Control, Holds, handleVars
    <3> QED BY <2>3, <3>1 DEF HandleStates, Cursors
  <2>4. CASE job \notin {"next", "fetch", "copy_read"}
    <3>1. handle' = "none" /\ hstate' = "Done" /\ owns_transaction' = FALSE
      BY <1>1, <2>4 DEF Release
    <3> QED BY <3>1 DEF HandleStates, Cursors
  <2> QED BY <2>1, <2>2, <2>3, <2>4
<1>5. Typed'
  <2>1. transaction_status' \in TransactionStatus
    BY <1>1, <1>3 DEF Ready
  <2>2. owns_transaction' \in BOOLEAN
    BY <1>0, <1>4 DEF Typed
  <2>3. held' \in 0 .. MaxNotes /\ (held = 0 \/ held \in 1 .. MaxNotes)
    BY <1>0, <1>1, BoundsAssumption DEF Typed
  <2>4. delivered' \in Seq(1 .. MaxNotes)
    BY <1>0, <1>1, <2>3, AppendProperties DEF Typed
  <2> QED BY <1>0, <1>1, <1>3, <2>1, <2>2, <2>3, <2>4 DEF Typed, ConnectionState
<1>6. Control'
  <2>1. job' \in Jobs /\ Awaits(job, at)'
    BY <1>1 DEF Awaits, Jobs
  <2>2. Holds(job, handle, hstate)'
    BY <1>1, <1>4 DEF Holds, CopyEnds
  <2>3. owns_transaction' => handle' \in Cursors
    BY <1>0, <1>4 DEF Control
  <2> QED BY <1>0, <1>1, <1>4, <2>1, <2>2, <2>3 DEF Control
<1>7. Recovery'
  BY <1>1, <1>2, <1>4 DEF Recovery
<1>8. ASSUME ~broken, handle' \in Cursors, hstate' = "Active" PROVE stx # "Idle"
  <2>1. Portal /\ handle \in Cursors /\ hstate = "Active" /\ job = "fetch"
    BY <1>0, <1>4, <1>8 DEF Protocol
  <2> QED BY <2>1 DEF Portal
<1> QED BY <1>1, <1>2, <1>4, <1>5, <1>6, <1>7, <1>8, ReadyExchange

(* ... by recover().                                                         *)
LEMMA RecoverReadyExchange ==
    ASSUME Exchange, RecoverReady
    PROVE  Exchange'
<1>0. Typed /\ Control /\ Recovery
  BY DEF Exchange
<1>1. /\ at = "recover" /\ Read({"ReadyForQuery"}) /\ Ready /\ needs_recovery' = FALSE
      /\ UNCHANGED noteVars /\ UNCHANGED <<handle, hstate, owns_transaction>>
  BY DEF RecoverReady, handleVars
<1>2. job \in RecoverJobs
  BY <1>0, <1>1 DEF Control, Awaits
<1>3. \/ state' = "Idle" /\ job' = "none" /\ at' = "rest" /\ job = "recover"
      \/ state' \in ConnectionState \ {"Idle"} /\ job' = job /\ at' = "send" /\ job # "recover"
      \/ /\ state' \in ConnectionState \ {"Idle"} /\ job' = "none" /\ at' = "rest"
         /\ job \in {"query_prepared_stream", "query_params_stream"}
  <2>1. CASE job = "recover"
    BY <2>1 DEF RecoverReady, Return
  <2>2. CASE job # "recover"
    <3>1. Transition(job)
      BY <2>2 DEF RecoverReady
    <3> QED BY <1>2, <2>2, <3>1, ActiveStates DEF Transition, Suspend, Return, Encodes, RecoverJobs
  <2> QED BY <2>1, <2>2
<1>4. /\ job \in {"begin", "commit"} => handle \in Cursors /\ hstate # "Completing"
      /\ job \notin {"begin", "commit"} => handle = "none" /\ hstate = "Done"
      /\ job = "begin" => hstate = "Done"
  BY <1>0, <1>2 DEF Control, Holds, RecoverJobs, CopyEnds, HandleStates
<1>5. Typed'
  <2>1. transaction_status' \in TransactionStatus
    BY <1>0, <1>1, ReadParts DEF Ready
  <2>2. /\ state' \in ConnectionState /\ needs_recovery' \in BOOLEAN /\ owns_transaction' \in BOOLEAN
    BY <1>0, <1>1, <1>3 DEF Typed, ConnectionState
  <2> QED BY <1>0, <1>1, <2>1, <2>2, ReadTyped
<1>6. Control'
  <2>1. job' \in Jobs /\ Awaits(job, at)' /\ at' \in {"rest", "send"}
    BY <1>2, <1>3 DEF Awaits, Jobs, RecoverJobs
  <2>2. Holds(job, handle, hstate)'
    BY <1>1, <1>2, <1>3, <1>4 DEF Holds, CopyEnds, RecoverJobs
  <2> QED BY <1>0, <1>1, <2>1, <2>2 DEF Control
<1>7. Recovery'
  BY <1>1, <1>3, <1>4 DEF Recovery, Cursors
<1>8. handle' \in Cursors => job' \in {"begin", "commit"}
  BY <1>1, <1>2, <1>3, <1>4 DEF Cursors
<1> QED BY <1>1, <1>3, <1>4, <1>5, <1>6, <1>7, <1>8, ReadyExchange DEF Cursors

-----------------------------------------------------------------------------
(* Notifications.                                                            *)

(* A wait without an exchange (tokio) reads.                                 *)
LEMMA WaitReadExchange ==
    ASSUME Exchange, at = "notification", NEW kinds, Read(kinds),
           UNCHANGED callVars \/ Return, UNCHANGED <<state, needs_recovery, handleVars>>,
           transaction_status' = (IF Head(wire).kind = "ReadyForQuery" THEN Head(wire).status
                                  ELSE transaction_status),
           Typed'
    PROVE  Exchange'
<1>0. Typed /\ Control /\ Recovery /\ Protocol
  BY DEF Exchange
<1>1. /\ job' \in {job, "none"} /\ ((job' = job /\ at' = at) \/ (job' = "none" /\ at' = "rest"))
      /\ UNCHANGED <<handle, hstate, owns_transaction>>
  BY DEF callVars, handleVars, Return
<1>2. wire # <<>> /\ wire' = Tail(wire) /\ UNCHANGED <<srv, stx, broken>> /\ wire \in Seq(Message)
  BY <1>0, ReadParts DEF Typed
<1>3. job = "wait_for_notification" /\ handle = "none" /\ hstate = "Done" /\ ~needs_recovery
  BY <1>0 DEF Control, Awaits, Holds, CopyEnds, HandleStates, Recovery
<1>4. Control' /\ Recovery'
  <2>1. Control'
    BY <1>0, <1>1, <1>3 DEF Control, Awaits, Holds, CopyEnds, Jobs
  <2>2. Recovery'
    BY <1>1, <1>3 DEF Recovery
  <2> QED BY <2>1, <2>2
<1> SUFFICES ASSUME ~broken PROVE Protocol'
  BY <1>2, <1>4 DEF Exchange, Protocol
<1>5. Answer /\ Turn
  BY <1>0 DEF Protocol
<1>6. state = "Idle" /\ ~Owed
  BY <1>5 DEF Turn
<1>7. Answer' /\ ~Owed'
  BY <1>0, <1>2, <1>5, <1>6, ReadAnswer
<1>8. Turn'
  BY <1>1, <1>3, <1>6, <1>7 DEF Turn, Reading
<1> QED BY <1>1, <1>3, <1>7, <1>8, QuietProtocol DEF Cursors

(* WaitReadsNotification and WaitReadsOther.                                 *)
LEMMA WaitReadsExchange ==
    ASSUME Exchange, WaitReadsNotification \/ WaitReadsOther
    PROVE  Exchange'
<1>0. Typed
  BY DEF Exchange
<1>1. CASE WaitReadsNotification
  <2>1. /\ job = "wait_for_notification" /\ at \in {"read", "notification"}
        /\ Read({"NotificationResponse"})
        /\ IF at = "read"
           THEN held' = Head(wire).note /\ Suspend(job, "drain") /\ UNCHANGED delivered
           ELSE delivered' = Append(delivered, Head(wire).note) /\ Return /\ UNCHANGED held
        /\ UNCHANGED <<connVars, handleVars, notification_queue, missed>>
    BY <1>1 DEF WaitReadsNotification
  <2>2. /\ Head(wire).kind = "NotificationResponse" /\ Head(wire).note \in 1 .. MaxNotes
        /\ UNCHANGED <<tokio, srv, stx, broken, notes>>
        /\ wire' \in Seq(Message) /\ Len(wire') <= MaxWire
    BY <1>0, <2>1, ReadParts
  <2>3. Typed'
    <3>1. held' \in 0 .. MaxNotes
      BY <1>0, <2>1, <2>2, BoundsAssumption DEF Typed
    <3>2. delivered' \in Seq(1 .. MaxNotes)
      <4>1. delivered \in Seq(1 .. MaxNotes) /\ Append(delivered, Head(wire).note) \in Seq(1 .. MaxNotes)
        BY <1>0, <2>2, AppendProperties DEF Typed
      <4> QED BY <2>1, <4>1
    <3> QED BY <1>0, <2>1, <2>2, <3>1, <3>2 DEF Typed, connVars, handleVars
  <2>4. CASE at = "read"
    BY <2>1, <2>3, <2>4, ToDrainExchange
  <2>5. CASE at = "notification"
    <3>1. Return /\ UNCHANGED <<state, needs_recovery, handleVars>> /\ UNCHANGED transaction_status
      BY <2>1, <2>5 DEF connVars
    <3> QED BY <2>1, <2>2, <2>3, <2>5, <3>1, WaitReadExchange
  <2> QED BY <2>1, <2>4, <2>5
<1>2. CASE WaitReadsOther
  <2>1. /\ at = "notification" /\ Read({Head(wire).kind})
        /\ UNCHANGED callVars \/ Return
        /\ transaction_status' = (IF Head(wire).kind = "ReadyForQuery" THEN Head(wire).status
                                  ELSE transaction_status)
        /\ UNCHANGED <<state, needs_recovery, noteVars, handleVars>>
    BY <1>2 DEF WaitReadsOther, Ready
  <2>2. transaction_status' \in TransactionStatus
    BY <1>0, <2>1, ReadParts DEF Typed
  <2>3. Typed'
    BY <1>0, <2>1, <2>2, ReadTyped DEF Typed, handleVars
  <2> QED BY <2>1, <2>3, WaitReadExchange
<1> QED BY <1>1, <1>2

(* notifications() and wait_for_notification().                              *)
LEMMA TakeExchange ==
    ASSUME Exchange, notifications \/ wait_for_notification
    PROVE  Exchange'
<1>0. Typed /\ Control /\ Recovery /\ Protocol /\ Free
  BY DEF Exchange, notifications, wait_for_notification
<1>1. UNCHANGED <<tokio, needs_recovery, transaction_status, handleVars, held, missed, wire, serverVars>>
  BY DEF notifications, wait_for_notification, connVars
<1>2. ASSUME UNCHANGED <<connVars, callVars>>, notification_queue' \in Seq(1 .. MaxNotes),
             delivered' \in Seq(1 .. MaxNotes)
      PROVE  Exchange'
  <2>1. Typed'
    BY <1>0, <1>1, <1>2 DEF Typed, connVars, handleVars, serverVars
  <2> QED BY <1>1, <1>2, <2>1, SameExchange
<1>3. CASE notifications
  <2>1. /\ delivered' = delivered \o notification_queue /\ notification_queue' = <<>>
        /\ UNCHANGED <<connVars, callVars>>
    BY <1>3 DEF notifications
  <2>2. delivered' \in Seq(1 .. MaxNotes) /\ notification_queue' \in Seq(1 .. MaxNotes)
    BY <1>0, <2>1, ConcatProperties, EmptySeq DEF Typed
  <2> QED BY <1>2, <2>1, <2>2
<1>4. CASE wait_for_notification /\ notification_queue # <<>>
  <2>1. /\ delivered' = Append(delivered, Head(notification_queue))
        /\ notification_queue' = Tail(notification_queue) /\ UNCHANGED <<connVars, callVars>>
    BY <1>4 DEF wait_for_notification, connVars
  <2>2. delivered' \in Seq(1 .. MaxNotes) /\ notification_queue' \in Seq(1 .. MaxNotes)
    BY <1>0, <1>4, <2>1, AppendProperties, HeadTailProperties DEF Typed
  <2> QED BY <1>2, <2>1, <2>2
<1>5. CASE wait_for_notification /\ notification_queue = <<>>
  <2>1. /\ state = "Idle" /\ UNCHANGED <<delivered, notification_queue>>
        /\ \/ job' = "wait_for_notification" /\ at' = "notification" /\ UNCHANGED state
           \/ Transition("wait_for_notification")
    BY <1>5 DEF wait_for_notification, Suspend
  <2>2. at = "rest" /\ handle = "none" /\ hstate = "Done" /\ ~needs_recovery /\ ~owns_transaction
    BY <1>0, <2>1, FreeHolds DEF Recovery, Control, Cursors
  <2>3. CASE Transition("wait_for_notification")
    <3> DEFINE j == "wait_for_notification"
    <3>1. Transition(j) /\ Holds(j, handle, hstate) /\ j # "recover" /\ j # "open"
          /\ j \in Jobs \ ({"none", "next", "copy_read"} \cup CopyEnds)
      BY <1>0, <2>3, FreeHolds DEF Jobs, CopyEnds
    <3> HIDE DEF j
    <3>2. UNCHANGED <<tokio, needs_recovery, transaction_status, noteVars, wire, serverVars>>
          /\ UNCHANGED handleVars
      BY <1>1, <2>1 DEF noteVars
    <3> QED BY <2>1, <2>2, <3>1, <3>2, StartExchange
  <2>4. CASE job' = "wait_for_notification" /\ at' = "notification" /\ UNCHANGED state
    <3>1. UNCHANGED <<handle, hstate, owns_transaction, srv, stx, broken, notes>>
      BY <1>1 DEF handleVars, serverVars
    <3>2. Typed'
      BY <1>0, <1>1, <2>1, <2>4, <3>1 DEF Typed
    <3>3. Control' /\ Recovery'
      BY <1>1, <2>2, <2>4, <3>1 DEF Control, Awaits, Holds, HandleStates, Jobs, CopyEnds, Recovery
    <3>4. ASSUME ~broken PROVE Protocol'
      <4>1. Answer /\ Turn
        BY <1>0, <3>4 DEF Protocol
      <4>2. ~Owed
        BY <2>1, <2>2, <4>1 DEF Turn
      <4>3. Answer' /\ ~Owed'
        BY <1>1, <3>1, <4>1, <4>2, StillOwed
      <4>4. Turn'
        BY <1>1, <2>1, <2>2, <2>4, <3>1, <4>3 DEF Turn, Reading
      <4> QED BY <2>2, <3>1, <4>3, <4>4, QuietProtocol DEF Cursors
    <3> QED BY <3>1, <3>2, <3>3, <3>4 DEF Exchange, Protocol
  <2> QED BY <2>1, <2>3, <2>4
<1> QED BY <1>3, <1>4, <1>5

-----------------------------------------------------------------------------
(* The notifications, in order.                                              *)

(* Those in flight come in the order in which they were sent.                *)
WireOrdered ==
    \A i, k \in DOMAIN wire : IsNote(i) /\ IsNote(k) /\ i < k => wire[i].note < wire[k].note

(* The numbers of the notifications.                                         *)
Notes == 1 .. MaxNotes

(* One notification more.                                                    *)
LEMMA NoteAppended ==
    ASSUME NEW s \in Seq(Notes), NEW n \in Notes
    PROVE  /\ Append(s, n) \in Seq(Notes) /\ Elements(Append(s, n)) = Elements(s) \cup {n}
           /\ Increasing(s) /\ Before(Elements(s), {n}) => Increasing(Append(s, n))
<1>1. /\ Len(s) \in Nat /\ DOMAIN s = 1 .. Len(s) /\ Append(s, n) \in Seq(Notes)
      /\ Len(Append(s, n)) = Len(s) + 1 /\ Append(s, n)[Len(s) + 1] = n
      /\ \A i \in 1 .. Len(s) : Append(s, n)[i] = s[i]
  BY LenProperties, AppendProperties
<1>2. DOMAIN Append(s, n) = 1 .. Len(s) + 1
  BY <1>1, LenProperties
<1>3. /\ \A i \in DOMAIN s : i \in DOMAIN Append(s, n) /\ Append(s, n)[i] = s[i]
      /\ \A i \in DOMAIN Append(s, n) : i \in DOMAIN s \/ i = Len(s) + 1
      /\ Len(s) + 1 \in DOMAIN Append(s, n)
  BY <1>1, <1>2
<1>4. Elements(Append(s, n)) = Elements(s) \cup {n}
  BY <1>1, <1>3 DEF Elements
<1>5. ASSUME Increasing(s), Before(Elements(s), {n}),
             NEW i \in DOMAIN Append(s, n), NEW k \in DOMAIN Append(s, n), i < k
      PROVE  Append(s, n)[i] < Append(s, n)[k]
  <2>1. i \in DOMAIN s
    BY <1>1, <1>2, <1>5
  <2>2. s[i] \in Elements(s)
    BY <2>1 DEF Elements
  <2> QED BY <1>1, <1>3, <1>5, <2>1, <2>2 DEF Increasing, Before
<1> QED BY <1>1, <1>4, <1>5 DEF Increasing

(* The first notification taken.                                             *)
LEMMA NoteTaken ==
    ASSUME NEW s \in Seq(Notes), s # <<>>
    PROVE  /\ Head(s) \in Notes /\ Tail(s) \in Seq(Notes)
           /\ Elements(s) = {Head(s)} \cup Elements(Tail(s))
           /\ Increasing(s) => Increasing(Tail(s)) /\ Before({Head(s)}, Elements(Tail(s)))
<1>1. /\ Len(s) \in Nat /\ DOMAIN s = 1 .. Len(s) /\ Tail(s) \in Seq(Notes)
      /\ Len(Tail(s)) = Len(s) - 1 /\ Head(s) \in Notes /\ s[1] = Head(s)
      /\ \A i \in 1 .. Len(Tail(s)) : Tail(s)[i] = s[i + 1]
  BY LenProperties, HeadTailProperties
<1>2. DOMAIN Tail(s) = 1 .. Len(s) - 1 /\ Len(s) > 0
  BY <1>1, LenProperties, EmptySeq
<1>3. /\ \A i \in DOMAIN Tail(s) : i + 1 \in DOMAIN s /\ Tail(s)[i] = s[i + 1] /\ 1 < i + 1
      /\ 1 \in DOMAIN s
  BY <1>1, <1>2
<1>4. \A i \in DOMAIN s : i = 1 \/ (i - 1 \in DOMAIN Tail(s) /\ Tail(s)[i - 1] = s[i])
  <2> SUFFICES ASSUME NEW i \in DOMAIN s, i # 1
               PROVE  i - 1 \in DOMAIN Tail(s) /\ Tail(s)[i - 1] = s[i]
    OBVIOUS
  <2>1. i - 1 \in DOMAIN Tail(s) /\ (i - 1) + 1 = i
    BY <1>1, <1>2
  <2> QED BY <1>3, <2>1
<1>5. Elements(s) = {Head(s)} \cup Elements(Tail(s))
  BY <1>1, <1>3, <1>4 DEF Elements
<1>6. ASSUME Increasing(s) PROVE Increasing(Tail(s)) /\ Before({Head(s)}, Elements(Tail(s)))
  <2>1. \A i, k \in DOMAIN Tail(s) : i < k => i + 1 < k + 1
    BY <1>2
  <2>2. Increasing(Tail(s))
    BY <1>3, <1>6, <2>1 DEF Increasing
  <2>3. \A i \in DOMAIN Tail(s) : Head(s) < Tail(s)[i]
    BY <1>1, <1>3, <1>6 DEF Increasing
  <2> QED BY <2>2, <2>3 DEF Before, Elements
<1> QED BY <1>1, <1>5, <1>6

(* All of them taken.                                                        *)
LEMMA NotesJoined ==
    ASSUME NEW s \in Seq(Notes), NEW t \in Seq(Notes)
    PROVE  /\ Elements(s \o t) = Elements(s) \cup Elements(t)
           /\ Increasing(s) /\ Increasing(t) /\ Before(Elements(s), Elements(t)) => Increasing(s \o t)
<1>1. /\ Len(s) \in Nat /\ Len(t) \in Nat /\ DOMAIN s = 1 .. Len(s) /\ DOMAIN t = 1 .. Len(t)
      /\ s \o t \in Seq(Notes) /\ Len(s \o t) = Len(s) + Len(t)
      /\ \A i \in 1 .. Len(s) + Len(t) :
           (s \o t)[i] = IF i <= Len(s) THEN s[i] ELSE t[i - Len(s)]
  BY LenProperties, ConcatProperties
<1>2. DOMAIN (s \o t) = 1 .. Len(s) + Len(t)
  BY <1>1, LenProperties
<1>3. /\ \A i \in DOMAIN s : i \in DOMAIN (s \o t) /\ (s \o t)[i] = s[i]
      /\ \A i \in DOMAIN (s \o t) :
           \/ i \in DOMAIN s /\ i <= Len(s)
           \/ i > Len(s) /\ i - Len(s) \in DOMAIN t /\ (s \o t)[i] = t[i - Len(s)]
  BY <1>1, <1>2
<1>4. \A i \in DOMAIN t : i + Len(s) \in DOMAIN (s \o t) /\ (s \o t)[i + Len(s)] = t[i]
  <2> SUFFICES ASSUME NEW i \in DOMAIN t
               PROVE  i + Len(s) \in DOMAIN (s \o t) /\ (s \o t)[i + Len(s)] = t[i]
    OBVIOUS
  <2>1. i + Len(s) \in DOMAIN (s \o t) /\ i + Len(s) > Len(s) /\ (i + Len(s)) - Len(s) = i
    BY <1>1, <1>2
  <2> QED BY <1>1, <1>2, <2>1
<1>5. Elements(s \o t) = Elements(s) \cup Elements(t)
  <2>1. ASSUME NEW i \in DOMAIN (s \o t) PROVE (s \o t)[i] \in Elements(s) \cup Elements(t)
    BY <1>3, <2>1 DEF Elements
  <2>2. ASSUME NEW i \in DOMAIN s PROVE s[i] \in Elements(s \o t)
    BY <1>3, <2>2 DEF Elements
  <2>3. ASSUME NEW i \in DOMAIN t PROVE t[i] \in Elements(s \o t)
    BY <1>4, <2>3 DEF Elements
  <2>4. Elements(s \o t) \subseteq Elements(s) \cup Elements(t)
    BY <2>1 DEF Elements
  <2>5. Elements(s) \cup Elements(t) \subseteq Elements(s \o t)
    BY <2>2, <2>3 DEF Elements
  <2> QED BY <2>4, <2>5
<1>6. ASSUME Increasing(s), Increasing(t), Before(Elements(s), Elements(t)),
             NEW i \in DOMAIN (s \o t), NEW k \in DOMAIN (s \o t), i < k
      PROVE  (s \o t)[i] < (s \o t)[k]
  <2>1. CASE k \in DOMAIN s
    <3>1. i \in DOMAIN s
      BY <1>1, <1>2, <1>6, <2>1
    <3> QED BY <1>3, <1>6, <2>1, <3>1 DEF Increasing
  <2>2. CASE k \notin DOMAIN s /\ i \in DOMAIN s
    <3>1. k - Len(s) \in DOMAIN t /\ (s \o t)[k] = t[k - Len(s)] /\ (s \o t)[i] = s[i]
      BY <1>3, <2>2
    <3>2. s[i] \in Elements(s) /\ t[k - Len(s)] \in Elements(t)
      BY <2>2, <3>1 DEF Elements
    <3> QED BY <1>6, <3>1, <3>2 DEF Before
  <2>3. CASE k \notin DOMAIN s /\ i \notin DOMAIN s
    <3>1. /\ k - Len(s) \in DOMAIN t /\ (s \o t)[k] = t[k - Len(s)]
          /\ i - Len(s) \in DOMAIN t /\ (s \o t)[i] = t[i - Len(s)]
      BY <1>3, <2>3
    <3>2. i - Len(s) < k - Len(s)
      BY <1>1, <1>2, <1>6
    <3> QED BY <1>6, <3>1, <3>2 DEF Increasing
  <2> QED BY <2>1, <2>2, <2>3
<1> QED BY <1>5, <1>6 DEF Increasing

(* The numbers in flight.                                                    *)
LEMMA FlightMembers ==
    /\ \A x : x \in InFlight <=> \E i \in DOMAIN wire : IsNote(i) /\ x = wire[i].note
    /\ \A x : x \in InFlight' <=> \E i \in DOMAIN wire' : wire'[i].kind = "NotificationResponse" /\ x = wire'[i].note
<1>1. \A x : x \in InFlight <=> \E i \in DOMAIN wire : IsNote(i) /\ x = wire[i].note
  BY DEF InFlight
<1>2. \A x : x \in InFlight' <=> \E i \in DOMAIN wire' : wire'[i].kind = "NotificationResponse" /\ x = wire'[i].note
  BY DEF InFlight, IsNote
<1> QED BY <1>1, <1>2

(* A message is read.                                                        *)
LEMMA FlightRead ==
    ASSUME wire \in Seq(Message), wire # <<>>, wire' = Tail(wire)
    PROVE  /\ Head(wire).kind # "NotificationResponse" => InFlight' = InFlight
           /\ Head(wire).kind = "NotificationResponse" => InFlight = {Head(wire).note} \cup InFlight'
           /\ WireOrdered => /\ WireOrdered'
                             /\ Head(wire).kind = "NotificationResponse" => Before({Head(wire).note}, InFlight')
<1>1. /\ 1 \in DOMAIN wire /\ wire[1] = Head(wire)
      /\ \A i \in DOMAIN wire' : i + 1 \in DOMAIN wire /\ wire'[i] = wire[i + 1] /\ 1 < i + 1
      /\ \A i \in DOMAIN wire : i # 1 => i - 1 \in DOMAIN wire' /\ wire'[i - 1] = wire[i]
      /\ \A i, k \in DOMAIN wire' : i < k => i + 1 < k + 1
  BY TailParts
<1>2. Head(wire).kind # "NotificationResponse" => InFlight' = InFlight
  <2> SUFFICES ASSUME Head(wire).kind # "NotificationResponse", NEW x PROVE x \in InFlight' <=> x \in InFlight
    BY Zenon
  <2>1. ASSUME x \in InFlight' PROVE x \in InFlight
    BY <1>1, <2>1, FlightMembers DEF IsNote
  <2>2. ASSUME x \in InFlight PROVE x \in InFlight'
    <3>1. PICK i \in DOMAIN wire : IsNote(i) /\ x = wire[i].note
      BY <2>2, FlightMembers
    <3>2. i # 1
      BY <1>1, <3>1 DEF IsNote
    <3>3. i - 1 \in DOMAIN wire' /\ wire'[i - 1] = wire[i]
      BY <1>1, <3>2
    <3> QED BY <3>1, <3>3, FlightMembers DEF IsNote
  <2> QED BY <2>1, <2>2
<1>3. Head(wire).kind = "NotificationResponse" => InFlight = {Head(wire).note} \cup InFlight'
  <2> SUFFICES ASSUME Head(wire).kind = "NotificationResponse", NEW x
               PROVE  x \in InFlight <=> x = Head(wire).note \/ x \in InFlight'
    OBVIOUS
  <2>1. ASSUME x \in InFlight' PROVE x \in InFlight
    BY <1>1, <2>1, FlightMembers DEF IsNote
  <2>2. ASSUME x \in InFlight PROVE x = Head(wire).note \/ x \in InFlight'
    <3>1. PICK i \in DOMAIN wire : IsNote(i) /\ x = wire[i].note
      BY <2>2, FlightMembers
    <3>2. CASE i = 1
      BY <1>1, <3>1, <3>2
    <3>3. CASE i # 1
      <4>1. i - 1 \in DOMAIN wire' /\ wire'[i - 1] = wire[i]
        BY <1>1, <3>3
      <4> QED BY <3>1, <4>1, FlightMembers DEF IsNote
    <3> QED BY <3>2, <3>3
  <2>3. Head(wire).note \in InFlight
    BY <1>1, FlightMembers DEF IsNote
  <2> QED BY <2>1, <2>2, <2>3
<1>4. WireOrdered => WireOrdered'
  BY <1>1 DEF WireOrdered, IsNote
<1>5. ASSUME WireOrdered, Head(wire).kind = "NotificationResponse", NEW x \in InFlight'
      PROVE  Head(wire).note < x
  <2>1. PICK i \in DOMAIN wire' : wire'[i].kind = "NotificationResponse" /\ x = wire'[i].note
    BY <1>5, FlightMembers
  <2>2. i + 1 \in DOMAIN wire /\ wire[i + 1] = wire'[i] /\ 1 < i + 1
    BY <1>1
  <2> QED BY <1>1, <1>5, <2>1, <2>2 DEF WireOrdered, IsNote
<1> QED BY <1>2, <1>3, <1>4, <1>5 DEF Before

(* A message is sent.                                                        *)
LEMMA FlightSent ==
    ASSUME wire \in Seq(Message), NEW m \in Message, wire' = Append(wire, m)
    PROVE  /\ m.kind # "NotificationResponse" => InFlight' = InFlight /\ (WireOrdered => WireOrdered')
           /\ m.kind = "NotificationResponse" => InFlight' = InFlight \cup {m.note}
           /\ WireOrdered /\ Before(InFlight, {m.note}) => WireOrdered'
<1>1. /\ \A i \in DOMAIN wire : i \in DOMAIN wire' /\ wire'[i] = wire[i]
      /\ \A i \in DOMAIN wire' : i \in DOMAIN wire \/ wire'[i] = m
      /\ \A i, k \in DOMAIN wire' : i < k => i \in DOMAIN wire
      /\ \E i \in DOMAIN wire' : wire'[i] = m
  <2>1. /\ Len(wire) \in Nat /\ DOMAIN wire = 1 .. Len(wire) /\ DOMAIN wire' = 1 .. Len(wire) + 1
        /\ wire'[Len(wire) + 1] = m /\ Len(wire) + 1 \in DOMAIN wire'
        /\ \A i \in DOMAIN wire : i \in DOMAIN wire' /\ wire'[i] = wire[i]
        /\ \A i \in DOMAIN wire' : i \in DOMAIN wire \/ i = Len(wire) + 1
    BY AppendParts
  <2>2. \A i, k \in DOMAIN wire' : i < k => i \in DOMAIN wire
    BY <2>1
  <2> QED BY <2>1, <2>2
<1>2. m.kind # "NotificationResponse" => InFlight' = InFlight
  <2> SUFFICES ASSUME m.kind # "NotificationResponse", NEW x PROVE x \in InFlight' <=> x \in InFlight
    BY Zenon
  <2> QED BY <1>1, FlightMembers DEF IsNote
<1>3. m.kind = "NotificationResponse" => InFlight' = InFlight \cup {m.note}
  <2> SUFFICES ASSUME m.kind = "NotificationResponse", NEW x
               PROVE  x \in InFlight' <=> x \in InFlight \/ x = m.note
    OBVIOUS
  <2> QED BY <1>1, FlightMembers DEF IsNote
<1>4. ASSUME WireOrdered, m.kind # "NotificationResponse" \/ Before(InFlight, {m.note}) PROVE WireOrdered'
  <2> SUFFICES ASSUME NEW i \in DOMAIN wire', NEW k \in DOMAIN wire', i < k,
                      wire'[i].kind = "NotificationResponse", wire'[k].kind = "NotificationResponse"
               PROVE  wire'[i].note < wire'[k].note
    BY DEF WireOrdered, IsNote
  <2>1. i \in DOMAIN wire /\ wire'[i] = wire[i] /\ wire[i].note \in InFlight
    BY <1>1, FlightMembers DEF IsNote
  <2>2. CASE k \in DOMAIN wire
    BY <1>1, <1>4, <2>1, <2>2 DEF WireOrdered, IsNote
  <2>3. CASE k \notin DOMAIN wire
    BY <1>1, <1>4, <2>1, <2>3 DEF Before
  <2> QED BY <2>2, <2>3
<1> QED BY <1>2, <1>3, <1>4

(* What NotificationsKept says of a live connection.                         *)
Line ==
    /\ Increasing(delivered) /\ Increasing(notification_queue) /\ WireOrdered
    /\ Before(Elements(delivered), Held \cup Elements(notification_queue) \cup InFlight)
    /\ Before(Held, Elements(notification_queue) \cup InFlight)
    /\ Before(Elements(notification_queue), InFlight)
    /\ Elements(delivered) \cup Held \cup Elements(notification_queue) \cup InFlight
         = (1 .. notes) \ missed

(* NotificationsKept is Line, on a live connection.                          *)
LEMMA KeptLine == (NotificationsKept <=> (~broken => Line)) /\ (NotificationsKept' <=> (~broken' => Line'))
<1>1. NotificationsKept <=> (~broken => Line)
  BY DEF NotificationsKept, Line, WireOrdered
<1>2. NotificationsKept' <=> (~broken' => Line')
  BY DEF NotificationsKept, Line, WireOrdered
<1> QED BY <1>1, <1>2

(* A step that moves no notification.                                        *)
LEMMA SameNoted ==
    ASSUME Noted, UNCHANGED <<noteVars, notes, broken>>,
           InFlight' = InFlight, WireOrdered => WireOrdered',
           held # 0 => UNCHANGED <<job, at>>,
           job' = "wait_for_notification" => job = "wait_for_notification" /\ (at = "drain" => at' = "drain")
    PROVE  Noted'
<1>1. UNCHANGED <<notification_queue, delivered, held, missed, notes, broken>>
  BY DEF noteVars
<1>2. Waiting'
  BY <1>1 DEF Noted, Waiting
<1>3. UNCHANGED <<Elements(delivered), Elements(notification_queue), Held, Increasing(delivered),
                  Increasing(notification_queue)>>
  BY <1>1 DEF Elements, Held, Increasing
<1>4. Line => Line'
  BY <1>1, <1>3 DEF Line
<1> QED BY <1>1, <1>2, <1>4, KeptLine DEF Noted

(* ... in particular one that neither sends nor reads.                       *)
LEMMA QuietNoted ==
    ASSUME Noted, UNCHANGED <<noteVars, notes, broken, wire>>,
           held # 0 => UNCHANGED <<job, at>>,
           job' = "wait_for_notification" => job = "wait_for_notification" /\ (at = "drain" => at' = "drain")
    PROVE  Noted'
<1>1. InFlight' = InFlight
  BY DEF InFlight, IsNote
<1>2. WireOrdered => WireOrdered'
  BY DEF WireOrdered, IsNote
<1> QED BY <1>1, <1>2, SameNoted

(* ... and one that reads something else.                                    *)
LEMMA OtherNoted ==
    ASSUME Typed, Noted, NEW kinds, Read(kinds), Head(wire).kind # "NotificationResponse",
           UNCHANGED noteVars,
           held # 0 => UNCHANGED <<job, at>>,
           job' = "wait_for_notification" => job = "wait_for_notification" /\ (at = "drain" => at' = "drain")
    PROVE  Noted'
<1>1. /\ wire # <<>> /\ wire' = Tail(wire) /\ UNCHANGED <<broken, notes>> /\ wire \in Seq(Message)
  BY ReadParts DEF Typed
<1>2. InFlight' = InFlight /\ (WireOrdered => WireOrdered')
  BY <1>1, FlightRead
<1> QED BY <1>1, <1>2, SameNoted

(* Calls begin and handles are dropped.                                      *)
LEMMA StartNoted ==
    ASSUME Typed, Control, Noted,
           \/ query_stream \/ query_prepared_stream \/ query_params_stream
           \/ batch_execute \/ query_params \/ query_prepared \/ prepare \/ close_statement
           \/ pipeline \/ copy_in \/ copy_out \/ query_cursor \/ query_cursor_stream \/ recover
           \/ next \/ fetch_next \/ fetch_batch \/ cursor_close \/ close_portal \/ consume
           \/ finish \/ copy_cancel \/ read_next \/ DropHandle
    PROVE  Noted'
<1> DEFINE Begins == /\ at = "rest" /\ UNCHANGED <<noteVars, notes, broken, wire>>
                     /\ job' = "wait_for_notification" => job' = job
<1>1. ASSUME NEW j, j # "wait_for_notification", StartStream(j) \/ StartCall(j) PROVE Begins
  BY <1>1 DEF StartStream, StartCall, RecoverFirst, Transition, Suspend, Return, Free, serverVars
<1>2. ASSUME NEW h, StartCursor(h) PROVE Begins
  BY <1>2 DEF StartCursor, RecoverFirst, Transition, Suspend, Return, Free, serverVars
<1>3. ASSUME NEW h, NEW hs, NEW j, j # "wait_for_notification", StartHandleCall(h, hs, j) PROVE Begins
  BY <1>3 DEF StartHandleCall, Transition, Suspend, Return, serverVars
<1>4. ASSUME recover \/ next \/ consume \/ finish \/ copy_cancel \/ read_next \/ DropHandle PROVE Begins
  BY <1>4 DEF recover, next, consume, finish, copy_cancel, read_next, StartCopyEnd, DropHandle,
              RecoverFirst, Transition, Suspend, Return, Free, serverVars, callVars
<1>5. Begins
  <2>1. CASE query_stream \/ query_prepared_stream \/ query_params_stream \/ batch_execute
             \/ query_params \/ query_prepared
    BY <1>1, <2>1 DEF query_stream, query_prepared_stream, query_params_stream, batch_execute,
                      query_params, query_prepared
  <2>2. CASE prepare \/ close_statement \/ pipeline \/ copy_in \/ copy_out
    BY <1>1, <2>2 DEF prepare, close_statement, pipeline, copy_in, copy_out
  <2>3. CASE query_cursor \/ query_cursor_stream
    BY <1>2, <2>3 DEF query_cursor, query_cursor_stream
  <2>4. CASE fetch_next \/ fetch_batch \/ cursor_close \/ close_portal
    BY <1>3, <2>4 DEF fetch_next, fetch_batch, cursor_close, close_portal
  <2> QED BY <1>4, <2>1, <2>2, <2>3, <2>4
<1>6. job = "none" /\ held = 0
  BY <1>5 DEF Control, Awaits, Noted, Waiting
<1> QED BY <1>5, <1>6, QuietNoted

(* The calls' own reads.                                                     *)
LEMMA ReadsNoted ==
    ASSUME Typed, Control, Noted,
           \/ Discard \/ NextReads \/ PreambleEnds \/ FetchCompletes \/ CopyStarts \/ CopyReads
           \/ ReadError \/ ReadReady \/ RecoverReady \/ WaitReadsOther
    PROVE  Noted'
<1>0. /\ at # "drain" => held = 0
      /\ at # "rest" => job # "none"
  BY DEF Noted, Waiting, Control, Awaits
<1>1. CASE Discard
  <2>1. /\ Read({Head(wire).kind}) /\ Head(wire).kind # "NotificationResponse"
        /\ UNCHANGED <<noteVars, job, at>>
    BY <1>1 DEF Discard, callVars
  <2> QED BY <2>1, OtherNoted
<1>2. CASE NextReads
  <2> DEFINE K == {"RowDescription", "CommandComplete", "EmptyQueryResponse", "DataRow"}
  <2>1. /\ Read(K) /\ UNCHANGED noteVars /\ at = "read" /\ job = "next"
        /\ job' \in {"next", "none"}
    BY <1>2 DEF NextReads, Read, callVars, Return
  <2>2. Head(wire).kind # "NotificationResponse"
    BY <2>1 DEF Read
  <2> QED BY <1>0, <2>1, <2>2, OtherNoted
<1>3. CASE PreambleEnds
  <2> DEFINE K == Heeds \ {"ErrorResponse"}
  <2>1. Read(K) /\ UNCHANGED noteVars /\ at = "read" /\ job = "query_params_stream" /\ job' = "none"
    BY <1>3 DEF PreambleEnds, Return
  <2>2. Head(wire).kind # "NotificationResponse"
    BY <2>1, HeedsParts DEF Read, Reading
  <2> QED BY <1>0, <2>1, <2>2, OtherNoted
<1>4. CASE FetchCompletes
  <2>1. Read({"CommandComplete"}) /\ UNCHANGED <<noteVars, job, at>>
    BY <1>4 DEF FetchCompletes, callVars
  <2>2. Head(wire).kind # "NotificationResponse"
    BY <2>1 DEF Read
  <2> QED BY <2>1, <2>2, OtherNoted
<1>5. CASE CopyStarts
  <2> DEFINE K == {"CopyInResponse", "CopyOutResponse", "RowDescription", "CommandComplete",
                   "EmptyQueryResponse"}
  <2>1. /\ Read(K) /\ UNCHANGED noteVars /\ at = "read" /\ job \in {"copy_in", "copy_out"}
        /\ job' \in {job, "none"}
    BY <1>5 DEF CopyStarts, Read, Return, Suspend
  <2>2. Head(wire).kind # "NotificationResponse"
    BY <2>1 DEF Read
  <2> QED BY <1>0, <2>1, <2>2, OtherNoted
<1>6. CASE CopyReads
  <2>1. Read({"CopyData"}) /\ UNCHANGED noteVars /\ at = "read" /\ job' = "none"
    BY <1>6 DEF CopyReads, Return
  <2>2. Head(wire).kind # "NotificationResponse"
    BY <2>1 DEF Read
  <2> QED BY <1>0, <2>1, <2>2, OtherNoted
<1>7. CASE ReadError
  <2>1. /\ Read({"ErrorResponse"}) /\ UNCHANGED noteVars /\ at = "read" /\ job # "wait_for_notification"
        /\ job' = job
    BY <1>7 DEF ReadError, Suspend
  <2>2. Head(wire).kind # "NotificationResponse"
    BY <2>1 DEF Read
  <2> QED BY <1>0, <2>1, <2>2, OtherNoted
<1>8. CASE ReadReady
  <2>1. Read({"ReadyForQuery"}) /\ UNCHANGED noteVars /\ at = "read"
    BY <1>8 DEF ReadReady
  <2>2. job' # "wait_for_notification"
    <3>1. CASE job = "begin"
      BY <1>8, <3>1 DEF ReadReady, Transition, Suspend, Return
    <3>2. CASE job = "close_cursor" /\ owns_transaction
      BY <1>8, <3>2 DEF ReadReady, RecoverFirst, Transition, Suspend, Return
    <3>3. CASE job # "begin" /\ ~(job = "close_cursor" /\ owns_transaction)
      BY <1>8, <3>3 DEF ReadReady, Return
    <3> QED BY <3>1, <3>2, <3>3
  <2>3. Head(wire).kind # "NotificationResponse"
    BY <2>1 DEF Read
  <2> QED BY <1>0, <2>1, <2>2, <2>3, OtherNoted
<1>9. CASE RecoverReady
  <2>1. Read({"ReadyForQuery"}) /\ UNCHANGED noteVars /\ at = "recover" /\ job' \in {job, "none"}
    BY <1>9 DEF RecoverReady, Transition, Suspend, Return
  <2>2. Head(wire).kind # "NotificationResponse"
    BY <2>1 DEF Read
  <2> QED BY <1>0, <2>1, <2>2, OtherNoted
<1>10. CASE WaitReadsOther
  <2>1. /\ Read({Head(wire).kind}) /\ Head(wire).kind # "NotificationResponse"
        /\ UNCHANGED noteVars /\ at = "notification" /\ job' \in {job, "none"}
    BY <1>10 DEF WaitReadsOther, callVars, Return
  <2> QED BY <1>0, <2>1, OtherNoted
<1> QED BY <1>1, <1>2, <1>3, <1>4, <1>5, <1>6, <1>7, <1>8, <1>9, <1>10

(* A request goes out, a stream goes with its future.                        *)
LEMMA SentNoted ==
    ASSUME Noted, Sent \/ CancelNextDrain
    PROVE  Noted'
<1>1. /\ UNCHANGED <<noteVars, notes, broken, wire>>
      /\ at = "send" \/ job = "next"
      /\ job' = job \/ job' = "none"
      /\ job' = "wait_for_notification" => at # "drain"
  BY DEF Sent, CancelNextDrain, Suspend, Return, serverVars
<1>2. held = 0
  BY <1>1 DEF Noted, Waiting
<1> QED BY <1>1, <1>2, QuietNoted

(* The server's other messages.                                              *)
LEMMA ServerNoted ==
    ASSUME Typed, Noted, ServerSend \/ ServerNotices
    PROVE  Noted'
<1>1. UNCHANGED <<noteVars, notes, broken, job, at>> /\ wire \in Seq(Message)
  BY DEF ServerSend, ServerNotices, callVars, serverVars, Typed
<1>2. PICK m \in Message : m.kind # "NotificationResponse" /\ wire' = Append(wire, m)
  <2>1. CASE ServerSend
    <3>1. PICK p \in Phases : \E s \in Say(p) :
            Msg(s[1], stx', 0) \in Message /\ wire' = Append(wire, Msg(s[1], stx', 0))
      BY <2>1, SendParts
    <3>2. PICK s \in Say(p) : Msg(s[1], stx', 0) \in Message /\ wire' = Append(wire, Msg(s[1], stx', 0))
      BY <3>1
    <3>3. s[1] # "NotificationResponse"
      BY SayType
    <3>4. Msg(s[1], stx', 0).kind # "NotificationResponse"
      BY <3>3 DEF Msg
    <3> QED BY <3>2, <3>4
  <2>2. CASE ServerNotices
    <3> DEFINE m == Msg("Ack", "Idle", 0)
    <3>1. m \in Message /\ m.kind # "NotificationResponse"
      BY BoundsAssumption DEF Msg, Message, Kinds, TransactionStatus
    <3>2. wire = <<>> /\ wire' = <<m>>
      BY <2>2 DEF ServerNotices
    <3> HIDE DEF m
    <3>3. wire' = Append(wire, m)
      BY <3>2
    <3> QED BY <3>1, <3>3
  <2> QED BY <2>1, <2>2
<1>3. InFlight' = InFlight /\ (WireOrdered => WireOrdered')
  BY <1>1, <1>2, FlightSent
<1> QED BY <1>1, <1>3, SameNoted

(* The numbers are numbers: nothing comes before itself.                     *)
LEMMA NoteNumbers ==
    ASSUME Typed
    PROVE  /\ Elements(delivered) \subseteq Notes /\ Elements(notification_queue) \subseteq Notes
           /\ InFlight \subseteq Notes /\ Held \subseteq Notes
           /\ \A n \in Notes : n \in Int /\ ~(n < n)
<1>1. ASSUME NEW s \in Seq(Notes) PROVE Elements(s) \subseteq Notes
  BY <1>1, ElementOfSeq, LenProperties DEF Elements
<1>2. Elements(delivered) \subseteq Notes /\ Elements(notification_queue) \subseteq Notes
  BY <1>1 DEF Typed, Notes
<1>3. InFlight \subseteq Notes
  <2> SUFFICES ASSUME NEW x \in InFlight PROVE x \in Notes
    OBVIOUS
  <2>1. PICK i \in DOMAIN wire : wire[i].kind = "NotificationResponse" /\ x = wire[i].note
    BY FlightMembers DEF IsNote
  <2>2. wire[i] \in Message
    BY ElementOfSeq, LenProperties DEF Typed
  <2>3. x \in 0 .. MaxNotes /\ x # 0
    BY <2>1, <2>2 DEF Message
  <2> QED BY <2>3, BoundsAssumption DEF Notes
<1>4. Held \subseteq Notes
  <2>1. held \in 0 .. MaxNotes
    BY DEF Typed
  <2>2. held # 0 => held \in Notes
    BY <2>1, BoundsAssumption DEF Notes
  <2> QED BY <2>2 DEF Held
<1>5. \A n \in Notes : n \in Int /\ ~(n < n)
  BY BoundsAssumption DEF Notes
<1> QED BY <1>2, <1>3, <1>4, <1>5

(* A notification is sent.                                                   *)
LEMMA NotifiesNoted ==
    ASSUME Typed, Noted, ServerNotifies
    PROVE  Noted'
<1> DEFINE m == Msg("NotificationResponse", "Idle", notes')
<1>1. /\ ~broken /\ notes' = notes + 1 /\ notes < MaxNotes /\ wire' = Append(wire, m)
      /\ UNCHANGED <<notification_queue, delivered, held, missed, job, at, broken>>
  BY DEF ServerNotifies, noteVars, callVars
<1>2. notes \in Nat /\ notes' \in 0 .. MaxNotes /\ notes' # 0 /\ wire \in Seq(Message)
      /\ missed \subseteq 1 .. notes
  BY <1>1, BoundsAssumption DEF Typed, Noted, Waiting
<1>3. m \in Message /\ m.kind = "NotificationResponse" /\ m.note = notes'
  BY <1>2 DEF Msg, Message, Kinds, TransactionStatus
<1> HIDE DEF m
<1>4. Line
  BY <1>1, KeptLine DEF Noted
<1>5. /\ (1 .. notes') \ missed = ((1 .. notes) \ missed) \cup {notes'}
      /\ \A x \in (1 .. notes) \ missed : x < notes'
  BY <1>1, <1>2
<1>6. /\ InFlight' = InFlight \cup {notes'}
      /\ WireOrdered /\ Before(InFlight, {notes'}) => WireOrdered'
  BY <1>1, <1>2, <1>3, FlightSent
<1>7. UNCHANGED <<Elements(delivered), Elements(notification_queue), Held, Increasing(delivered),
                  Increasing(notification_queue)>>
  BY <1>1 DEF Elements, Held, Increasing
<1>8. \A x \in Elements(delivered) \cup Held \cup Elements(notification_queue) \cup InFlight : x < notes'
  BY <1>4, <1>5 DEF Line
<1>9. WireOrdered'
  BY <1>4, <1>6, <1>8 DEF Line, Before
<1>10. Line'
  <2>1. /\ Before(Elements(delivered), Held \cup Elements(notification_queue) \cup InFlight)'
        /\ Before(Held, Elements(notification_queue) \cup InFlight)'
        /\ Before(Elements(notification_queue), InFlight)'
    BY <1>4, <1>6, <1>7, <1>8 DEF Line, Before
  <2>2. (Elements(delivered) \cup Held \cup Elements(notification_queue) \cup InFlight)'
          = (1 .. notes') \ missed'
    BY <1>1, <1>4, <1>5, <1>6, <1>7 DEF Line
  <2> QED BY <1>4, <1>7, <1>9, <2>1, <2>2 DEF Line
<1>11. Waiting'
  <2>1. missed' \subseteq 1 .. notes'
    BY <1>1, <1>2
  <2> QED BY <1>1, <2>1 DEF Noted, Waiting
<1> QED BY <1>10, <1>11, KeptLine DEF Noted

(* A loop queues the notification it reads.                                  *)
LEMMA QueuedNoted ==
    ASSUME Typed, Control, Noted, ReadNotification
    PROVE  Noted'
<1> DEFINE n == Head(wire).note
<1>1. /\ Read({"NotificationResponse"}) /\ ~(job = "wait_for_notification" /\ at = "read") /\ Reading
      /\ notification_queue' = Append(notification_queue, n)
      /\ UNCHANGED <<delivered, held, missed, job, at>>
  BY DEF ReadNotification, callVars
<1>2. /\ Head(wire).kind = "NotificationResponse" /\ n \in Notes /\ UNCHANGED <<broken, notes>>
      /\ wire # <<>> /\ wire' = Tail(wire) /\ wire \in Seq(Message)
      /\ notification_queue \in Seq(Notes)
  BY <1>1, ReadParts DEF Typed, Notes
<1>3. Waiting'
  <2>1. job = "wait_for_notification" => at = "drain"
    BY <1>1 DEF Control, Awaits, RecoverJobs, Reading
  <2> QED BY <1>1, <1>2, <2>1 DEF Noted, Waiting
<1>4. /\ InFlight = {n} \cup InFlight'
      /\ WireOrdered => WireOrdered' /\ Before({n}, InFlight')
  BY <1>2, FlightRead
<1>5. /\ Elements(notification_queue') = Elements(notification_queue) \cup {n}
      /\ Increasing(notification_queue) /\ Before(Elements(notification_queue), {n})
           => Increasing(notification_queue')
  BY <1>1, <1>2, NoteAppended
<1> HIDE DEF n
<1>6. UNCHANGED <<Elements(delivered), Held, Increasing(delivered)>>
  BY <1>1 DEF Elements, Held, Increasing
<1>7. Line => Line'
  <2> SUFFICES ASSUME Line PROVE Line'
    OBVIOUS
  <2>1. WireOrdered' /\ Before({n}, InFlight')
    BY <1>4 DEF Line
  <2>2. Increasing(notification_queue')
    BY <1>4, <1>5 DEF Line, Before
  <2>3. /\ Before(Elements(delivered), Held \cup Elements(notification_queue') \cup InFlight')
        /\ Before(Held, Elements(notification_queue') \cup InFlight')
        /\ Before(Elements(notification_queue'), InFlight')
    BY <1>4, <1>5, <2>1 DEF Line, Before
  <2>4. Elements(delivered) \cup Held \cup Elements(notification_queue') \cup InFlight'
          = (1 .. notes) \ missed
    BY <1>4, <1>5 DEF Line
  <2> QED BY <1>1, <1>2, <1>6, <2>1, <2>2, <2>3, <2>4 DEF Line, Increasing, Elements, Held
<1> QED BY <1>2, <1>3, <1>7, KeptLine DEF Noted

(* A wait reads its notification.                                            *)
LEMMA WaitNoted ==
    ASSUME Typed, Control, Noted, WaitReadsNotification
    PROVE  Noted'
<1> DEFINE n == Head(wire).note
<1>1. /\ Read({"NotificationResponse"}) /\ job = "wait_for_notification" /\ at \in {"read", "notification"}
      /\ \/ at = "read" /\ held' = n /\ job' = job /\ at' = "drain" /\ UNCHANGED delivered
         \/ /\ at = "notification" /\ delivered' = Append(delivered, n)
            /\ job' = "none" /\ at' = "rest" /\ UNCHANGED held
      /\ UNCHANGED <<notification_queue, missed>>
  BY DEF WaitReadsNotification, Suspend, Return
<1>2. /\ Head(wire).kind = "NotificationResponse" /\ n \in Notes /\ UNCHANGED <<broken, notes>>
      /\ wire # <<>> /\ wire' = Tail(wire) /\ wire \in Seq(Message) /\ delivered \in Seq(Notes)
  BY <1>1, ReadParts DEF Typed, Notes
<1>3. held = 0 /\ notification_queue = <<>>
  BY <1>1 DEF Noted, Waiting
<1>4. /\ InFlight = {n} \cup InFlight'
      /\ WireOrdered => WireOrdered' /\ Before({n}, InFlight')
  BY <1>2, FlightRead
<1>5. /\ Elements(Append(delivered, n)) = Elements(delivered) \cup {n}
      /\ Increasing(delivered) /\ Before(Elements(delivered), {n}) => Increasing(Append(delivered, n))
  BY <1>2, NoteAppended
<1>6. n # 0
  BY <1>2, BoundsAssumption DEF Notes
<1> HIDE DEF n
<1>7. Waiting'
  BY <1>1, <1>2, <1>3 DEF Noted, Waiting
<1>8. /\ Held = {} /\ Elements(notification_queue) = {} /\ Elements(notification_queue') = {}
      /\ Increasing(notification_queue')
  BY <1>1, <1>3 DEF Held, Elements, Increasing
<1>9. Line => Line'
  <2> SUFFICES ASSUME Line PROVE Line'
    OBVIOUS
  <2>1. WireOrdered' /\ Before({n}, InFlight')
    BY <1>4 DEF Line
  <2>2. Before(Elements(delivered), {n} \cup InFlight') /\ Elements(delivered) \cup {n} \cup InFlight'
          = (1 .. notes) \ missed
    BY <1>4, <1>8 DEF Line, Before
  <2>3. CASE at = "read"
    <3>1. Held' = {n} /\ UNCHANGED delivered
      BY <1>1, <1>6, <2>3 DEF Held
    <3>2. /\ Before(Elements(delivered'), Held' \cup Elements(notification_queue') \cup InFlight')
          /\ Before(Held', Elements(notification_queue') \cup InFlight')
          /\ Before(Elements(notification_queue'), InFlight')
      BY <1>8, <2>1, <2>2, <3>1 DEF Before
    <3>3. Elements(delivered') \cup Held' \cup Elements(notification_queue') \cup InFlight'
            = (1 .. notes') \ missed'
      BY <1>1, <1>2, <1>8, <2>2, <3>1
    <3>4. Increasing(delivered')
      BY <3>1 DEF Line
    <3> QED BY <1>8, <2>1, <3>2, <3>3, <3>4 DEF Line, Elements, Increasing
  <2>4. CASE at = "notification"
    <3>1. Held' = {} /\ delivered' = Append(delivered, n)
      BY <1>1, <1>3, <2>4 DEF Held
    <3>2. Elements(delivered') = Elements(delivered) \cup {n} /\ Increasing(delivered')
      BY <1>5, <2>2, <3>1 DEF Line, Before
    <3>3. /\ Before(Elements(delivered'), Held' \cup Elements(notification_queue') \cup InFlight')
          /\ Before(Held', Elements(notification_queue') \cup InFlight')
          /\ Before(Elements(notification_queue'), InFlight')
      BY <1>8, <2>1, <2>2, <3>1, <3>2 DEF Before
    <3>4. Elements(delivered') \cup Held' \cup Elements(notification_queue') \cup InFlight'
            = (1 .. notes') \ missed'
      BY <1>1, <1>2, <1>8, <2>2, <3>1, <3>2
    <3> QED BY <1>8, <2>1, <3>2, <3>3, <3>4 DEF Line, Elements, Increasing
  <2> QED BY <1>1, <2>3, <2>4
<1> QED BY <1>2, <1>7, <1>9, KeptLine DEF Noted

(* The wait returns what it held.                                            *)
LEMMA DrainNoted ==
    ASSUME Typed, Noted, DrainReady
    PROVE  Noted'
<1>1. /\ Read({"ReadyForQuery"}) /\ job' = "none" /\ at' = "rest" /\ held' = 0
      /\ delivered' = (IF held = 0 THEN delivered ELSE Append(delivered, held))
      /\ UNCHANGED <<notification_queue, missed>>
  BY DEF DrainReady, Return
<1>2. /\ Head(wire).kind # "NotificationResponse" /\ UNCHANGED <<broken, notes>>
      /\ wire # <<>> /\ wire' = Tail(wire) /\ wire \in Seq(Message) /\ delivered \in Seq(Notes)
  BY <1>1, ReadParts DEF Typed, Notes
<1>3. InFlight' = InFlight /\ (WireOrdered => WireOrdered')
  BY <1>2, FlightRead
<1>4. Waiting'
  BY <1>1, <1>2 DEF Noted, Waiting
<1>5. UNCHANGED <<Elements(notification_queue), Increasing(notification_queue)>> /\ Held' = {}
  BY <1>1 DEF Elements, Increasing, Held
<1>6. Line => Elements(delivered') = Elements(delivered) \cup Held /\ Increasing(delivered')
  <2> SUFFICES ASSUME Line PROVE Elements(delivered') = Elements(delivered) \cup Held /\ Increasing(delivered')
    OBVIOUS
  <2>1. CASE held = 0
    BY <1>1, <2>1 DEF Held, Line
  <2>2. CASE held # 0
    <3>1. Held = {held} /\ held \in Notes /\ delivered' = Append(delivered, held)
      BY <1>1, <2>2, NoteNumbers DEF Held
    <3> QED BY <1>2, <3>1, NoteAppended DEF Line, Before
  <2> QED BY <2>1, <2>2
<1>7. Line => Line'
  <2> SUFFICES ASSUME Line PROVE Line'
    OBVIOUS
  <2>1. /\ Before(Elements(delivered'), Held' \cup Elements(notification_queue') \cup InFlight')
        /\ Before(Held', Elements(notification_queue') \cup InFlight')
        /\ Before(Elements(notification_queue'), InFlight')
    BY <1>1, <1>3, <1>5, <1>6 DEF Line, Before
  <2>2. Elements(delivered') \cup Held' \cup Elements(notification_queue') \cup InFlight'
          = (1 .. notes') \ missed'
    BY <1>1, <1>2, <1>3, <1>5, <1>6 DEF Line
  <2> QED BY <1>1, <1>3, <1>5, <1>6, <2>1, <2>2 DEF Line, Elements, Increasing
<1> QED BY <1>2, <1>4, <1>7, KeptLine DEF Noted

(* notifications() takes all of the queue, wait_for_notification() its first *)
(* or nothing.                                                               *)
LEMMA TakeNoted ==
    ASSUME Typed, Control, Noted, notifications \/ wait_for_notification
    PROVE  Noted'
<1>0. /\ at = "rest" /\ job = "none" /\ held = 0 /\ Held = {}
      /\ delivered \in Seq(Notes) /\ notification_queue \in Seq(Notes)
      /\ UNCHANGED <<held, missed, wire, notes, broken>>
  BY DEF notifications, wait_for_notification, Free, Control, Awaits, Noted, Waiting, Held, serverVars,
         Typed, Notes
<1>1. InFlight' = InFlight /\ (WireOrdered => WireOrdered') /\ Held' = {}
  BY <1>0 DEF InFlight, IsNote, WireOrdered, Held
<1>2. ASSUME UNCHANGED <<job, at>>,
             Line => /\ Increasing(delivered') /\ Increasing(notification_queue')
                     /\ Before(Elements(delivered'), Elements(notification_queue') \cup InFlight)
                     /\ Elements(notification_queue') \subseteq Elements(notification_queue)
                     /\ Elements(delivered') \cup Elements(notification_queue')
                          = Elements(delivered) \cup Elements(notification_queue)
      PROVE  Noted'
  <2>1. Waiting'
    BY <1>0, <1>2 DEF Noted, Waiting
  <2>2. Line => Line'
    <3> SUFFICES ASSUME Line PROVE Line'
      OBVIOUS
    <3>1. /\ Before(Elements(delivered'), Held' \cup Elements(notification_queue') \cup InFlight')
          /\ Before(Held', Elements(notification_queue') \cup InFlight')
          /\ Before(Elements(notification_queue'), InFlight')
      BY <1>1, <1>2 DEF Line, Before
    <3>2. Elements(delivered') \cup Held' \cup Elements(notification_queue') \cup InFlight'
            = (1 .. notes') \ missed'
      BY <1>0, <1>1, <1>2 DEF Line
    <3> QED BY <1>1, <1>2, <3>1, <3>2 DEF Line, Elements, Increasing
  <2> QED BY <1>0, <2>1, <2>2, KeptLine DEF Noted
<1>3. CASE notifications
  <2>1. delivered' = delivered \o notification_queue /\ notification_queue' = <<>> /\ UNCHANGED <<job, at>>
    BY <1>3 DEF notifications, callVars
  <2>2. Elements(notification_queue') = {} /\ Increasing(notification_queue')
    BY <2>1 DEF Elements, Increasing
  <2>3. /\ Elements(delivered') = Elements(delivered) \cup Elements(notification_queue)
        /\ Line => Increasing(delivered')
    BY <1>0, <2>1, NotesJoined DEF Line, Before
  <2>4. Line => Before(Elements(delivered'), Elements(notification_queue') \cup InFlight)
    BY <2>2, <2>3 DEF Line, Before
  <2> QED BY <1>2, <2>1, <2>2, <2>3, <2>4
<1>4. CASE wait_for_notification /\ notification_queue # <<>>
  <2> DEFINE n == Head(notification_queue)
  <2>1. /\ delivered' = Append(delivered, n) /\ notification_queue' = Tail(notification_queue)
        /\ UNCHANGED <<job, at>>
    BY <1>4 DEF wait_for_notification, callVars
  <2>2. /\ n \in Notes
        /\ Elements(notification_queue) = {n} \cup Elements(notification_queue')
        /\ Increasing(notification_queue) =>
             Increasing(notification_queue') /\ Before({n}, Elements(notification_queue'))
    BY <1>0, <1>4, <2>1, NoteTaken
  <2>3. /\ Elements(delivered') = Elements(delivered) \cup {n}
        /\ Increasing(delivered) /\ Before(Elements(delivered), {n}) => Increasing(delivered')
    BY <1>0, <2>1, <2>2, NoteAppended
  <2> HIDE DEF n
  <2>4. Line => /\ Increasing(delivered') /\ Increasing(notification_queue')
                /\ Before(Elements(delivered'), Elements(notification_queue') \cup InFlight)
    BY <2>2, <2>3 DEF Line, Before
  <2> QED BY <1>2, <2>1, <2>2, <2>3, <2>4
<1>5. CASE wait_for_notification /\ notification_queue = <<>>
  <2>1. UNCHANGED <<delivered, notification_queue>>
    BY <1>5 DEF wait_for_notification
  <2>2. Waiting'
    BY <1>0, <1>5, <2>1 DEF Noted, Waiting
  <2>3. Line => Line'
    BY <1>0, <1>1, <2>1 DEF Line, Elements, Increasing
  <2> QED BY <1>0, <2>2, <2>3, KeptLine DEF Noted
<1> QED BY <1>3, <1>4, <1>5

(* The notification an abandoned wait held goes with it.                     *)
LEMMA AbandonNoted ==
    ASSUME Typed, Noted, Cancel \/ IoError
    PROVE  Noted'
<1>1. /\ job' = "none" /\ at' = "rest" /\ held' = 0
      /\ missed' = (IF held = 0 THEN missed ELSE missed \cup {held})
      /\ UNCHANGED <<notification_queue, delivered, wire, broken, notes>>
  BY DEF Cancel, IoError, Abandon, Return
<1>2. /\ UNCHANGED <<InFlight, Elements(delivered), Elements(notification_queue), Increasing(delivered),
                     Increasing(notification_queue)>>
      /\ WireOrdered => WireOrdered'
      /\ Held' = {}
  BY <1>1 DEF InFlight, IsNote, WireOrdered, Held, Elements, Increasing
<1>3. missed' = missed \cup Held
  BY <1>1 DEF Held
<1>4. Line => Line'
  <2> SUFFICES ASSUME Line PROVE Line'
    OBVIOUS
  <2>1. \A x \in Held : x \notin Elements(delivered) \cup Elements(notification_queue) \cup InFlight
    BY NoteNumbers DEF Line, Before
  <2>2. Elements(delivered) \cup Elements(notification_queue) \cup InFlight
          = (1 .. notes) \ (missed \cup Held)
    BY <2>1 DEF Line
  <2>3. /\ Before(Elements(delivered), Held' \cup Elements(notification_queue) \cup InFlight)
        /\ Before(Held', Elements(notification_queue) \cup InFlight)
    BY <1>2 DEF Line, Before
  <2> QED BY <1>1, <1>2, <1>3, <2>2, <2>3 DEF Line
<1>5. Waiting'
  <2> SUFFICES ASSUME ~broken PROVE missed' \subseteq 1 .. notes'
    BY <1>1 DEF Waiting
  <2>1. missed \subseteq 1 .. notes /\ Line
    BY KeptLine DEF Noted, Waiting
  <2> QED BY <1>1, <1>3, <2>1 DEF Line
<1> QED BY <1>1, <1>4, <1>5, KeptLine DEF Noted

(* With the transport gone there is nothing left to keep.                    *)
LEMMA GoneNoted ==
    ASSUME Noted, TransportFails \/ Close
    PROVE  Noted'
<1>1. broken' = TRUE /\ UNCHANGED <<notification_queue, held, missed, notes, job, at>>
  BY DEF TransportFails, Close, Disconnect, noteVars, callVars
<1>2. Waiting'
  BY <1>1 DEF Noted, Waiting
<1> QED BY <1>1, <1>2 DEF Noted, NotificationsKept

-----------------------------------------------------------------------------
(* The theorems.                                                             *)

(* A connection that has just been made.                                     *)
LEMMA InitConnection == Init => ConnectionInv
<1> SUFFICES ASSUME Init PROVE ConnectionInv
  OBVIOUS
<1>1. /\ tokio \in BOOLEAN /\ state = "Idle" /\ needs_recovery = FALSE /\ transaction_status = "Idle"
      /\ notification_queue = <<>> /\ delivered = <<>> /\ held = 0 /\ missed = {}
      /\ job = "none" /\ at = "rest"
      /\ handle = "none" /\ hstate = "Done" /\ owns_transaction = FALSE
      /\ wire = <<>> /\ srv = <<>> /\ stx = "Idle" /\ broken = FALSE /\ notes = 0
  BY InputsAssumption DEF Init
<1>2. Typed
  <2>1. wire \in Seq(Message) /\ notification_queue \in Seq(1 .. MaxNotes) /\ delivered \in Seq(1 .. MaxNotes)
        /\ Len(wire) = 0
    BY <1>1, EmptySeq
  <2>2. notes \in 0 .. MaxNotes /\ held \in 0 .. MaxNotes /\ Len(wire) <= MaxWire
    BY <1>1, <2>1, BoundsAssumption
  <2> QED BY <1>1, <2>1, <2>2 DEF Typed, ConnectionState, TransactionStatus
<1>3. Control /\ Recovery
  BY <1>1 DEF Control, Awaits, Holds, HandleStates, Jobs, CopyEnds, Recovery
<1>4. ~Has(wire, {"ReadyForQuery"}) /\ Only(wire, Async) /\ ~Owed
  BY <1>1 DEF Has, Only, Owed
<1>5. Protocol
  <2>1. Answer
    BY <1>1, <1>4 DEF Answer
  <2>2. Turn /\ Stops /\ Copying /\ Portal
    BY <1>1, <1>4 DEF Turn, Stops, Copying, Portal, Reading, In, Cursors
  <2> QED BY <2>1, <2>2 DEF Protocol
<1>6. Waiting
  BY <1>1 DEF Waiting
<1>7. NotificationsKept
  <2>1. Elements(delivered) = {} /\ Elements(notification_queue) = {} /\ Held = {} /\ InFlight = {}
    BY <1>1 DEF Elements, Held, InFlight
  <2>2. Increasing(delivered) /\ Increasing(notification_queue) /\ WireOrdered
    BY <1>1 DEF Increasing, WireOrdered
  <2>3. (1 .. notes) \ missed = {}
    BY <1>1
  <2>4. Line
    BY <2>1, <2>2, <2>3 DEF Line, Before
  <2> QED BY <2>4, KeptLine
<1> QED BY <1>2, <1>3, <1>5, <1>6, <1>7 DEF ConnectionInv, Exchange, Noted

(* Every step keeps client and server in agreement.                          *)
LEMMA NextExchange ==
    ASSUME Careful, Exchange, Next
    PROVE  Exchange'
<1>1. CASE ServerSend \/ ServerNotifies \/ ServerNotices
  BY <1>1, ServerExchange
<1>2. CASE TransportFails \/ Close
  BY <1>2, GoneExchange
<1>3. CASE query_stream \/ query_prepared_stream \/ query_params_stream
  BY <1>3, StartStreamExchange DEF query_stream, query_prepared_stream, query_params_stream
<1>4. CASE batch_execute \/ query_params \/ query_prepared \/ prepare
  BY <1>4, StartCallExchange DEF batch_execute, query_params, query_prepared, prepare
<1>5. CASE close_statement \/ pipeline \/ copy_in \/ copy_out
  BY <1>5, StartCallExchange DEF close_statement, pipeline, copy_in, copy_out
<1>6. CASE query_cursor \/ query_cursor_stream
  BY <1>6, StartCursorExchange DEF query_cursor, query_cursor_stream, Cursors
<1>7. CASE recover
  BY <1>7, RecoverExchange
<1>8. CASE fetch_next \/ fetch_batch \/ cursor_close \/ close_portal \/ consume
  BY <1>8, CursorCallExchange
<1>9. CASE next \/ finish \/ copy_cancel \/ read_next
  BY <1>9, GoOnExchange
<1>10. CASE Sent
  BY <1>10, SentExchange
<1>11. CASE ReadNotification \/ Discard
  BY <1>11, ReadNotificationExchange, DiscardExchange
<1>12. CASE NextReads \/ PreambleEnds \/ FetchCompletes
  BY <1>12, NextReadsExchange, PreambleEndsExchange, FetchCompletesExchange
<1>13. CASE CopyStarts \/ CopyReads \/ ReadError
  BY <1>13, CopyStartsExchange, CopyReadsExchange, ReadErrorExchange
<1>14. CASE ReadReady \/ DrainReady \/ RecoverReady
  BY <1>14, ReadReadyExchange, DrainReadyExchange, RecoverReadyExchange
<1>15. CASE notifications \/ wait_for_notification
  BY <1>15, TakeExchange
<1>16. CASE WaitReadsNotification \/ WaitReadsOther
  BY <1>16, WaitReadsExchange
<1>17. CASE DropHandle \/ Cancel \/ CancelNextDrain \/ IoError
  BY <1>17, DropExchange, CancelExchange, CancelNextDrainExchange, IoErrorExchange
<1> QED BY <1>1, <1>2, <1>3, <1>4, <1>5, <1>6, <1>7, <1>8, <1>9, <1>10, <1>11, <1>12, <1>13, <1>14,
           <1>15, <1>16, <1>17 DEF Next

(* And every notification in its place.                                      *)
LEMMA NextNoted ==
    ASSUME Exchange, Noted, Next
    PROVE  Noted'
<1>0. Typed /\ Control
  BY DEF Exchange
<1>1. CASE ServerSend \/ ServerNotices
  BY <1>0, <1>1, ServerNoted
<1>2. CASE ServerNotifies \/ TransportFails \/ Close
  BY <1>0, <1>2, NotifiesNoted, GoneNoted
<1>3. CASE \/ query_stream \/ query_prepared_stream \/ query_params_stream
           \/ batch_execute \/ query_params \/ query_prepared \/ prepare \/ close_statement
           \/ pipeline \/ copy_in \/ copy_out \/ query_cursor \/ query_cursor_stream \/ recover
           \/ next \/ fetch_next \/ fetch_batch \/ cursor_close \/ close_portal \/ consume
           \/ finish \/ copy_cancel \/ read_next \/ DropHandle
  BY <1>0, <1>3, StartNoted
<1>4. CASE \/ Discard \/ NextReads \/ PreambleEnds \/ FetchCompletes \/ CopyStarts \/ CopyReads
           \/ ReadError \/ ReadReady \/ RecoverReady \/ WaitReadsOther
  BY <1>0, <1>4, ReadsNoted
<1>5. CASE Sent \/ CancelNextDrain
  BY <1>5, SentNoted
<1>6. CASE ReadNotification \/ WaitReadsNotification \/ DrainReady
  BY <1>0, <1>6, QueuedNoted, WaitNoted, DrainNoted
<1>7. CASE notifications \/ wait_for_notification
  BY <1>0, <1>7, TakeNoted
<1>8. CASE Cancel \/ IoError
  BY <1>0, <1>8, AbandonNoted
<1> QED BY <1>1, <1>2, <1>3, <1>4, <1>5, <1>6, <1>7, <1>8 DEF Next

(* ConnectionInv is inductive.                                               *)
LEMMA StepConnection ==
    ASSUME Careful, ConnectionInv, [Next]_vars
    PROVE  ConnectionInv'
<1>1. CASE Next
  BY <1>1, NextExchange, NextNoted DEF ConnectionInv
<1>2. CASE UNCHANGED vars
  <2>1. UNCHANGED <<tokio, connVars, noteVars, callVars, handleVars, wire, serverVars>>
    BY <1>2 DEF vars
  <2>2. UNCHANGED <<notes, broken, job, at>>
    BY <2>1 DEF serverVars, callVars
  <2>3. Typed'
    BY <2>1 DEF ConnectionInv, Exchange, Typed, connVars, noteVars, handleVars, serverVars
  <2>4. Exchange'
    BY <2>1, <2>3, SameExchange DEF ConnectionInv
  <2>5. Noted'
    BY <2>1, <2>2, QuietNoted DEF ConnectionInv
  <2> QED BY <2>4, <2>5 DEF ConnectionInv
<1> QED BY <1>1, <1>2

(* The inductive invariant holds in every reachable state.                   *)
THEOREM ConnectionInvariant ==
    ASSUME Careful
    PROVE  Spec => []ConnectionInv
<1>1. ConnectionInv /\ [Next]_vars => ConnectionInv'
  BY StepConnection
<1> QED BY <1>1, InitConnection, PTL DEF Spec

(* Every variable has its type, and calls, awaits and handles fit together.  *)
THEOREM ConnectionTypeCorrect ==
    ASSUME Careful
    PROVE  Spec => []TypeOK
<1>1. ConnectionInv => TypeOK
  <2> SUFFICES ASSUME ConnectionInv PROVE TypeOK
    OBVIOUS
  <2>1. Typed /\ Control
    BY DEF ConnectionInv, Exchange
  <2>2. Len(srv) <= 1
    <3>1. Len(<<>>) <= 1 /\ \A p : Len(<<p>>) <= 1
      BY EmptySeq
    <3> QED BY <2>1, <3>1 DEF Typed
  <2>3. (job = "none") = (at = "rest")
    BY <2>1 DEF Control, Awaits
  <2>4. missed \subseteq 1 .. MaxNotes
    BY <2>1 DEF Typed
  <2>5. owns_transaction => handle \in {"Cursor", "CursorStream"}
    BY <2>1 DEF Control, Cursors
  <2> QED BY <2>1, <2>2, <2>3, <2>4, <2>5 DEF TypeOK, Typed, Control
<1> QED BY <1>1, ConnectionInvariant, PTL

(* No call starts and no request goes out while part of an earlier answer is *)
(* outstanding, whatever was cancelled or dropped before (transition(),      *)
(* recover() and the needs_recovery flag).                                   *)
THEOREM ConnectionInSync ==
    ASSUME Careful
    PROVE  Spec => []InSync
<1>1. ConnectionInv => InSync
  <2> SUFFICES ASSUME ConnectionInv, Quiet
               PROVE  srv = <<>> /\ \A i \in DOMAIN wire : wire[i].kind \in {"NotificationResponse", "Ack"}
    BY DEF InSync
  <2>1. Answer /\ Turn /\ Typed
    BY DEF ConnectionInv, Exchange, Protocol, Quiet
  <2>2. ~Owed
    BY <2>1 DEF Quiet, Turn, CopyEnds
  <2>3. srv = <<>> /\ Only(wire, Async)
    BY <2>1, <2>2, OwedOrQuiet
  <2> QED BY <2>3 DEF Only, Async
<1> QED BY <1>1, ConnectionInvariant, PTL

(* transaction_status is then the server's own.                              *)
THEOREM ConnectionStatusAgrees ==
    ASSUME Careful
    PROVE  Spec => []StatusAgrees
<1>1. ConnectionInv => StatusAgrees
  <2> SUFFICES ASSUME ConnectionInv, Quiet PROVE transaction_status = stx
    BY DEF StatusAgrees
  <2>1. Answer /\ Turn
    BY DEF ConnectionInv, Exchange, Protocol, Quiet
  <2>2. ~Owed
    BY <2>1 DEF Quiet, Turn, CopyEnds
  <2> QED BY <2>1, <2>2 DEF Answer
<1> QED BY <1>1, ConnectionInvariant, PTL

(* A call that reads has something to read, or a server at work on it: no    *)
(* reading loop waits for a server that has said all it will.                *)
THEOREM ConnectionNoHang ==
    ASSUME Careful
    PROVE  Spec => []NoHang
<1>1. ConnectionInv => NoHang
  <2> SUFFICES ASSUME ConnectionInv, at \in {"read", "drain", "recover"}, ~broken, wire = <<>>
               PROVE  srv # <<>> /\ Head(srv) # "copying"
    BY DEF NoHang
  <2>1. Answer /\ Turn /\ Copying /\ Typed /\ Reading
    BY DEF ConnectionInv, Exchange, Protocol, Reading
  <2>2. srv # <<>>
    BY <2>1, OwedOrQuiet DEF Turn
  <2>3. ASSUME Head(srv) = "copying" PROVE FALSE
    <3>1. In({"copy_in", "copying"}) /\ ~In({"copy_in"})
      BY <2>2, <2>3 DEF In
    <3>2. Leads(wire, {"CopyInResponse"})
      BY <2>1, <3>1 DEF Copying, ComesNext
    <3> QED BY <3>2 DEF Leads
  <2> QED BY <2>2, <2>3
<1> QED BY <1>1, ConnectionInvariant, PTL

(* The portal of an open cursor has a transaction block on the server.       *)
THEOREM ConnectionPortalLives ==
    ASSUME Careful
    PROVE  Spec => []PortalLives
<1>1. ConnectionInv => PortalLives
  <2> SUFFICES ASSUME ConnectionInv, handle \in Cursors, hstate = "Active", ~broken, job # "commit"
               PROVE  stx # "Idle"
    BY DEF PortalLives, Cursors
  <2>1. Portal /\ Control
    BY DEF ConnectionInv, Exchange, Protocol
  <2>2. job # "begin"
    BY <2>1 DEF Control, Holds
  <2> QED BY <2>1, <2>2 DEF Portal
<1> QED BY <1>1, ConnectionInvariant, PTL

(* No reading loop loses a notification, hands it out twice or out of order. *)
THEOREM ConnectionNotificationsKept ==
    ASSUME Careful
    PROVE  Spec => []NotificationsKept
<1>1. ConnectionInv => NotificationsKept
  BY DEF ConnectionInv, Noted
<1> QED BY <1>1, ConnectionInvariant, PTL
=============================================================================
