------------------------- MODULE TransactionProofs -------------------------
(***************************************************************************)
(* Proofs about module Transaction: what Ok and Err of a transaction mean, *)
(* for any rows, savepoint names, number of retries and of calls.          *)
(***************************************************************************)
EXTENDS Transaction, SequenceTheorems, TLAPS

(* The status of the server's block, and a savepoint with the work done      *)
(* before it.                                                                *)
Blocks == {"Idle", "InTransaction", "Failed"}
Saves  == [name : Names, work : SUBSET Rows]

(* The server's side.                                                        *)
Server ==
    {s \in [block : Blocks \cup {"Gone"}, work : SUBSET Rows, saves : Seq(Saves),
            durable : SUBSET Rows] : Len(s.saves) <= MaxSaves}

(* The state of a with_transaction loop.                                     *)
Loops == [on : BOOLEAN, f : {"manual", "with_transaction"}, any : BOOLEAN,
          attempt : 0 .. max_retries, first : Nat]

(* TypeOK, with the shape of the server's session and of the loop.           *)
Typed ==
    /\ srv \in Server
    /\ link \in {"up", "owed", "refused", "down"} /\ status \in Blocks
    /\ call \in {"none", "manual", "with_transaction"} /\ depth \in Nat
    /\ guard \in [name : Names, released : {FALSE}] \cup {NoGuard}
    /\ loop \in Loops /\ run \in 0 .. MaxRuns
    /\ mine \in SUBSET Rows /\ mark \in SUBSET mine
    /\ promised \in SUBSET Rows /\ undone \in SUBSET (1 .. MaxRuns)

(* The connection still takes statements.                                    *)
Live == link \in {"up", "owed"}

(* Uncommitted rows: in force, or restored by a rollback to a savepoint.     *)
RowsOf(s) == {r \in Rows : r \in s.work \/ \E i \in DOMAIN s.saves : r \in s.saves[i].work}

-----------------------------------------------------------------------------
(* The server's statements.                                                  *)

(* Where a statement may leave the server: done, failed, or never arrived.   *)
Outcome(q, s) ==
    \/ s = srv
    \/ Accepts(srv, q) /\ s = Effect(srv, q)
    \/ Errors(srv, q) # {} /\ s = Failure(srv, q)

(* The parts of a session.                                                   *)
LEMMA ServerParts ==
    ASSUME NEW s \in Server
    PROVE  /\ s.block \in Blocks \cup {"Gone"} /\ s.work \in SUBSET Rows
           /\ s.saves \in Seq(Saves) /\ s.durable \in SUBSET Rows
           /\ Len(s.saves) <= MaxSaves /\ Len(s.saves) \in Nat
           /\ DOMAIN s.saves = 1 .. Len(s.saves)
           /\ \A i \in DOMAIN s.saves : s.saves[i] \in Saves
<1>1. /\ s.block \in Blocks \cup {"Gone"} /\ s.work \in SUBSET Rows
      /\ s.saves \in Seq(Saves) /\ s.durable \in SUBSET Rows /\ Len(s.saves) <= MaxSaves
  BY DEF Server
<1>2. Len(s.saves) \in Nat /\ DOMAIN s.saves = 1 .. Len(s.saves)
  BY <1>1, LenProperties
<1> QED BY <1>1, <1>2, ElementOfSeq

(* The empty list of savepoints.                                             *)
LEMMA NoSavesType == NoSaves \in Seq(Saves) /\ Len(NoSaves) = 0 /\ DOMAIN NoSaves = {}
BY EmptySeq DEF NoSaves

(* The end of a block, and of the session.                                   *)
LEMMA EndBlockType ==
    ASSUME NEW s \in Server, NEW keep \in SUBSET Rows
    PROVE  /\ EndBlock(s, keep) \in Server /\ EndBlock(s, keep).block = "Idle"
           /\ EndBlock(s, keep).work = {} /\ EndBlock(s, keep).saves = NoSaves
           /\ EndBlock(s, keep).durable = s.durable \cup keep
           /\ RowsOf(EndBlock(s, keep)) = {}
<1>1. /\ EndBlock(s, keep).block = "Idle"
      /\ EndBlock(s, keep).work = {} /\ EndBlock(s, keep).saves = NoSaves
      /\ EndBlock(s, keep).durable = s.durable \cup keep
  BY DEF EndBlock, Server
<1>2. EndBlock(s, keep) \in [block : Blocks \cup {"Gone"}, work : SUBSET Rows, saves : Seq(Saves),
                             durable : SUBSET Rows]
  BY NoSavesType DEF EndBlock, Server, Blocks
<1>3. Len(EndBlock(s, keep).saves) <= MaxSaves
  BY <1>1, NoSavesType, BoundsAssumption
<1>4. RowsOf(EndBlock(s, keep)) = {}
  BY <1>1, NoSavesType DEF RowsOf
<1> QED BY <1>1, <1>2, <1>3, <1>4 DEF Server

(* The server's side of a connection that is gone: nothing uncommitted stays. *)
LEMMA HangupType ==
    ASSUME NEW s \in Server
    PROVE  /\ Hangup(s) \in Server /\ Hangup(s).block = "Gone"
           /\ Hangup(s).durable = s.durable /\ RowsOf(Hangup(s)) = {}
<1>1. /\ EndBlock(s, {}) \in Server
      /\ EndBlock(s, {}).work = {} /\ EndBlock(s, {}).saves = NoSaves
      /\ EndBlock(s, {}).durable = s.durable
  <2>1. {} \in SUBSET Rows /\ s.durable \cup {} = s.durable
    OBVIOUS
  <2> QED BY <2>1, EndBlockType
<1>2. /\ Hangup(s) \in [block : Blocks \cup {"Gone"}, work : SUBSET Rows, saves : Seq(Saves),
                       durable : SUBSET Rows]
      /\ Hangup(s).block = "Gone" /\ Hangup(s).work = {} /\ Hangup(s).saves = NoSaves
      /\ Hangup(s).durable = s.durable
  BY <1>1 DEF Hangup, Server
<1>3. Len(Hangup(s).saves) <= MaxSaves
  BY <1>2, NoSavesType, BoundsAssumption
<1>4. RowsOf(Hangup(s)) = {}
  BY <1>2, NoSavesType DEF RowsOf
<1> QED BY <1>2, <1>3, <1>4 DEF Server

(* A failed statement leaves everything but the block's state.               *)
LEMMA AbortType ==
    ASSUME NEW s \in Server, s.block # "Gone"
    PROVE  /\ Abort(s) \in Server /\ Abort(s).block # "Gone" /\ Abort(s).work = s.work
           /\ Abort(s).saves = s.saves /\ Abort(s).durable = s.durable
BY DEF Abort, Server, Blocks

(* The name's last savepoint is the innermost one, if that has the name.     *)
LEMMA SaveAtTop ==
    ASSUME NEW s \in Server, NEW n, s.saves # NoSaves, s.saves[Len(s.saves)].name = n
    PROVE  /\ HasSave(s, n) /\ SaveAt(s, n) = Len(s.saves) /\ Len(s.saves) \in DOMAIN s.saves
<1>1. Len(s.saves) \in Nat /\ DOMAIN s.saves = 1 .. Len(s.saves) /\ Len(s.saves) \in DOMAIN s.saves
  <2>1. s.saves \in Seq(Saves) /\ Len(s.saves) \in Nat /\ DOMAIN s.saves = 1 .. Len(s.saves)
    BY ServerParts
  <2>2. Len(s.saves) > 0
    BY <2>1, EmptySeq DEF NoSaves
  <2> QED BY <2>1, <2>2
<1> DEFINE P(i) == s.saves[i].name = n /\ \A j \in DOMAIN s.saves : j > i => s.saves[j].name # n
<1>2. P(Len(s.saves))
  BY <1>1
<1>3. \A i \in DOMAIN s.saves : P(i) => i = Len(s.saves)
  BY <1>1
<1>4. SaveAt(s, n) \in DOMAIN s.saves /\ P(SaveAt(s, n))
  BY <1>1, <1>2 DEF SaveAt
<1> QED BY <1>1, <1>3, <1>4 DEF HasSave

(* BEGIN: the rows and the savepoints stay.                                  *)
LEMMA BeginOutcome ==
    ASSUME srv \in Server, srv.block # "Gone", NEW s, Outcome(<<"BEGIN">>, s)
    PROVE  /\ s \in Server /\ s.block # "Gone" /\ s.durable = srv.durable
           /\ s.work = srv.work /\ s.saves = srv.saves
<1>1. CASE s = srv
  BY <1>1
<1>2. CASE s = Effect(srv, <<"BEGIN">>)
  <2>1. s = [srv EXCEPT !.block = "InTransaction"]
    BY <1>2 DEF Effect
  <2> QED BY <2>1 DEF Server, Blocks
<1>3. CASE s = Failure(srv, <<"BEGIN">>)
  <2>1. s = Abort(srv)
    BY <1>3 DEF Failure
  <2> QED BY <2>1, AbortType
<1> QED BY <1>1, <1>2, <1>3 DEF Outcome

(* A write adds its row, or nothing.                                         *)
LEMMA WriteOutcome ==
    ASSUME srv \in Server, srv.block # "Gone", NEW row \in Rows, NEW s, Outcome(<<"WRITE", row>>, s)
    PROVE  /\ s \in Server /\ s.block # "Gone" /\ s.durable = srv.durable /\ s.saves = srv.saves
           /\ s.work = srv.work \/ s.work = srv.work \cup {row}
           /\ Effect(srv, <<"WRITE", row>>).work = srv.work \cup {row}
<1>0. Effect(srv, <<"WRITE", row>>) = [srv EXCEPT !.work = srv.work \cup {row}]
  BY DEF Effect
<1>1. Effect(srv, <<"WRITE", row>>).work = srv.work \cup {row}
  BY <1>0 DEF Server
<1>2. CASE s = srv
  BY <1>1, <1>2
<1>3. CASE s = Effect(srv, <<"WRITE", row>>)
  BY <1>0, <1>1, <1>3 DEF Server
<1>4. CASE s = Failure(srv, <<"WRITE", row>>)
  <2>1. s = Abort(srv)
    BY <1>4 DEF Failure
  <2> QED BY <1>1, <2>1, AbortType
<1> QED BY <1>2, <1>3, <1>4 DEF Outcome

(* SAVEPOINT remembers the rows that are there.                              *)
LEMMA SavepointOutcome ==
    ASSUME srv \in Server, srv.block # "Gone", NEW n \in Names, Len(srv.saves) < MaxSaves,
           NEW s, Outcome(<<"SAVEPOINT", n>>, s)
    PROVE  /\ s \in Server /\ s.block # "Gone" /\ s.durable = srv.durable /\ s.work = srv.work
           /\ \/ s.saves = srv.saves
              \/ s.saves = Append(srv.saves, [name |-> n, work |-> srv.work])
           /\ Effect(srv, <<"SAVEPOINT", n>>).saves
                = Append(srv.saves, [name |-> n, work |-> srv.work])
           /\ Effect(srv, <<"SAVEPOINT", n>>).work = srv.work
<1> DEFINE new == Append(srv.saves, [name |-> n, work |-> srv.work])
<1>0. Effect(srv, <<"SAVEPOINT", n>>) = [srv EXCEPT !.saves = new]
  BY DEF Effect
<1>1. new \in Seq(Saves) /\ Len(new) <= MaxSaves
  <2>1. srv.saves \in Seq(Saves) /\ [name |-> n, work |-> srv.work] \in Saves
        /\ Len(srv.saves) \in Nat
    BY ServerParts DEF Saves
  <2>2. new \in Seq(Saves) /\ Len(new) = Len(srv.saves) + 1
    BY <2>1, AppendProperties
  <2> HIDE DEF new
  <2> QED BY <2>1, <2>2, BoundsAssumption
<1> HIDE DEF new
<1>2. /\ Effect(srv, <<"SAVEPOINT", n>>) \in Server /\ Effect(srv, <<"SAVEPOINT", n>>).saves = new
      /\ Effect(srv, <<"SAVEPOINT", n>>).work = srv.work
      /\ Effect(srv, <<"SAVEPOINT", n>>).durable = srv.durable
      /\ Effect(srv, <<"SAVEPOINT", n>>).block = srv.block
  BY <1>0, <1>1 DEF Server
<1>3. CASE s = srv
  BY <1>2, <1>3 DEF new
<1>4. CASE s = Effect(srv, <<"SAVEPOINT", n>>)
  BY <1>2, <1>4 DEF new
<1>5. CASE s = Failure(srv, <<"SAVEPOINT", n>>)
  <2>1. s = Abort(srv)
    BY <1>5 DEF Failure
  <2> QED BY <1>2, <2>1, AbortType DEF new
<1> QED BY <1>3, <1>4, <1>5 DEF Outcome

(* RELEASE of the innermost savepoint removes that one.                      *)
LEMMA ReleaseOutcome ==
    ASSUME srv \in Server, srv.block # "Gone", NEW n, srv.saves # NoSaves,
           srv.saves[Len(srv.saves)].name = n, NEW s, Outcome(<<"RELEASE", n>>, s)
    PROVE  /\ s \in Server /\ s.block # "Gone" /\ s.durable = srv.durable /\ s.work = srv.work
           /\ s.saves = srv.saves \/ s.saves = SubSeq(srv.saves, 1, Len(srv.saves) - 1)
           /\ \A i \in DOMAIN s.saves : i \in DOMAIN srv.saves /\ s.saves[i] = srv.saves[i]
<1> DEFINE new == SubSeq(srv.saves, 1, Len(srv.saves) - 1)
<1>0. Effect(srv, <<"RELEASE", n>>) = [srv EXCEPT !.saves = new]
  BY SaveAtTop DEF Effect
<1>1. new \in Seq(Saves) /\ Len(new) <= MaxSaves
      /\ \A i \in DOMAIN new : i \in DOMAIN srv.saves /\ new[i] = srv.saves[i]
  <2>1. /\ srv.saves \in Seq(Saves) /\ Len(srv.saves) \in Nat /\ Len(srv.saves) \in DOMAIN srv.saves
        /\ DOMAIN srv.saves = 1 .. Len(srv.saves) /\ Len(srv.saves) <= MaxSaves
        /\ \A i \in DOMAIN srv.saves : srv.saves[i] \in Saves
    BY ServerParts, SaveAtTop
  <2>2. \A i \in 1 .. Len(srv.saves) - 1 : srv.saves[i] \in Saves
    BY <2>1
  <2>3. /\ new \in Seq(Saves)
        /\ Len(new) = IF 1 <= Len(srv.saves) - 1 THEN Len(srv.saves) - 1 - 1 + 1 ELSE 0
        /\ \A i \in 1 .. (Len(srv.saves) - 1) - 1 + 1 : new[i] = srv.saves[1 + i - 1]
    BY <2>1, <2>2, SubSeqProperties
  <2>4. DOMAIN new = 1 .. Len(new)
    BY <2>3, LenProperties
  <2> HIDE DEF new
  <2>5. Len(new) = Len(srv.saves) - 1
    BY <2>1, <2>3
  <2> QED BY <2>1, <2>3, <2>4, <2>5, BoundsAssumption
<1> HIDE DEF new
<1>2. CASE s = srv
  BY <1>2
<1>3. CASE s = Effect(srv, <<"RELEASE", n>>)
  <2>1. s \in Server /\ s.saves = new /\ s.work = srv.work /\ s.durable = srv.durable
        /\ s.block = srv.block
    BY <1>0, <1>1, <1>3 DEF Server
  <2> QED BY <1>1, <2>1 DEF new
<1>4. CASE s = Failure(srv, <<"RELEASE", n>>)
  <2>1. s = Abort(srv)
    BY <1>4 DEF Failure
  <2> QED BY <2>1, AbortType
<1> QED BY <1>2, <1>3, <1>4 DEF Outcome

(* ROLLBACK TO the innermost savepoint restores its rows and keeps it.       *)
LEMMA RollbackToOutcome ==
    ASSUME srv \in Server, srv.block # "Gone", NEW n, srv.saves # NoSaves,
           srv.saves[Len(srv.saves)].name = n, NEW s, Outcome(<<"ROLLBACK_TO", n>>, s)
    PROVE  /\ s \in Server /\ s.block # "Gone" /\ s.durable = srv.durable /\ s.saves = srv.saves
           /\ s.work = srv.work \/ s.work = srv.saves[Len(srv.saves)].work
<1>1. /\ SaveAt(srv, n) = Len(srv.saves) /\ Len(srv.saves) \in DOMAIN srv.saves
  BY SaveAtTop
<1>2. SubSeq(srv.saves, 1, Len(srv.saves)) = srv.saves
  BY ServerParts, SubSeqFull
<1>3. Effect(srv, <<"ROLLBACK_TO", n>>) =
        [srv EXCEPT !.block = "InTransaction", !.work = srv.saves[Len(srv.saves)].work,
                    !.saves = srv.saves]
  BY <1>1, <1>2 DEF Effect
<1>4. srv.saves[Len(srv.saves)].work \in SUBSET Rows
  BY <1>1, ServerParts DEF Saves
<1>5. CASE s = srv
  BY <1>5
<1>6. CASE s = Effect(srv, <<"ROLLBACK_TO", n>>)
  BY <1>3, <1>4, <1>6 DEF Server, Blocks
<1>7. CASE s = Failure(srv, <<"ROLLBACK_TO", n>>)
  <2>1. s = Abort(srv)
    BY <1>7 DEF Failure
  <2> QED BY <2>1, AbortType
<1> QED BY <1>5, <1>6, <1>7 DEF Outcome

(* COMMIT and ROLLBACK end the block; only COMMIT makes rows durable.        *)
LEMMA EndOutcome ==
    ASSUME srv \in Server, srv.block # "Gone", NEW q \in {<<"COMMIT">>, <<"ROLLBACK">>},
           NEW s, Outcome(q, s)
    PROVE  /\ s \in Server /\ s.block # "Gone"
           /\ srv.durable \subseteq s.durable
           /\ s.durable \subseteq srv.durable \cup (IF q[1] = "COMMIT" THEN srv.work ELSE {})
           /\ RowsOf(s) \subseteq RowsOf(srv)
<1>0. srv.work \in SUBSET Rows
  BY ServerParts
<1>1. CASE s = srv
  BY <1>1
<1>2. CASE s = Effect(srv, q)
  <2>1. \/ s = EndBlock(srv, {})
        \/ q[1] = "COMMIT" /\ s = EndBlock(srv, srv.work)
    BY <1>2 DEF Effect
  <2>2. CASE s = EndBlock(srv, {})
    BY <2>2, EndBlockType
  <2>3. CASE q[1] = "COMMIT" /\ s = EndBlock(srv, srv.work)
    BY <1>0, <2>3, EndBlockType
  <2> QED BY <2>1, <2>2, <2>3
<1>3. CASE Errors(srv, q) # {} /\ s = Failure(srv, q)
  <2>1. CASE q[1] = "COMMIT"
    BY <1>3, <2>1, EndBlockType DEF Failure
  <2>2. CASE q = <<"ROLLBACK">>
    BY <1>3, <2>2 DEF Errors, Accepts
  <2> QED BY <2>1, <2>2
<1> QED BY <1>1, <1>2, <1>3 DEF Outcome

-----------------------------------------------------------------------------
(* Connection::execute.                                                      *)

(* The ways in which a statement ends: answered, lost, abandoned, or never   *)
(* sent because the connection does not take statements any more.            *)
Answered(e, q) ==
    /\ e.link = "up" /\ e.status = e.srv.block
    /\ \/ e.res = "ok" /\ Accepts(srv, q) /\ e.srv = Effect(srv, q)
       \/ e.res \in Errors(srv, q) /\ e.srv = Failure(srv, q)

LostWith(e, q) ==
    /\ e.link = "down" /\ e.status = status /\ e.res = "transport"
    /\ \E s : Outcome(q, s) /\ e.srv = Hangup(s)

LeftOpen(e, q) ==
    /\ e.link \in {"refused", "owed"} /\ e.status = status /\ e.res = "abandoned"
    /\ Outcome(q, e.srv)

NotSent(e) ==
    /\ e.srv = srv /\ e.link = link /\ e.status = status
    /\ e.res = IF link = "refused" THEN "invalid" ELSE "transport"

(* An answer: done, or refused with an error.                                *)
LEMMA AnswersAre ==
    ASSUME NEW q, NEW a \in Answers(srv, q)
    PROVE  /\ \/ a.res = "ok" /\ Accepts(srv, q) /\ a.srv = Effect(srv, q)
              \/ a.res \in Errors(srv, q) /\ a.srv = Failure(srv, q)
           /\ Outcome(q, a.srv)
<1>1. CASE a \in {[srv |-> Effect(srv, q), res |-> "ok"] : x \in {y \in {q} : Accepts(srv, y)}}
  BY <1>1 DEF Outcome
<1>2. CASE a \in {[srv |-> Failure(srv, q), res |-> e] : e \in Errors(srv, q)}
  BY <1>2 DEF Outcome
<1> QED BY <1>1, <1>2 DEF Answers

(* execute() ends in one of these ways.                                      *)
LEMMA ExecuteEnds ==
    ASSUME link \in {"up", "owed", "refused", "down"}, NEW q, NEW e \in execute(q)
    PROVE  \/ Live /\ (Answered(e, q) \/ LostWith(e, q) \/ LeftOpen(e, q))
           \/ ~Live /\ NotSent(e)
<1> DEFINE did == {a.srv : a \in Answers(srv, q)}
<1>d. \A s \in did \cup {srv} : Outcome(q, s)
  BY AnswersAre DEF Outcome
<1>1. CASE link \in {"up", "owed"}
  <2>0. e \in {[srv |-> a.srv, link |-> "up", status |-> a.srv.block, res |-> a.res] :
                 a \in Answers(srv, q)}
              \cup {[srv |-> Hangup(s), link |-> "down", status |-> status, res |-> "transport"] :
                      s \in did \cup {srv}}
              \cup {[srv |-> s, link |-> "refused", status |-> status, res |-> "abandoned"] :
                      s \in did \cup {srv}}
              \cup {[srv |-> s, link |-> "owed", status |-> status, res |-> "abandoned"] :
                      s \in did \cup {t \in {srv} : link = "owed"}}
    BY <1>1 DEF execute
  <2>1. CASE e \in {[srv |-> a.srv, link |-> "up", status |-> a.srv.block, res |-> a.res] :
                      a \in Answers(srv, q)}
    <3>1. PICK a \in Answers(srv, q) :
            e = [srv |-> a.srv, link |-> "up", status |-> a.srv.block, res |-> a.res]
      BY <2>1
    <3>2. e.srv = a.srv /\ e.link = "up" /\ e.status = a.srv.block /\ e.res = a.res
      BY <3>1
    <3> QED BY <1>1, <3>2, AnswersAre DEF Answered, Live
  <2>2. CASE e \in {[srv |-> Hangup(s), link |-> "down", status |-> status, res |-> "transport"] :
                      s \in did \cup {srv}}
    <3>1. PICK s \in did \cup {srv} :
            e = [srv |-> Hangup(s), link |-> "down", status |-> status, res |-> "transport"]
      BY <2>2
    <3>2. e.srv = Hangup(s) /\ e.link = "down" /\ e.status = status /\ e.res = "transport"
      BY <3>1
    <3>3. Outcome(q, s)
      BY <1>d
    <3> QED BY <1>1, <3>2, <3>3 DEF LostWith, Live
  <2>3. ASSUME NEW l \in {"refused", "owed"}, NEW s \in did \cup {srv},
               e = [srv |-> s, link |-> l, status |-> status, res |-> "abandoned"]
        PROVE  Live /\ LeftOpen(e, q)
    <3>1. e.srv = s /\ e.link = l /\ e.status = status /\ e.res = "abandoned"
      BY <2>3
    <3>2. Outcome(q, s)
      BY <1>d
    <3> QED BY <1>1, <3>1, <3>2 DEF LeftOpen, Live
  <2> QED BY <2>0, <2>1, <2>2, <2>3
<1>2. CASE link = "refused"
  BY <1>2 DEF execute, NotSent, Live
<1>3. CASE link = "down"
  BY <1>3 DEF execute, NotSent, Live
<1> QED BY <1>1, <1>2, <1>3

-----------------------------------------------------------------------------
(* The invariant, part by part.                                              *)

(* What the client knows of the connection.                                  *)
Sync ==
    /\ (link = "down") = (srv.block = "Gone")
    /\ link = "up" => status = srv.block

(* Which run a row is from: none of a later run exists, none of the current  *)
(* run is committed before its end, and no row of a run that was reported    *)
(* undone can be committed any more.                                         *)
Owned ==
    /\ call # "none" => run >= 1 /\ run \notin undone /\ \A r \in srv.durable : r[1] < run
    /\ \A r \in srv.durable \cup RowsOf(srv) : r[1] <= run
    /\ undone \subseteq 1 .. run
    /\ Live => \A r \in RowsOf(srv) : r[1] \notin undone
    /\ ErrMeansUndone

(* The rows a transaction was told of are among the server's; so are those   *)
(* that its savepoint would restore.                                         *)
Told ==
    /\ srv.block # "Gone" => mine \subseteq srv.work
    /\ call = "none" => guard = NoGuard
    /\ GuardIsInnermost
    /\ OkMeansDurable

(* Within a loop around with_transaction the rows of earlier attempts are    *)
(* gone, and no row of this loop is committed before it ends.                *)
Looped ==
    /\ loop.on /\ call # "none" => call = loop.f
    /\ loop.first <= run + 1
    /\ loop.f = "with_transaction" =>
         /\ ~loop.on => call = "none"
         /\ loop.on => \A r \in srv.durable : r[1] < loop.first
         /\ loop.on /\ Live =>
              \A r \in RowsOf(srv) : r[1] >= loop.first => call # "none" /\ r[1] = run
    /\ RetryAtMostOnce
    /\ WithTransactionRetriesIdle

(* The inductive invariant.                                                  *)
TransactionInv == Typed /\ Sync /\ Owned /\ Told /\ Looped

(* A statement that leaves the block open: where it leaves the server, and   *)
(* the rows it can have added.                                               *)
LEMMA Inside ==
    ASSUME Typed, Sync, NEW q, NEW e \in execute(q), Executed(e), NEW new \in SUBSET Rows,
           Live => \A s : Outcome(q, s) => /\ s \in Server /\ s.block # "Gone"
                                           /\ s.durable = srv.durable
                                           /\ RowsOf(s) \subseteq RowsOf(srv) \cup new
    PROVE  /\ srv' \in Server /\ link' \in {"up", "owed", "refused", "down"} /\ status' \in Blocks
           /\ Sync' /\ srv'.durable = srv.durable /\ RowsOf(srv') \subseteq RowsOf(srv) \cup new
           /\ Live' => Live
           /\ e.res = "ok" => Live /\ Accepts(srv, q) /\ srv' = Effect(srv, q)
           /\ srv'.block # "Gone" => srv.block # "Gone" /\ Outcome(q, srv')
<1>0. /\ srv \in Server /\ link \in {"up", "owed", "refused", "down"} /\ status \in Blocks
      /\ srv' = e.srv /\ link' = e.link /\ status' = e.status
  BY DEF Typed, Executed
<1>1. CASE Live /\ Answered(e, q)
  <2>1. Outcome(q, e.srv)
    BY <1>1 DEF Answered, Outcome
  <2>2. /\ e.srv \in Server /\ e.srv.block # "Gone" /\ e.srv.durable = srv.durable
        /\ RowsOf(e.srv) \subseteq RowsOf(srv) \cup new
    BY <1>1, <2>1
  <2>3. e.srv.block \in Blocks
    BY <2>2, ServerParts
  <2>4. link' = "up" /\ status' = e.srv.block
    BY <1>0, <1>1 DEF Answered
  <2>5. Sync'
    BY <1>0, <2>2, <2>4 DEF Sync
  <2>6. e.res = "ok" => Accepts(srv, q) /\ e.srv = Effect(srv, q)
    BY <1>1 DEF Answered, Errors
  <2>7. srv.block # "Gone"
    BY <1>1 DEF Sync, Live
  <2> QED BY <1>0, <1>1, <2>1, <2>2, <2>3, <2>4, <2>5, <2>6, <2>7
<1>2. CASE Live /\ LostWith(e, q)
  <2>1. PICK s : Outcome(q, s) /\ e.srv = Hangup(s)
    BY <1>2 DEF LostWith
  <2>2. s \in Server /\ s.durable = srv.durable
    BY <1>2, <2>1
  <2>3. /\ e.srv \in Server /\ e.srv.block = "Gone" /\ e.srv.durable = srv.durable
        /\ RowsOf(e.srv) = {}
    BY <2>1, <2>2, HangupType
  <2>4. link' = "down" /\ status' = status /\ e.res = "transport"
    BY <1>0, <1>2 DEF LostWith
  <2>5. Sync' /\ ~Live'
    BY <1>0, <2>3, <2>4 DEF Sync, Live
  <2> QED BY <1>0, <2>3, <2>4, <2>5
<1>3. CASE Live /\ LeftOpen(e, q)
  <2>1. /\ e.srv \in Server /\ e.srv.block # "Gone" /\ e.srv.durable = srv.durable
        /\ RowsOf(e.srv) \subseteq RowsOf(srv) \cup new
    BY <1>3 DEF LeftOpen
  <2>2. link' \in {"refused", "owed"} /\ status' = status /\ e.res = "abandoned"
        /\ Outcome(q, e.srv)
    BY <1>0, <1>3 DEF LeftOpen
  <2>3. Sync' /\ srv.block # "Gone"
    BY <1>0, <1>3, <2>1, <2>2 DEF Sync, Live
  <2> QED BY <1>0, <1>3, <2>1, <2>2, <2>3
<1>4. CASE ~Live /\ NotSent(e)
  <2>1. srv' = srv /\ link' = link /\ status' = status /\ e.res # "ok"
    BY <1>0, <1>4 DEF NotSent
  <2>2. Sync' /\ RowsOf(srv') = RowsOf(srv) /\ Live' = Live
    BY <2>1 DEF Sync, RowsOf, Live
  <2>3. Outcome(q, srv)
    BY DEF Outcome
  <2> QED BY <1>0, <1>4, <2>1, <2>2, <2>3
<1> QED BY <1>0, <1>1, <1>2, <1>3, <1>4, ExecuteEnds

(* The results a statement can have.                                         *)
LEMMA ExecuteResults ==
    ASSUME Typed, NEW q, NEW e \in execute(q)
    PROVE  e.res \in Errors(srv, q) \cup {"ok", "transport", "abandoned", "invalid"}
<1>1. link \in {"up", "owed", "refused", "down"}
  BY DEF Typed
<1>2. Answered(e, q) \/ LostWith(e, q) \/ LeftOpen(e, q) \/ NotSent(e)
  BY <1>1, ExecuteEnds
<1> QED BY <1>2 DEF Answered, LostWith, LeftOpen, NotSent

(* A row is from a run.                                                      *)
LEMMA RowRun ==
    /\ \A r \in Rows : r[1] \in 1 .. MaxRuns /\ r[1] \in Nat
    /\ \A s : RowsOf(s) \in SUBSET Rows
    /\ Typed => srv.durable \in SUBSET Rows /\ run \in Nat /\ loop.first \in Nat
<1>1. \A r \in Rows : r[1] \in 1 .. MaxRuns
  BY DEF Rows
<1>2. \A k \in 1 .. MaxRuns : k \in Nat
  BY BoundsAssumption
<1>3. \A s : RowsOf(s) \in SUBSET Rows
  BY DEF RowsOf
<1>4. Typed => srv.durable \in SUBSET Rows /\ run \in Nat /\ loop.first \in Nat
  BY BoundsAssumption, ServerParts DEF Typed, Loops
<1> QED BY <1>1, <1>2, <1>3, <1>4

-----------------------------------------------------------------------------
(* Statements of an open transaction, which add rows of its run only.        *)
LEMMA InCall ==
    ASSUME TransactionInv, call # "none", UNCHANGED <<call, loop, run, promised, undone>>,
           srv'.durable = srv.durable, NEW new \in SUBSET Rows, \A r \in new : r[1] = run,
           RowsOf(srv') \subseteq RowsOf(srv) \cup new, Live' => Live
    PROVE  Owned' /\ Looped' /\ OkMeansDurable'
<1>0. Typed /\ Owned /\ Told /\ Looped
  BY DEF TransactionInv
<1>1. run \in Nat /\ undone \in SUBSET (1 .. MaxRuns) /\ \A r \in Rows : r[1] \in Nat
  BY <1>0, RowRun DEF Typed
<1>2. \A r \in new : r[1] \notin undone
  BY <1>0 DEF Owned
<1>3. Owned'
  <2>1. \A r \in (srv.durable \cup RowsOf(srv)) \cup new : r[1] <= run
    BY <1>0, <1>1 DEF Owned
  <2>2. Live => \A r \in RowsOf(srv) \cup new : r[1] \notin undone
    BY <1>0, <1>2 DEF Owned
  <2>3. ErrMeansUndone'
    BY <1>0 DEF Owned, ErrMeansUndone
  <2> QED BY <1>0, <2>1, <2>2, <2>3 DEF Owned
<1>4. Looped'
  <2>1. loop.f = "with_transaction" =>
          /\ ~loop.on => call = "none"
          /\ loop.on => \A r \in srv.durable : r[1] < loop.first
          /\ loop.on /\ Live =>
               \A r \in RowsOf(srv) \cup new : r[1] >= loop.first => call # "none" /\ r[1] = run
    BY <1>0 DEF Looped
  <2>2. RetryAtMostOnce' /\ WithTransactionRetriesIdle'
    BY <1>0 DEF Looped, RetryAtMostOnce, WithTransactionRetriesIdle
  <2>3. (loop.on /\ call # "none" => call = loop.f) /\ loop.first <= run + 1
    BY <1>0 DEF Looped
  <2> QED BY <2>1, <2>2, <2>3 DEF Looped
<1>5. OkMeansDurable'
  BY <1>0 DEF Told, OkMeansDurable
<1> QED BY <1>3, <1>4, <1>5

(* The guard's own statement: its savepoint is the innermost one.            *)
LEMMA GuardTop ==
    ASSUME TransactionInv, guard # NoGuard
    PROVE  /\ call # "none" /\ depth = 1 /\ guard.name \in Names /\ guard.released = FALSE
           /\ srv.block # "Gone" => /\ srv.saves # NoSaves
                                    /\ srv.saves[Len(srv.saves)].name = guard.name
                                    /\ mark \subseteq srv.saves[Len(srv.saves)].work
<1>1. guard \in [name : Names, released : {FALSE}] /\ Told
  BY DEF TransactionInv, Typed
<1> QED BY <1>1 DEF Told, GuardIsInnermost

(* Without a guard there is nothing to say about savepoints.                 *)
LEMMA NoGuardTold ==
    ASSUME guard' = NoGuard, depth' = 0, OkMeansDurable',
           srv'.block # "Gone" => mine' \subseteq srv'.work
    PROVE  Told'
BY DEF Told, GuardIsInnermost

(* The end of release() and rollback().                                      *)
LEMMA EndSavepointIs ==
    ASSUME NEW e, depth = 1, guard.released = FALSE, EndSavepoint(e) \/ DropSavepoint(guard, depth),
           guard \in [name : Names, released : {FALSE}]
    PROVE  guard' = NoGuard /\ depth' = 0
BY DEF EndSavepoint, DropSavepoint

(* Transaction::execute and query.                                           *)
LEMMA StatementInv ==
    ASSUME TransactionInv, NEW i \in Ids, Statement(i)
    PROVE  TransactionInv'
<1>0. Typed /\ Sync /\ Told /\ Owned
  BY DEF TransactionInv
<1>1. PICK e \in execute(<<"WRITE", <<run, i>>>>) :
        /\ Executed(e)
        /\ mine' = IF e.res = "ok" THEN mine \cup {<<run, i>>} ELSE mine
  BY DEF Statement
<1>2. call # "none" /\ UNCHANGED <<call, depth, guard, loop, run, mark, promised, undone>>
  BY DEF Statement
<1> DEFINE row == <<run, i>>
<1>3. row \in Rows /\ row[1] = run
  BY <1>0, <1>2 DEF Rows, Typed, Owned
<1> HIDE DEF row
<1>4. ASSUME Live, NEW s, Outcome(<<"WRITE", row>>, s)
      PROVE  /\ s \in Server /\ s.block # "Gone" /\ s.durable = srv.durable
             /\ RowsOf(s) \subseteq RowsOf(srv) \cup {row}
  <2>1. srv \in Server /\ srv.block # "Gone"
    BY <1>0, <1>4 DEF Typed, Sync, Live
  <2>2. /\ s \in Server /\ s.block # "Gone" /\ s.durable = srv.durable /\ s.saves = srv.saves
        /\ s.work = srv.work \/ s.work = srv.work \cup {row}
    BY <1>3, <1>4, <2>1, WriteOutcome
  <2> QED BY <2>2 DEF RowsOf
<1>5. /\ srv' \in Server /\ link' \in {"up", "owed", "refused", "down"} /\ status' \in Blocks
      /\ Sync' /\ srv'.durable = srv.durable /\ RowsOf(srv') \subseteq RowsOf(srv) \cup {row}
      /\ Live' => Live
      /\ e.res = "ok" => Live /\ Accepts(srv, <<"WRITE", row>>) /\ srv' = Effect(srv, <<"WRITE", row>>)
      /\ srv'.block # "Gone" => srv.block # "Gone" /\ Outcome(<<"WRITE", row>>, srv')
  <2>1. e \in execute(<<"WRITE", row>>) /\ Executed(e) /\ {row} \in SUBSET Rows
    BY <1>1, <1>3 DEF row
  <2> QED BY <1>0, <1>4, <2>1, Inside
<1>6. Owned' /\ Looped' /\ OkMeansDurable'
  <2>1. {row} \in SUBSET Rows /\ \A r \in {row} : r[1] = run
    BY <1>3
  <2> QED BY <1>2, <1>5, <2>1, InCall
<1>7. mine' \in SUBSET Rows /\ mine \subseteq mine'
  BY <1>0, <1>1, <1>3 DEF Typed, row
<1>8. Typed'
  BY <1>0, <1>2, <1>5, <1>7 DEF Typed
<1>9. Told'
  <2>1. ASSUME srv'.block # "Gone"
        PROVE  srv'.saves = srv.saves /\ mine' \subseteq srv'.work
    <3>0. srv \in Server /\ srv.block # "Gone" /\ Outcome(<<"WRITE", row>>, srv')
      BY <1>0, <1>5, <2>1 DEF Typed
    <3>1. /\ srv'.saves = srv.saves
          /\ srv'.work = srv.work \/ srv'.work = srv.work \cup {row}
          /\ Effect(srv, <<"WRITE", row>>).work = srv.work \cup {row}
      BY <1>3, <3>0, WriteOutcome
    <3>2. mine \subseteq srv.work
      BY <1>0, <3>0 DEF Told
    <3> QED BY <1>1, <1>5, <3>1, <3>2 DEF row
  <2>2. GuardIsInnermost'
    BY <1>0, <1>2, <1>5, <2>1 DEF Told, GuardIsInnermost
  <2> QED BY <1>0, <1>2, <1>6, <2>1, <2>2 DEF Told
<1> QED BY <1>5, <1>6, <1>8, <1>9 DEF TransactionInv

(* Transaction::savepoint.                                                   *)
LEMMA SavepointInv ==
    ASSUME TransactionInv, NEW n \in Names, savepoint(n)
    PROVE  TransactionInv'
<1> DEFINE q == <<"SAVEPOINT", n>>
<1>0. Typed /\ Sync /\ Told /\ Owned
  BY DEF TransactionInv
<1>1. PICK e \in execute(q) :
        /\ Executed(e)
        /\ IF e.res = "ok"
           THEN /\ depth' = depth + 1 /\ guard' = [name |-> n, released |-> FALSE]
                /\ mark' = mine
           ELSE UNCHANGED <<depth, guard, mark>>
  BY DEF savepoint
<1>2. /\ call # "none" /\ guard = NoGuard /\ Len(srv.saves) < MaxSaves
      /\ UNCHANGED <<call, loop, run, mine, promised, undone>>
  BY DEF savepoint
<1>3. depth = 0
  BY <1>0, <1>2 DEF Told, GuardIsInnermost
<1> DEFINE new == Append(srv.saves, [name |-> n, work |-> srv.work])
<1>n. /\ new \in Seq(Saves) /\ new # NoSaves /\ Len(new) = Len(srv.saves) + 1
      /\ new[Len(new)] = [name |-> n, work |-> srv.work]
      /\ \A k \in DOMAIN new : \/ k \in DOMAIN srv.saves /\ new[k] = srv.saves[k]
                               \/ new[k] = [name |-> n, work |-> srv.work]
  <2>1. srv.saves \in Seq(Saves) /\ [name |-> n, work |-> srv.work] \in Saves
        /\ Len(srv.saves) \in Nat /\ DOMAIN srv.saves = 1 .. Len(srv.saves)
    BY <1>0, ServerParts DEF Saves, Typed
  <2>2. /\ new \in Seq(Saves) /\ Len(new) = Len(srv.saves) + 1
        /\ \A k \in 1 .. Len(srv.saves) : new[k] = srv.saves[k]
        /\ new[Len(srv.saves) + 1] = [name |-> n, work |-> srv.work]
    BY <2>1, AppendProperties
  <2>3. DOMAIN new = 1 .. Len(new) /\ Len(NoSaves) = 0
    BY <2>2, LenProperties, NoSavesType
  <2> HIDE DEF new
  <2>4. \A k \in DOMAIN new : k \in 1 .. Len(srv.saves) \/ k = Len(srv.saves) + 1
    BY <2>1, <2>2, <2>3
  <2>5. new # NoSaves
    BY <2>1, <2>2, <2>3
  <2> QED BY <2>1, <2>2, <2>4, <2>5
<1> HIDE DEF new
<1>4. ASSUME srv.block # "Gone", NEW s, Outcome(q, s)
      PROVE  /\ s \in Server /\ s.block # "Gone" /\ s.durable = srv.durable /\ s.work = srv.work
             /\ RowsOf(s) \subseteq RowsOf(srv) \cup {}
             /\ Effect(srv, q).saves = new /\ Effect(srv, q).work = srv.work
  <2>1. srv \in Server
    BY <1>0 DEF Typed
  <2>2. /\ s \in Server /\ s.block # "Gone" /\ s.durable = srv.durable /\ s.work = srv.work
        /\ s.saves = srv.saves \/ s.saves = new
        /\ Effect(srv, q).saves = new /\ Effect(srv, q).work = srv.work
    BY <1>2, <1>4, <2>1, SavepointOutcome DEF new
  <2>3. RowsOf(s) \subseteq RowsOf(srv)
    BY <1>n, <2>2 DEF RowsOf
  <2> QED BY <2>2, <2>3
<1> HIDE DEF q
<1>5. /\ srv' \in Server /\ link' \in {"up", "owed", "refused", "down"} /\ status' \in Blocks
      /\ Sync' /\ srv'.durable = srv.durable /\ RowsOf(srv') \subseteq RowsOf(srv) \cup {}
      /\ Live' => Live
      /\ e.res = "ok" => Live /\ Accepts(srv, q) /\ srv' = Effect(srv, q)
      /\ srv'.block # "Gone" => srv.block # "Gone" /\ Outcome(q, srv')
  <2>1. {} \in SUBSET Rows /\ (Live => srv.block # "Gone")
    BY <1>0 DEF Sync, Live
  <2> QED BY <1>0, <1>1, <1>4, <2>1, Inside
<1>6. Owned' /\ Looped' /\ OkMeansDurable'
  <2>1. {} \in SUBSET Rows /\ \A r \in {} : r[1] = run
    OBVIOUS
  <2> QED BY <1>2, <1>5, <2>1, InCall
<1>7. Typed'
  <2>1. /\ depth' \in Nat /\ mark' \in SUBSET mine'
        /\ guard' \in [name : Names, released : {FALSE}] \cup {NoGuard}
    <3>1. mark \in SUBSET mine /\ mine' = mine
      BY <1>0, <1>2 DEF Typed
    <3>2. CASE e.res = "ok"
      <4>1. depth' = 1 /\ guard' = [name |-> n, released |-> FALSE] /\ mark' = mine
        BY <1>1, <1>3, <3>2
      <4>2. [name |-> n, released |-> FALSE] \in [name : Names, released : {FALSE}]
        OBVIOUS
      <4> QED BY <3>1, <4>1, <4>2
    <3>3. CASE e.res # "ok"
      BY <1>1, <1>2, <1>3, <3>1, <3>3
    <3> QED BY <3>2, <3>3
  <2> QED BY <1>0, <1>2, <1>5, <2>1 DEF Typed
<1>8. srv'.block # "Gone" => mine' \subseteq srv'.work
  BY <1>0, <1>2, <1>4, <1>5 DEF Told
<1>9. Told'
  <2>1. CASE e.res = "ok"
    <3>1. guard' = [name |-> n, released |-> FALSE] /\ guard' # NoGuard /\ depth' = 1 /\ mark' = mine
      BY <1>1, <1>3, <2>1, BoundsAssumption DEF NoGuard
    <3>2. ASSUME srv'.block # "Gone"
          PROVE  srv'.saves = new /\ mine \subseteq srv.work
      BY <1>0, <1>4, <1>5, <2>1, <3>2 DEF Told
    <3>3. GuardIsInnermost'
      BY <1>n, <3>1, <3>2 DEF GuardIsInnermost
    <3> QED BY <1>2, <1>6, <1>8, <3>3 DEF Told
  <2>2. CASE e.res # "ok"
    BY <1>1, <1>2, <1>3, <1>6, <1>8, <2>2, NoGuardTold
  <2> QED BY <2>1, <2>2
<1> QED BY <1>5, <1>6, <1>7, <1>9 DEF TransactionInv

(* Savepoint::release.                                                       *)
LEMMA ReleaseInv ==
    ASSUME TransactionInv, release
    PROVE  TransactionInv'
<1> DEFINE q == <<"RELEASE", guard.name>>
<1>0. Typed /\ Sync /\ Told
  BY DEF TransactionInv
<1>1. PICK e \in execute(q) : Executed(e) /\ EndSavepoint(e)
  BY DEF release
<1>2. guard # NoGuard /\ mark' = {} /\ UNCHANGED <<call, loop, run, mine, promised, undone>>
  BY DEF release
<1>3. /\ call # "none" /\ depth = 1 /\ guard.released = FALSE
      /\ srv.block # "Gone" => /\ srv.saves # NoSaves
                               /\ srv.saves[Len(srv.saves)].name = guard.name
  BY <1>2, GuardTop
<1>4. guard' = NoGuard /\ depth' = 0
  <2>1. guard \in [name : Names, released : {FALSE}]
    BY <1>0, <1>2 DEF Typed
  <2> QED BY <1>1, <1>3, <2>1, EndSavepointIs
<1>5. ASSUME srv.block # "Gone", NEW s, Outcome(q, s)
      PROVE  /\ s \in Server /\ s.block # "Gone" /\ s.durable = srv.durable /\ s.work = srv.work
             /\ RowsOf(s) \subseteq RowsOf(srv) \cup {}
  <2>1. srv \in Server
    BY <1>0 DEF Typed
  <2>2. /\ s \in Server /\ s.block # "Gone" /\ s.durable = srv.durable /\ s.work = srv.work
        /\ \A i \in DOMAIN s.saves : i \in DOMAIN srv.saves /\ s.saves[i] = srv.saves[i]
    BY <1>3, <1>5, <2>1, ReleaseOutcome
  <2> QED BY <2>2 DEF RowsOf
<1> HIDE DEF q
<1>6. /\ srv' \in Server /\ link' \in {"up", "owed", "refused", "down"} /\ status' \in Blocks
      /\ Sync' /\ srv'.durable = srv.durable /\ RowsOf(srv') \subseteq RowsOf(srv) \cup {}
      /\ Live' => Live
      /\ srv'.block # "Gone" => srv.block # "Gone" /\ Outcome(q, srv')
  <2>1. {} \in SUBSET Rows /\ (Live => srv.block # "Gone")
    BY <1>0 DEF Sync, Live
  <2> QED BY <1>0, <1>1, <1>5, <2>1, Inside
<1>7. Owned' /\ Looped' /\ OkMeansDurable'
  <2>1. {} \in SUBSET Rows /\ \A r \in {} : r[1] = run
    OBVIOUS
  <2> QED BY <1>2, <1>3, <1>6, <2>1, InCall
<1>8. Typed'
  BY <1>0, <1>2, <1>4, <1>6 DEF Typed
<1>9. Told'
  <2>1. srv'.block # "Gone" => mine' \subseteq srv'.work
    BY <1>0, <1>2, <1>5, <1>6 DEF Told
  <2> QED BY <1>4, <1>7, <2>1, NoGuardTold
<1> QED BY <1>6, <1>7, <1>8, <1>9 DEF TransactionInv

(* Savepoint::rollback: what it gives back is what was known at the mark.    *)
LEMMA RollbackToInv ==
    ASSUME TransactionInv, rollback_to
    PROVE  TransactionInv'
<1> DEFINE q == <<"ROLLBACK_TO", guard.name>>
<1>0. Typed /\ Sync /\ Told
  BY DEF TransactionInv
<1>1. PICK e \in execute(q) : Executed(e) /\ EndSavepoint(e)
  BY DEF rollback_to
<1>2. /\ guard # NoGuard /\ mine' = mark /\ mark' = {}
      /\ UNCHANGED <<call, loop, run, promised, undone>>
  BY DEF rollback_to
<1>3. /\ call # "none" /\ depth = 1 /\ guard.released = FALSE
      /\ srv.block # "Gone" => /\ srv.saves # NoSaves
                               /\ srv.saves[Len(srv.saves)].name = guard.name
                               /\ mark \subseteq srv.saves[Len(srv.saves)].work
  BY <1>2, GuardTop
<1>4. guard' = NoGuard /\ depth' = 0
  <2>1. guard \in [name : Names, released : {FALSE}]
    BY <1>0, <1>2 DEF Typed
  <2> QED BY <1>1, <1>3, <2>1, EndSavepointIs
<1>5. ASSUME srv.block # "Gone", NEW s, Outcome(q, s)
      PROVE  /\ s \in Server /\ s.block # "Gone" /\ s.durable = srv.durable
             /\ s.work = srv.work \/ s.work = srv.saves[Len(srv.saves)].work
             /\ RowsOf(s) \subseteq RowsOf(srv) \cup {}
  <2>1. srv \in Server
    BY <1>0 DEF Typed
  <2>2. /\ s \in Server /\ s.block # "Gone" /\ s.durable = srv.durable /\ s.saves = srv.saves
        /\ s.work = srv.work \/ s.work = srv.saves[Len(srv.saves)].work
    BY <1>3, <1>5, <2>1, RollbackToOutcome
  <2>3. Len(srv.saves) \in DOMAIN srv.saves
    BY <1>3, <1>5, <2>1, SaveAtTop
  <2> QED BY <2>2, <2>3 DEF RowsOf
<1> HIDE DEF q
<1>6. /\ srv' \in Server /\ link' \in {"up", "owed", "refused", "down"} /\ status' \in Blocks
      /\ Sync' /\ srv'.durable = srv.durable /\ RowsOf(srv') \subseteq RowsOf(srv) \cup {}
      /\ Live' => Live
      /\ srv'.block # "Gone" => srv.block # "Gone" /\ Outcome(q, srv')
  <2>1. {} \in SUBSET Rows /\ (Live => srv.block # "Gone")
    BY <1>0 DEF Sync, Live
  <2> QED BY <1>0, <1>1, <1>5, <2>1, Inside
<1>7. Owned' /\ Looped' /\ OkMeansDurable'
  <2>1. {} \in SUBSET Rows /\ \A r \in {} : r[1] = run
    OBVIOUS
  <2> QED BY <1>2, <1>3, <1>6, <2>1, InCall
<1>8. mark \in SUBSET mine /\ mine \in SUBSET Rows
  BY <1>0 DEF Typed
<1>9. Typed'
  BY <1>0, <1>2, <1>4, <1>6, <1>8 DEF Typed
<1>10. Told'
  <2>1. srv'.block # "Gone" => mine' \subseteq srv'.work
    BY <1>0, <1>2, <1>3, <1>5, <1>6, <1>8 DEF Told
  <2> QED BY <1>4, <1>7, <2>1, NoGuardTold
<1> QED BY <1>6, <1>7, <1>9, <1>10 DEF TransactionInv

(* Drop for Savepoint.                                                       *)
LEMMA DropSavepointInv ==
    ASSUME TransactionInv, drop_savepoint
    PROVE  TransactionInv'
<1>0. Typed /\ Sync /\ Told
  BY DEF TransactionInv
<1>2. /\ guard # NoGuard /\ DropSavepoint(guard, depth) /\ mark' = {}
      /\ UNCHANGED <<srv, link, status, call, error, loop, run, mine, promised, undone>>
  BY DEF drop_savepoint
<1>3. call # "none" /\ depth = 1 /\ guard.released = FALSE
  BY <1>2, GuardTop
<1>4. guard' = NoGuard /\ depth' = 0
  <2>1. guard \in [name : Names, released : {FALSE}]
    BY <1>0, <1>2 DEF Typed
  <2> QED BY <1>2, <1>3, <2>1, EndSavepointIs
<1>5. Owned' /\ Looped' /\ OkMeansDurable'
  <2>1. {} \in SUBSET Rows /\ \A r \in {} : r[1] = run
    OBVIOUS
  <2>2. RowsOf(srv') \subseteq RowsOf(srv) \cup {} /\ (Live' => Live) /\ srv'.durable = srv.durable
    BY <1>2 DEF Live
  <2> QED BY <1>2, <1>3, <2>1, <2>2, InCall
<1>6. Typed'
  BY <1>0, <1>2, <1>4 DEF Typed
<1>7. Sync'
  BY <1>0, <1>2 DEF Sync
<1>8. Told'
  BY <1>0, <1>2, <1>4, <1>5, NoGuardTold DEF Told
<1> QED BY <1>5, <1>6, <1>7, <1>8 DEF TransactionInv

-----------------------------------------------------------------------------
(* The end of a transaction.                                                 *)

(* Nothing of the transaction is left, now or later.                         *)
Clean ==
    /\ srv'.durable = srv.durable
    /\ Live' => RowsOf(srv') = {} /\ srv'.block = "Idle"

(* Whatever ends a transaction, or fails to begin one, keeps the invariant   *)
(* if it reports as committed only what is, as undone only a run of which    *)
(* nothing is left, and lets a loop around with_transaction go on only then. *)
LEMMA Ended ==
    ASSUME TransactionInv, Over, run' \in {run, run + 1}, run' \in 0 .. MaxRuns,
           srv' \in Server, link' \in {"up", "owed", "refused", "down"}, status' \in Blocks, Sync',
           srv.durable \subseteq srv'.durable,
           \A r \in srv'.durable :
               r \in srv.durable \/ (Live /\ call # "none" /\ r \in RowsOf(srv)),
           RowsOf(srv') \subseteq RowsOf(srv), Live' => Live,
           NEW rows, promised' = promised \cup rows, rows \subseteq srv'.durable,
           \/ undone' = undone
           \/ undone' = undone \cup {run} /\ call # "none" /\ Clean,
           \/ loop' = [loop EXCEPT !.on = FALSE]
           \/ /\ loop' = [loop EXCEPT !.attempt = @ + 1] /\ loop.on /\ loop.attempt < max_retries
              /\ loop.f = "with_transaction" => Clean
    PROVE  TransactionInv'
<1>0. Typed /\ Owned /\ Told /\ Looped
  BY DEF TransactionInv
<1>1. /\ call' = "none" /\ depth' = 0 /\ guard' = NoGuard /\ error' = "none"
      /\ mine' = {} /\ mark' = {}
  BY DEF Over
<1>2. /\ run \in Nat /\ run' \in Nat /\ run <= run' /\ loop.first \in Nat
      /\ loop \in Loops /\ undone \in SUBSET (1 .. MaxRuns)
      /\ srv.durable \in SUBSET Rows /\ srv'.durable \in SUBSET Rows
      /\ \A s : RowsOf(s) \in SUBSET Rows
  <2>1. run \in Nat /\ loop.first \in Nat /\ srv.durable \in SUBSET Rows
        /\ \A s : RowsOf(s) \in SUBSET Rows
    BY <1>0, RowRun
  <2>2. run' \in Nat /\ run <= run'
    BY <2>1
  <2>3. srv'.durable \in SUBSET Rows
    BY ServerParts
  <2>4. loop \in Loops /\ undone \in SUBSET (1 .. MaxRuns)
    BY <1>0 DEF Typed
  <2> QED BY <2>1, <2>2, <2>3, <2>4
<1>3. \A r \in Rows : r[1] \in Nat
  BY RowRun
<1>4. /\ loop'.f = loop.f /\ loop'.first = loop.first /\ loop' \in Loops
      /\ loop'.on => loop.on /\ (loop.f = "with_transaction" => Clean)
  <2>1. CASE loop' = [loop EXCEPT !.on = FALSE]
    BY <1>2, <2>1 DEF Loops
  <2>2. CASE /\ loop' = [loop EXCEPT !.attempt = @ + 1] /\ loop.on /\ loop.attempt < max_retries
             /\ loop.f = "with_transaction" => Clean
    <3>1. loop.attempt + 1 \in 0 .. max_retries
      BY <1>2, <2>2, BoundsAssumption DEF Loops
    <3> DEFINE k == loop.attempt + 1
    <3>2. loop' = [loop EXCEPT !.attempt = k] /\ k \in 0 .. max_retries
      BY <2>2, <3>1
    <3> HIDE DEF k
    <3> QED BY <1>2, <2>2, <3>2 DEF Loops
  <2> QED BY <2>1, <2>2
<1>5. \A r \in srv.durable \cup RowsOf(srv) : r[1] <= run
  BY <1>0 DEF Owned
<1>6. Owned'
  <2>1. \A r \in srv'.durable \cup RowsOf(srv') : r[1] <= run'
    BY <1>2, <1>3, <1>5
  <2>2. undone' \subseteq 1 .. run'
    <3>1. undone \subseteq 1 .. run /\ (call # "none" => run >= 1)
      BY <1>0 DEF Owned
    <3>2. 1 .. run \subseteq 1 .. run'
      BY <1>2
    <3>3. run >= 1 => run \in 1 .. run'
      BY <1>2
    <3> QED BY <3>1, <3>2, <3>3
  <2>3. Live' => \A r \in RowsOf(srv') : r[1] \notin undone'
    BY <1>0 DEF Owned, Clean
  <2>4. ErrMeansUndone'
    <3>1. CASE undone' = undone
      BY <1>0, <3>1 DEF Owned, ErrMeansUndone
    <3>2. CASE undone' = undone \cup {run} /\ call # "none" /\ Clean
      <4>1. \A r \in srv.durable : r[1] \notin undone /\ r[1] < run
        BY <1>0, <3>2 DEF Owned, ErrMeansUndone
      <4>2. \A r \in srv.durable : r[1] # run
        BY <1>2, <1>3, <4>1
      <4> QED BY <3>2, <4>1, <4>2 DEF ErrMeansUndone, Clean
    <3> QED BY <3>1, <3>2
  <2> QED BY <1>1, <2>1, <2>2, <2>3, <2>4 DEF Owned
<1>7. Told'
  <2>1. OkMeansDurable'
    BY <1>0 DEF Told, OkMeansDurable
  <2> QED BY <1>1, <2>1, NoGuardTold
<1>8. Looped'
  <2>1. loop'.first <= run' + 1
    BY <1>0, <1>2, <1>4 DEF Looped
  <2>2. ASSUME loop.f = "with_transaction", loop'.on
        PROVE  /\ \A r \in srv'.durable : r[1] < loop'.first
               /\ Live' => RowsOf(srv') = {}
    BY <1>0, <1>4, <2>2 DEF Looped, Clean
  <2>3. RetryAtMostOnce'
    <3> SUFFICES ASSUME loop.f = "with_transaction", NEW r \in srv'.durable, NEW p \in srv'.durable,
                        r[1] >= loop.first, p[1] >= loop.first
                 PROVE  r[1] = p[1]
      BY <1>4 DEF RetryAtMostOnce
    <3>1. CASE loop.on
      <4>1. \A x \in srv.durable : ~(x[1] >= loop.first)
        BY <1>0, <1>2, <1>3, <3>1 DEF Looped
      <4>2. Live => \A x \in RowsOf(srv) : x[1] >= loop.first => x[1] = run
        BY <1>0, <3>1 DEF Looped
      <4> QED BY <4>1, <4>2
    <3>2. CASE ~loop.on
      BY <1>0, <3>2 DEF Looped, RetryAtMostOnce
    <3> QED BY <3>1, <3>2
  <2>4. WithTransactionRetriesIdle'
    BY <1>4 DEF WithTransactionRetriesIdle, Clean, Live
  <2> QED BY <1>1, <1>4, <2>1, <2>2, <2>3, <2>4 DEF Looped
<1>9. Typed'
  <2>1. promised' \in SUBSET Rows
    BY <1>0, <1>2 DEF Typed
  <2>2. undone' \in SUBSET (1 .. MaxRuns)
    <3>1. call # "none" => run \in 1 .. MaxRuns
      BY <1>0, BoundsAssumption DEF Typed, Owned
    <3> QED BY <1>2, <3>1
  <2> QED BY <1>1, <1>4, <2>1, <2>2 DEF Typed
<1> QED BY <1>6, <1>7, <1>8, <1>9 DEF TransactionInv

(* COMMIT and ROLLBACK: where they leave the server and its rows.            *)
LEMMA Ending ==
    ASSUME TransactionInv, NEW q \in {<<"COMMIT">>, <<"ROLLBACK">>}, NEW e \in execute(q), Executed(e)
    PROVE  /\ srv' \in Server /\ link' \in {"up", "owed", "refused", "down"} /\ status' \in Blocks
           /\ Sync' /\ srv.durable \subseteq srv'.durable
           /\ \A r \in srv'.durable : r \in srv.durable \/ (Live /\ r \in RowsOf(srv))
           /\ RowsOf(srv') \subseteq RowsOf(srv) /\ (Live' => Live)
           /\ q = <<"COMMIT">> /\ e.res = "ok" /\ ~is_failed /\ link = "up" => mine \subseteq srv'.durable
           /\ (IF q = <<"COMMIT">> THEN e.res \notin {"ok", "abandoned", "transport"}
                                   ELSE e.res # "abandoned") => Clean
           /\ e.res \in {"ok", "transport", "abandoned", "invalid", "serialization", "other"}
<1>0. /\ srv \in Server /\ link \in {"up", "owed", "refused", "down"} /\ status \in Blocks
      /\ srv' = e.srv /\ link' = e.link /\ status' = e.status /\ Typed /\ Sync /\ Told
  BY DEF TransactionInv, Typed, Executed
<1>w. srv.work \subseteq RowsOf(srv) /\ srv.work \in SUBSET Rows
  BY <1>0, ServerParts DEF RowsOf
<1>r. e.res \in {"ok", "transport", "abandoned", "invalid", "serialization", "other"}
  BY <1>0, ExecuteResults DEF Errors
<1>o. ASSUME Live, NEW s, Outcome(q, s)
      PROVE  /\ s \in Server /\ s.block # "Gone" /\ srv.durable \subseteq s.durable
             /\ \A r \in s.durable : r \in srv.durable \/ r \in RowsOf(srv)
             /\ q = <<"ROLLBACK">> => s.durable = srv.durable
             /\ RowsOf(s) \subseteq RowsOf(srv)
  <2>1. srv.block # "Gone"
    BY <1>0, <1>o DEF Sync, Live
  <2>2. /\ s \in Server /\ s.block # "Gone"
        /\ srv.durable \subseteq s.durable
        /\ s.durable \subseteq srv.durable \cup (IF q[1] = "COMMIT" THEN srv.work ELSE {})
        /\ RowsOf(s) \subseteq RowsOf(srv)
    BY <1>0, <1>o, <2>1, EndOutcome
  <2> QED BY <1>w, <2>2
<1>1. CASE Live /\ Answered(e, q)
  <2>1. Outcome(q, e.srv)
    BY <1>1 DEF Answered, Outcome
  <2>2. e.srv.block \in Blocks /\ e.srv \in Server /\ e.srv.block # "Gone"
    BY <1>1, <1>o, <2>1, ServerParts
  <2>3. link' = "up" /\ status' = e.srv.block /\ Sync'
    BY <1>0, <1>1, <2>2 DEF Answered, Sync
  <2>4. ASSUME q = <<"COMMIT">>, e.res = "ok", ~is_failed, link = "up"
        PROVE  mine \subseteq srv'.durable
    <3>1. srv.block # "Failed" /\ srv.block # "Gone"
      BY <1>0, <2>4 DEF Sync, is_failed
    <3>2. e.srv = Effect(srv, q)
      BY <1>1, <2>4 DEF Answered, Errors
    <3>3. e.srv = EndBlock(srv, srv.work)
      BY <2>4, <3>1, <3>2 DEF Effect
    <3>4. mine \subseteq srv.work
      BY <1>0, <3>1 DEF Told
    <3> QED BY <1>0, <1>w, <3>3, <3>4, EndBlockType
  <2>5. ASSUME IF q = <<"COMMIT">> THEN e.res \notin {"ok", "abandoned", "transport"}
                                   ELSE e.res # "abandoned"
        PROVE  Clean
    <3>1. e.srv = EndBlock(srv, {})
      <4>1. CASE q = <<"COMMIT">>
        BY <1>1, <2>5, <4>1 DEF Answered, Failure
      <4>2. CASE q = <<"ROLLBACK">>
        BY <1>1, <4>2 DEF Answered, Errors, Accepts, Effect
      <4> QED BY <4>1, <4>2
    <3>2. {} \in SUBSET Rows /\ srv.durable \cup {} = srv.durable
      OBVIOUS
    <3>3. e.srv.durable = srv.durable /\ e.srv.block = "Idle" /\ RowsOf(e.srv) = {}
      <4>1. /\ EndBlock(srv, {}).block = "Idle" /\ RowsOf(EndBlock(srv, {})) = {}
            /\ EndBlock(srv, {}).durable = srv.durable \cup {}
        BY <1>0, <3>2, EndBlockType
      <4> QED BY <3>1, <3>2, <4>1
    <3> QED BY <1>0, <3>3 DEF Clean
  <2> QED BY <1>0, <1>1, <1>o, <1>r, <2>1, <2>2, <2>3, <2>4, <2>5
<1>2. CASE Live /\ LostWith(e, q)
  <2>1. PICK s : Outcome(q, s) /\ e.srv = Hangup(s)
    BY <1>2 DEF LostWith
  <2>2. /\ s \in Server /\ srv.durable \subseteq s.durable
        /\ \A r \in s.durable : r \in srv.durable \/ r \in RowsOf(srv)
        /\ q = <<"ROLLBACK">> => s.durable = srv.durable
    BY <1>2, <1>o, <2>1
  <2>3. /\ e.srv \in Server /\ e.srv.block = "Gone" /\ e.srv.durable = s.durable
        /\ RowsOf(e.srv) = {}
    BY <2>1, <2>2, HangupType
  <2>4. link' = "down" /\ status' = status /\ e.res = "transport"
    BY <1>0, <1>2 DEF LostWith
  <2>5. Sync' /\ ~Live'
    BY <1>0, <2>3, <2>4 DEF Sync, Live
  <2>6. q = <<"ROLLBACK">> => Clean
    BY <1>0, <2>2, <2>3, <2>5 DEF Clean
  <2> QED BY <1>0, <1>2, <1>r, <2>2, <2>3, <2>4, <2>5, <2>6
<1>3. CASE Live /\ LeftOpen(e, q)
  <2>1. Outcome(q, e.srv) /\ link' \in {"refused", "owed"} /\ status' = status /\ e.res = "abandoned"
    BY <1>0, <1>3 DEF LeftOpen
  <2>2. Sync'
    BY <1>0, <1>3, <1>o, <2>1 DEF Sync
  <2> QED BY <1>0, <1>3, <1>o, <1>r, <2>1, <2>2
<1>4. CASE ~Live /\ NotSent(e)
  <2>1. srv' = srv /\ link' = link /\ status' = status /\ e.res # "ok"
    BY <1>0, <1>4 DEF NotSent
  <2>2. Sync' /\ RowsOf(srv') = RowsOf(srv) /\ Live' = Live /\ Clean
    BY <1>0, <1>4, <2>1 DEF Sync, RowsOf, Live, Clean
  <2> QED BY <1>0, <1>4, <1>r, <2>1, <2>2
<1> QED BY <1>0, <1>1, <1>2, <1>3, <1>4, ExecuteEnds

(* What a report changes.                                                    *)
LEMMA ReportIs ==
    ASSUME NEW res, NEW rows, NEW none \in BOOLEAN, Report(res, rows, none)
    PROVE  /\ promised' = promised \cup rows
           /\ undone' = IF none THEN undone \cup {run} ELSE undone
           /\ \/ loop' = [loop EXCEPT !.on = FALSE]
              \/ /\ loop' = [loop EXCEPT !.attempt = @ + 1] /\ loop.on /\ loop.attempt < max_retries
                 /\ res \in {"serialization", "timeout"}
<1>1. undone' = undone \cup {r \in {run} : none} /\ promised' = promised \cup rows /\ NextAttempt(res)
  BY DEF Report
<1>2. CASE none
  BY <1>1, <1>2 DEF NextAttempt, is_retryable
<1>3. CASE ~none
  BY <1>1, <1>3 DEF NextAttempt, is_retryable
<1> QED BY <1>2, <1>3

(* commit(), and the end of with_transaction whose closure returned Ok.      *)
LEMMA CommitInv ==
    ASSUME TransactionInv, call # "none", UNCHANGED run, Over,
           NEW e \in execute(<<"COMMIT">>), Executed(e), Committed(e)
    PROVE  TransactionInv'
<1> DEFINE q == <<"COMMIT">>
<1>0. q \in {<<"COMMIT">>, <<"ROLLBACK">>} /\ e \in execute(q) /\ q = <<"COMMIT">>
  OBVIOUS
<1> HIDE DEF q
<1>1. /\ srv' \in Server /\ link' \in {"up", "owed", "refused", "down"} /\ status' \in Blocks
      /\ Sync' /\ srv.durable \subseteq srv'.durable
      /\ \A r \in srv'.durable : r \in srv.durable \/ (Live /\ call # "none" /\ r \in RowsOf(srv))
      /\ RowsOf(srv') \subseteq RowsOf(srv) /\ (Live' => Live)
      /\ e.res = "ok" /\ ~is_failed /\ link = "up" => mine \subseteq srv'.durable
      /\ e.res \notin {"ok", "abandoned", "transport"} => Clean
  BY <1>0, Ending
<1>2. run' \in {run, run + 1} /\ run' \in 0 .. MaxRuns
  BY DEF TransactionInv, Typed
<1>3. CASE e.res = "abandoned"
  <2>1. loop' = [loop EXCEPT !.on = FALSE] /\ promised' = promised \cup {} /\ undone' = undone
    BY <1>3 DEF Committed, Unheard
  <2> QED BY <1>1, <1>2, <2>1, Ended
<1>4. CASE e.res = "ok"
  <2> DEFINE rows == IF ~is_failed /\ link = "up" THEN mine ELSE {}
  <2>1. Report("ok", rows, FALSE)
    BY <1>4 DEF Committed
  <2>2. rows \subseteq srv'.durable
    BY <1>1, <1>4
  <2> HIDE DEF rows
  <2>3. loop' = [loop EXCEPT !.on = FALSE] /\ promised' = promised \cup rows /\ undone' = undone
    <3>1. /\ promised' = promised \cup rows
          /\ undone' = IF FALSE THEN undone \cup {run} ELSE undone
          /\ loop' = [loop EXCEPT !.on = FALSE] \/ "ok" \in {"serialization", "timeout"}
      BY <2>1, ReportIs, Zenon
    <3> QED BY <3>1
  <2> QED BY <1>1, <1>2, <2>2, <2>3, Ended
<1>5. CASE e.res \notin {"ok", "abandoned"}
  <2>1. CASE e.res = "transport"
    <3>1. Report(e.res, {}, FALSE)
      BY <1>5, <2>1 DEF Committed, Report
    <3>2. promised' = promised \cup {} /\ undone' = undone /\ loop' = [loop EXCEPT !.on = FALSE]
      BY <2>1, <3>1, ReportIs
    <3> QED BY <1>1, <1>2, <3>2, Ended
  <2>2. CASE e.res # "transport"
    <3>1. Report(e.res, {}, TRUE)
      BY <1>5, <2>2 DEF Committed, Report
    <3>2. /\ promised' = promised \cup {} /\ undone' = undone \cup {run} /\ Clean
          /\ \/ loop' = [loop EXCEPT !.on = FALSE]
             \/ /\ loop' = [loop EXCEPT !.attempt = @ + 1] /\ loop.on /\ loop.attempt < max_retries
                /\ loop.f = "with_transaction" => Clean
      BY <1>1, <1>5, <2>2, <3>1, ReportIs
    <3> QED BY <1>1, <1>2, <3>2, Ended
  <2> QED BY <2>1, <2>2
<1> QED BY <1>3, <1>4, <1>5

(* rollback(), and the end of with_transaction whose closure returned Err.   *)
LEMMA RollbackInv ==
    ASSUME TransactionInv, call # "none", UNCHANGED run, Over,
           NEW e \in execute(<<"ROLLBACK">>), Executed(e),
           Unheard \/ (e.res # "abandoned" /\ \E res : Report(res, {}, TRUE))
    PROVE  TransactionInv'
<1> DEFINE q == <<"ROLLBACK">>
<1>0. q \in {<<"COMMIT">>, <<"ROLLBACK">>} /\ e \in execute(q) /\ q # <<"COMMIT">>
  OBVIOUS
<1> HIDE DEF q
<1>1. /\ srv' \in Server /\ link' \in {"up", "owed", "refused", "down"} /\ status' \in Blocks
      /\ Sync' /\ srv.durable \subseteq srv'.durable
      /\ \A r \in srv'.durable : r \in srv.durable \/ (Live /\ call # "none" /\ r \in RowsOf(srv))
      /\ RowsOf(srv') \subseteq RowsOf(srv) /\ (Live' => Live)
      /\ e.res # "abandoned" => Clean
  BY <1>0, Ending
<1>2. run' \in {run, run + 1} /\ run' \in 0 .. MaxRuns /\ {} \subseteq srv'.durable
  BY DEF TransactionInv, Typed
<1>3. CASE Unheard
  <2>1. loop' = [loop EXCEPT !.on = FALSE] /\ promised' = promised \cup {} /\ undone' = undone
    BY <1>3 DEF Unheard
  <2> QED BY <1>1, <1>2, <2>1, Ended
<1>4. CASE e.res # "abandoned" /\ \E res : Report(res, {}, TRUE)
  <2>1. PICK res : Report(res, {}, TRUE)
    BY <1>4
  <2>2. /\ promised' = promised \cup {} /\ undone' = undone \cup {run} /\ Clean
        /\ \/ loop' = [loop EXCEPT !.on = FALSE]
           \/ /\ loop' = [loop EXCEPT !.attempt = @ + 1] /\ loop.on /\ loop.attempt < max_retries
              /\ loop.f = "with_transaction" => Clean
    BY <1>1, <1>4, <2>1, ReportIs
  <2> QED BY <1>1, <1>2, <2>2, Ended
<1> QED BY <1>3, <1>4

(* Drop for Transaction: only a closure outside with_transaction can leave   *)
(* its loop to try again with the block still open.                          *)
LEMMA DropTransactionInv ==
    ASSUME TransactionInv, drop_transaction
    PROVE  TransactionInv'
<1>0. Typed /\ Sync /\ Owned /\ Told /\ Looped
  BY DEF TransactionInv
<1>1. /\ call # "none" /\ UNCHANGED <<srv, link, status, run>> /\ Over
      /\ (call = "manual" /\ \E r \in Returned : Report(r, {}, FALSE)) \/ Unheard
  BY DEF drop_transaction
<1>2. /\ srv' \in Server /\ link' \in {"up", "owed", "refused", "down"} /\ status' \in Blocks
      /\ run' \in {run, run + 1} /\ run' \in 0 .. MaxRuns
      /\ srv.durable \subseteq srv'.durable /\ {} \subseteq srv'.durable
      /\ \A r \in srv'.durable : r \in srv.durable \/ (Live /\ call # "none" /\ r \in RowsOf(srv))
      /\ RowsOf(srv') \subseteq RowsOf(srv)
  BY <1>0, <1>1 DEF Typed
<1>3. Sync' /\ (Live' => Live)
  BY <1>0, <1>1 DEF Sync, Live
<1>4. CASE Unheard
  <2>1. loop' = [loop EXCEPT !.on = FALSE] /\ promised' = promised \cup {} /\ undone' = undone
    BY <1>4 DEF Unheard
  <2> QED BY <1>1, <1>2, <1>3, <2>1, Ended
<1>5. CASE call = "manual" /\ \E r \in Returned : Report(r, {}, FALSE)
  <2>1. loop.on => loop.f # "with_transaction"
    BY <1>0, <1>5 DEF Looped
  <2>2. /\ promised' = promised \cup {} /\ undone' = undone
        /\ \/ loop' = [loop EXCEPT !.on = FALSE]
           \/ /\ loop' = [loop EXCEPT !.attempt = @ + 1] /\ loop.on /\ loop.attempt < max_retries
              /\ loop.f = "with_transaction" => Clean
    BY <1>5, <2>1, ReportIs
  <2> QED BY <1>1, <1>2, <1>3, <2>2, Ended
<1> QED BY <1>1, <1>4, <1>5

(* with_retry and with_retry_any: a new loop begins with the next run.       *)
LEMMA WithRetryInv ==
    ASSUME TransactionInv, NEW f \in {"manual", "with_transaction"}, NEW any \in BOOLEAN,
           with_retry(f, any)
    PROVE  TransactionInv'
<1>0. Typed /\ Sync /\ Owned /\ Told
  BY DEF TransactionInv
<1>1. /\ call = "none" /\ UNCHANGED <<srv, link, status, handles, history>>
      /\ loop' = [on |-> TRUE, f |-> f, any |-> any, attempt |-> 0, first |-> run + 1]
  BY DEF with_retry
<1>2. /\ UNCHANGED <<srv, link, status, call, depth, guard, error, run, mine, mark, promised, undone>>
  BY <1>1 DEF handles, history
<1>3. run \in Nat /\ srv.durable \in SUBSET Rows /\ RowsOf(srv) \in SUBSET Rows
      /\ \A r \in Rows : r[1] \in Nat
  BY <1>0, RowRun
<1>4. \A r \in srv.durable \cup RowsOf(srv) : r[1] < run + 1 /\ ~(r[1] >= run + 1)
  BY <1>0, <1>3 DEF Owned
<1>5. Sync' /\ Owned' /\ Told'
  <2>1. RowsOf(srv') = RowsOf(srv) /\ Live' = Live
    BY <1>2 DEF Live
  <2>2. Sync'
    BY <1>0, <1>2 DEF Sync
  <2>3. Owned'
    BY <1>0, <1>2, <2>1 DEF Owned, ErrMeansUndone
  <2>4. Told'
    BY <1>0, <1>2 DEF Told, GuardIsInnermost, OkMeansDurable
  <2> QED BY <2>2, <2>3, <2>4
<1>6. loop' \in Loops
  <2>1. 0 \in 0 .. max_retries /\ run + 1 \in Nat
    BY <1>3, BoundsAssumption
  <2> QED BY <1>1, <2>1 DEF Loops
<1>7. Typed'
  BY <1>0, <1>2, <1>6 DEF Typed
<1>8. /\ loop'.first = run + 1 /\ loop'.attempt = 0
  BY <1>1
<1>9. RetryAtMostOnce' /\ WithTransactionRetriesIdle'
  BY <1>2, <1>4, <1>8 DEF RetryAtMostOnce, WithTransactionRetriesIdle
<1>10. Looped'
  <2>1. loop'.first <= run' + 1
    BY <1>2, <1>3, <1>8
  <2>2. loop'.on
    BY <1>1
  <2>3. (\A r \in srv'.durable : r[1] < loop'.first) /\ \A r \in RowsOf(srv') : ~(r[1] >= loop'.first)
    BY <1>2, <1>4, <1>8
  <2> QED BY <1>1, <1>2, <1>9, <2>1, <2>2, <2>3 DEF Looped
<1> QED BY <1>5, <1>7, <1>10 DEF TransactionInv

(* Connection::transaction.                                                  *)
LEMMA BeginInv ==
    ASSUME TransactionInv, NEW by \in {"manual", "with_transaction"}, transaction(by)
    PROVE  TransactionInv'
<1> DEFINE q == <<"BEGIN">>
<1>0. Typed /\ Sync /\ Owned /\ Told /\ Looped
  BY DEF TransactionInv
<1>1. PICK e \in execute(q) :
        /\ Executed(e)
        /\ \/ /\ e.res = "ok"
              /\ call' = by /\ depth' = 0 /\ guard' = NoGuard /\ error' = "none"
              /\ mine' = {} /\ mark' = {} /\ UNCHANGED <<promised, undone>>
              /\ loop' = IF loop.on THEN loop ELSE NoLoop
           \/ e.res \notin {"ok", "abandoned"} /\ Over /\ Report(e.res, {}, FALSE)
           \/ e.res = "abandoned" /\ Over /\ Unheard
  BY DEF transaction
<1>2. call = "none" /\ run < MaxRuns /\ (loop.on => by = loop.f) /\ run' = run + 1
  BY DEF transaction
<1>3. run \in Nat /\ run' \in 0 .. MaxRuns /\ srv \in Server
  BY <1>0, <1>2, BoundsAssumption DEF Typed
<1>4. ASSUME Live, NEW s, Outcome(q, s)
      PROVE  /\ s \in Server /\ s.block # "Gone" /\ s.durable = srv.durable
             /\ RowsOf(s) \subseteq RowsOf(srv) \cup {}
  <2>1. srv.block # "Gone"
    BY <1>0, <1>4 DEF Sync, Live
  <2>2. /\ s \in Server /\ s.block # "Gone" /\ s.durable = srv.durable
        /\ s.work = srv.work /\ s.saves = srv.saves
    BY <1>3, <1>4, <2>1, BeginOutcome
  <2> QED BY <2>2 DEF RowsOf
<1>5. /\ srv' \in Server /\ link' \in {"up", "owed", "refused", "down"} /\ status' \in Blocks
      /\ Sync' /\ srv'.durable = srv.durable /\ RowsOf(srv') \subseteq RowsOf(srv) /\ (Live' => Live)
  <2>1. {} \in SUBSET Rows
    OBVIOUS
  <2> HIDE DEF q
  <2>2. /\ srv' \in Server /\ link' \in {"up", "owed", "refused", "down"} /\ status' \in Blocks
        /\ Sync' /\ srv'.durable = srv.durable /\ RowsOf(srv') \subseteq RowsOf(srv) \cup {}
        /\ Live' => Live
    BY <1>0, <1>1, <1>4, <2>1, Inside
  <2> QED BY <2>2
<1>6. ASSUME Over, promised' = promised \cup {}, undone' = undone, loop' = [loop EXCEPT !.on = FALSE]
      PROVE  TransactionInv'
  <2>1. run' \in {run, run + 1} /\ srv.durable \subseteq srv'.durable /\ {} \subseteq srv'.durable
        /\ \A r \in srv'.durable : r \in srv.durable
    BY <1>2, <1>5
  <2> QED BY <1>3, <1>5, <1>6, <2>1, Ended
<1>7. CASE /\ e.res = "ok"
           /\ call' = by /\ depth' = 0 /\ guard' = NoGuard /\ error' = "none"
           /\ mine' = {} /\ mark' = {} /\ UNCHANGED <<promised, undone>>
           /\ loop' = IF loop.on THEN loop ELSE NoLoop
  <2>1. /\ \A r \in Rows : r[1] \in Nat
        /\ srv.durable \in SUBSET Rows /\ RowsOf(srv) \in SUBSET Rows /\ loop.first \in Nat
    BY <1>0, RowRun
  <2>2. Owned'
    <3>1. run' >= 1 /\ 1 .. run \subseteq 1 .. run' /\ run' \notin 1 .. run
      BY <1>2, <1>3
    <3>2. \A r \in srv.durable \cup RowsOf(srv) : r[1] < run' /\ r[1] <= run'
      BY <1>0, <1>2, <1>3, <2>1 DEF Owned
    <3>3. undone' = undone /\ undone \subseteq 1 .. run
      BY <1>0, <1>7 DEF Owned
    <3>4. Live' => \A r \in RowsOf(srv') : r[1] \notin undone'
      BY <1>0, <1>5, <3>3 DEF Owned
    <3>5. ErrMeansUndone'
      BY <1>0, <1>5, <3>3 DEF Owned, ErrMeansUndone
    <3> QED BY <1>5, <3>1, <3>2, <3>3, <3>4, <3>5 DEF Owned
  <2>3. Told'
    <3>1. OkMeansDurable'
      BY <1>0, <1>5, <1>7 DEF Told, OkMeansDurable
    <3> QED BY <1>7, <3>1, NoGuardTold
  <2>4. loop' \in Loops /\ Looped'
    <3>1. CASE loop.on
      <4>1. loop' = loop /\ call' = loop.f /\ call' # "none" /\ loop \in Loops
        BY <1>0, <1>2, <1>7, <3>1 DEF Typed
      <4>2. loop.first <= run' + 1
        BY <1>0, <1>2, <1>3, <2>1 DEF Looped
      <4>3. loop.f = "with_transaction" =>
              /\ \A r \in srv'.durable : r[1] < loop.first
              /\ Live' => \A r \in RowsOf(srv') : ~(r[1] >= loop.first)
        BY <1>0, <1>2, <1>5, <3>1 DEF Looped
      <4>4. RetryAtMostOnce' /\ WithTransactionRetriesIdle'
        BY <1>0, <1>5, <4>1 DEF Looped, RetryAtMostOnce, WithTransactionRetriesIdle
      <4> QED BY <3>1, <4>1, <4>2, <4>3, <4>4 DEF Looped
    <3>2. CASE ~loop.on
      <4>1. loop' = NoLoop
        BY <1>7, <3>2
      <4>2. NoLoop \in Loops
        BY BoundsAssumption DEF NoLoop, Loops
      <4>3. NoLoop.on = FALSE /\ NoLoop.f = "manual" /\ NoLoop.first = 1
        BY DEF NoLoop
      <4>4. 1 <= run' + 1
        BY <1>2, <1>3
      <4>5. RetryAtMostOnce' /\ WithTransactionRetriesIdle'
        BY <4>1, <4>3 DEF RetryAtMostOnce, WithTransactionRetriesIdle
      <4> QED BY <4>1, <4>2, <4>3, <4>4, <4>5 DEF Looped
    <3> QED BY <3>1, <3>2
  <2>5. Typed'
    <3>1. depth' \in Nat /\ mine' \in SUBSET Rows /\ mark' \in SUBSET mine'
          /\ call' \in {"none", "manual", "with_transaction"}
          /\ guard' \in [name : Names, released : {FALSE}] \cup {NoGuard}
      BY <1>7
    <3> QED BY <1>0, <1>3, <1>5, <1>7, <2>4, <3>1 DEF Typed
  <2> QED BY <1>5, <2>2, <2>3, <2>4, <2>5 DEF TransactionInv
<1>8. CASE e.res \notin {"ok", "abandoned"} /\ Over /\ Report(e.res, {}, FALSE)
  <2>1. e.res \notin {"serialization", "timeout"}
    <3>1. Errors(srv, q) \subseteq {"other"}
      BY DEF Errors
    <3> HIDE DEF q
    <3> QED BY <1>0, <3>1, ExecuteResults
  <2>2. promised' = promised \cup {} /\ undone' = undone /\ loop' = [loop EXCEPT !.on = FALSE]
    BY <1>8, <2>1, ReportIs
  <2> QED BY <1>6, <1>8, <2>2
<1>9. CASE e.res = "abandoned" /\ Over /\ Unheard
  <2>1. promised' = promised \cup {} /\ undone' = undone /\ loop' = [loop EXCEPT !.on = FALSE]
    BY <1>9 DEF Unheard
  <2> QED BY <1>6, <1>9, <2>1
<1> QED BY <1>1, <1>7, <1>8, <1>9

-----------------------------------------------------------------------------
(* The invariant.                                                            *)

(* A fresh connection.                                                       *)
LEMMA InitTransaction == Init => TransactionInv
<1> SUFFICES ASSUME Init PROVE TransactionInv
  OBVIOUS
<1>1. /\ srv.block = "Idle" /\ srv.work = {} /\ srv.saves = NoSaves /\ srv.durable = {}
      /\ srv \in Server
  <2>1. srv = [block |-> "Idle", work |-> {}, saves |-> NoSaves, durable |-> {}]
    BY DEF Init
  <2>2. srv \in [block : Blocks \cup {"Gone"}, work : SUBSET Rows, saves : Seq(Saves),
                 durable : SUBSET Rows]
    BY <2>1, NoSavesType DEF Blocks
  <2>3. Len(srv.saves) <= MaxSaves
    BY <2>1, NoSavesType, BoundsAssumption
  <2> QED BY <2>1, <2>2, <2>3 DEF Server
<1>2. RowsOf(srv) = {}
  BY <1>1, NoSavesType DEF RowsOf
<1>3. NoLoop \in Loops /\ NoLoop.on = FALSE /\ NoLoop.f = "manual" /\ NoLoop.first = 1
  BY BoundsAssumption DEF NoLoop, Loops
<1>4. Typed
  BY <1>1, <1>3, BoundsAssumption DEF Init, Typed, Blocks
<1>5. Sync /\ Owned /\ Told /\ Looped
  <2>1. Sync
    BY <1>1 DEF Init, Sync
  <2>2. Owned
    BY <1>1, <1>2 DEF Init, Owned, ErrMeansUndone
  <2>3. Told
    BY <1>1 DEF Init, Told, GuardIsInnermost, OkMeansDurable
  <2>4. Looped
    BY <1>1, <1>3 DEF Init, Looped, RetryAtMostOnce, WithTransactionRetriesIdle
  <2> QED BY <2>1, <2>2, <2>3, <2>4
<1> QED BY <1>4, <1>5 DEF TransactionInv

(* Every step keeps the invariant.                                           *)
LEMMA NextTransaction == TransactionInv /\ [Next]_vars => TransactionInv'
<1> SUFFICES ASSUME TransactionInv, [Next]_vars PROVE TransactionInv'
  OBVIOUS
<1>1. ASSUME NEW f \in {"manual", "with_transaction"}, NEW any \in BOOLEAN, with_retry(f, any)
      PROVE  TransactionInv'
  BY <1>1, WithRetryInv
<1>2. ASSUME NEW by \in {"manual", "with_transaction"}, transaction(by)
      PROVE  TransactionInv'
  BY <1>2, BeginInv
<1>3. ASSUME NEW i \in Ids, Statement(i)
      PROVE  TransactionInv'
  BY <1>3, StatementInv
<1>4. ASSUME NEW n \in Names, savepoint(n)
      PROVE  TransactionInv'
  BY <1>4, SavepointInv
<1>5. CASE release
  BY <1>5, ReleaseInv
<1>6. CASE rollback_to
  BY <1>6, RollbackToInv
<1>7. CASE drop_savepoint
  BY <1>7, DropSavepointInv
<1>8. CASE commit \/ closure_ok
  <2>1. call # "none" /\ UNCHANGED run /\ Over
        /\ \E e \in execute(<<"COMMIT">>) : Executed(e) /\ Committed(e)
    BY <1>8 DEF commit, closure_ok
  <2> QED BY <2>1, CommitInv
<1>9. CASE rollback
  <2>1. /\ call # "none" /\ UNCHANGED run /\ Over
        /\ \E e \in execute(<<"ROLLBACK">>) :
             /\ Executed(e)
             /\ Unheard \/ (e.res # "abandoned" /\ \E res : Report(res, {}, TRUE))
    BY <1>9 DEF rollback
  <2> QED BY <2>1, RollbackInv
<1>10. CASE closure_err
  <2>1. /\ call # "none" /\ UNCHANGED run /\ Over
        /\ \E e \in execute(<<"ROLLBACK">>) :
             /\ Executed(e)
             /\ Unheard \/ (e.res # "abandoned" /\ \E res : Report(res, {}, TRUE))
    BY <1>10 DEF closure_err
  <2> QED BY <2>1, RollbackInv
<1>11. CASE drop_transaction
  BY <1>11, DropTransactionInv
<1>12. CASE UNCHANGED vars
  <2>1. UNCHANGED <<srv, link, status, call, depth, guard, loop, run, mine, mark, promised, undone>>
    BY <1>12 DEF vars, handles, history
  <2>2. Typed'
    BY <2>1 DEF TransactionInv, Typed
  <2>3. Sync' /\ Told'
    BY <2>1 DEF TransactionInv, Sync, Told, GuardIsInnermost, OkMeansDurable
  <2>4. Owned'
    BY <2>1 DEF TransactionInv, Owned, Live, ErrMeansUndone
  <2>5. Looped'
    BY <2>1 DEF TransactionInv, Looped, Live, RetryAtMostOnce, WithTransactionRetriesIdle
  <2> QED BY <2>2, <2>3, <2>4, <2>5 DEF TransactionInv
<1> QED BY <1>1, <1>2, <1>3, <1>4, <1>5, <1>6, <1>7, <1>8, <1>9, <1>10, <1>11, <1>12 DEF Next

(* The invariant holds in every behaviour.                                   *)
LEMMA Invariance == Spec => []TransactionInv
BY InitTransaction, NextTransaction, PTL DEF Spec

(* Type correctness of the server's session, the guards and the loop.        *)
THEOREM TransactionTypeCorrect == Spec => []TypeOK
<1>1. TransactionInv => TypeOK
  <2> SUFFICES ASSUME Typed PROVE TypeOK
    BY DEF TransactionInv
  <2>1. /\ srv.block \in {"Idle", "InTransaction", "Failed", "Gone"}
        /\ srv.work \subseteq Rows /\ srv.durable \subseteq Rows /\ Len(srv.saves) <= MaxSaves
        /\ \A i \in DOMAIN srv.saves : srv.saves[i] \in Saves
    BY ServerParts DEF Typed, Blocks
  <2>2. \A i \in DOMAIN srv.saves : srv.saves[i].name \in Names /\ srv.saves[i].work \subseteq Rows
    BY <2>1 DEF Saves
  <2>3. loop.attempt \in 0 .. max_retries
    BY DEF Typed, Loops
  <2> QED BY <2>1, <2>2, <2>3 DEF Typed, TypeOK, Blocks
<1> QED BY <1>1, Invariance, PTL

(* When commit() or with_transaction() returns Ok, the rows of its           *)
(* statements are committed, provided is_failed() was false just before and  *)
(* no answer was outstanding.                                                *)
THEOREM TransactionOkMeansDurable == Spec => []OkMeansDurable
<1>1. TransactionInv => OkMeansDurable
  BY DEF TransactionInv, Told
<1> QED BY <1>1, Invariance, PTL

(* A transaction that reported its failure leaves no row behind, whatever    *)
(* is done on its connection afterwards.                                     *)
THEOREM TransactionErrMeansUndone == Spec => []ErrMeansUndone
<1>1. TransactionInv => ErrMeansUndone
  BY DEF TransactionInv, Owned
<1> QED BY <1>1, Invariance, PTL

(* release() and rollback() of a Savepoint act on that Savepoint.            *)
THEOREM TransactionGuardIsInnermost == Spec => []GuardIsInnermost
<1>1. TransactionInv => GuardIsInnermost
  BY DEF TransactionInv, Told
<1> QED BY <1>1, Invariance, PTL

(* A retry loop around with_transaction commits the rows of one attempt.     *)
THEOREM TransactionRetryAtMostOnce == Spec => []RetryAtMostOnce
<1>1. TransactionInv => RetryAtMostOnce
  BY DEF TransactionInv, Looped
<1> QED BY <1>1, Invariance, PTL

(* Between two attempts of such a loop no block is open.                     *)
THEOREM TransactionRetriesIdle == Spec => []WithTransactionRetriesIdle
<1>1. TransactionInv => WithTransactionRetriesIdle
  BY DEF TransactionInv, Looped
<1> QED BY <1>1, Invariance, PTL
=============================================================================
