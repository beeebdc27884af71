------------------------------- MODULE Pool -------------------------------
(***************************************************************************)
(* The connection pool (pool/core.rs, pool/guard.rs, pool/config.rs).       *)
(*                                                                         *)
(* PoolInner lives behind a mutex.  Every critical section of the code is  *)
(* one action here; what a task does between two critical sections, an     *)
(* .await or just a gap between unlock and the next lock, is a value of    *)
(* pc, so every interleaving of tasks at those points is explored.         *)
(* notify_waiters follows its critical section with no await in between    *)
(* and is part of the same action.                                         *)
(***************************************************************************)
EXTENDS Naturals, Sequences, FiniteSets

CONSTANTS
    Tasks,    \* the async tasks (or threads) that share the pool
    Conns,    \* identities of sockets; one is reused after it is closed
    Configs   \* the PoolConfig values the pool may be built with

VARIABLES
    config,         \* PoolInner.config, fixed by Pool::new
    idle,           \* PoolInner.idle, front first
    active_count,   \* PoolInner.active_count
    pending_count,  \* PoolInner.pending_count
    closed,         \* PoolInner.closed
    wake,           \* number of tokens in the bounded(1) wake channel
    dropped,        \* the Pool value itself has been dropped
    pc,             \* where each task is between two critical sections
    call,           \* which acquire function the task called
    timed,          \* tasks inside acquire_with_timeout
    late,           \* of those, the ones whose deadline has passed
    hand,           \* connections a task owns (a guard's, or on their way)
    tx,             \* transaction_status of a connection
    busy,           \* connections with is_idle() = false
    dead,           \* connections whose server side is gone
    old,            \* connections older than max_lifetime
    stale,          \* idle connections unused for longer than idle_timeout
    unclean,        \* history: last returned by PoolGuard::drop, not release
    lateCall        \* history: tasks whose acquire call began after close

inner    == <<config, idle, active_count, pending_count, closed>>
connVars == <<tx, busy, dead, old, stale, unclean>>
callVars == <<call, timed, late, lateCall>>
vars     == <<inner, wake, dropped, pc, callVars, hand, connVars>>

-----------------------------------------------------------------------------
(* What PoolConfig keeps of each Option<Duration> is whether it is set: when *)
(* a duration elapses is the environment's choice.                           *)
PoolConfig ==
    [max_size : Nat, min_idle : Nat, test_on_acquire : BOOLEAN,
     acquire_timeout : BOOLEAN, max_lifetime : BOOLEAN, idle_timeout : BOOLEAN,
     before_return : BOOLEAN, tokio_transport : BOOLEAN]

validate(cfg) == cfg.max_size > 0 /\ cfg.min_idle <= cfg.max_size

ASSUME ConfigsAssumption ==
    Configs \subseteq PoolConfig /\ \A cfg \in Configs : validate(cfg)

ASSUME TasksAssumption == IsFiniteSet(Tasks) /\ Tasks # {}

TransactionStatus == {"Idle", "InTransaction", "Failed"}

(* Program points.  "rest": no pool call under way.  "guard": the task holds *)
(* a PoolGuard.  The others are named for what the task will do next.        *)
Points ==
    {"rest", "decide", "discard", "check", "ready", "create", "ping", "wait",
     "close_retry", "guard", "close_end", "reset", "put", "close_min",
     "maintain_min_idle", "min_create"}

Acquiring == {"decide", "discard", "check", "ready", "create", "ping", "wait",
              "close_retry"}

At(S) == {t \in Tasks : pc[t] \in S}

total == Len(idle) + active_count + pending_count

InIdle == {idle[i] : i \in 1..Len(idle)}
Open   == InIdle \cup UNION {hand[t] : t \in Tasks}
Free   == Conns \ Open

saturating_sub(n) == IF n > 0 THEN n - 1 ELSE 0

(* The wake channel is bounded(1) and written with try_send: a second token  *)
(* is dropped.  Mutant: an unbounded channel.                                *)
notify_waitersUnbounded == wake' = wake + 1

notify_waiters == wake' = 1

Goto(t, p) == pc' = [pc EXCEPT ![t] = p]
Hold(t, S) == hand' = [hand EXCEPT ![t] = S]

(* An acquire returns: its locals (the deadline among them) are gone.        *)
Finish(t, p) ==
    /\ Goto(t, p)
    /\ call' = [call EXCEPT ![t] = "acquire"]
    /\ timed' = timed \ {t}
    /\ late' = late \ {t}
    /\ UNCHANGED lateCall

(* Closing or dropping connections S: nothing of their session survives.     *)
Forget(S) ==
    /\ tx' = [c \in Conns |-> IF c \in S THEN "Idle" ELSE tx[c]]
    /\ busy' = busy \ S
    /\ dead' = dead \ S
    /\ old' = old \ S
    /\ stale' = stale \ S
    /\ unclean' = unclean \ S

is_expired(c) == (config.max_lifetime /\ c \in old) \/ (config.idle_timeout /\ c \in stale)

-----------------------------------------------------------------------------
(* Pool::new pre-warms up to min_idle connections; a failure is only logged. *)
new ==
    /\ config \in Configs
    /\ \E n \in 0..config.min_idle :
          idle \in {s \in [1..n -> Conns] : \A i, j \in 1..n : s[i] = s[j] => i = j}
    /\ active_count = 0
    /\ pending_count = 0
    /\ closed = FALSE
    /\ wake = 0
    /\ dropped = FALSE

Init ==
    /\ new
    /\ pc = [t \in Tasks |-> "rest"]
    /\ call = [t \in Tasks |-> "acquire"]
    /\ timed = {} /\ late = {} /\ lateCall = {}
    /\ hand = [t \in Tasks |-> {}]
    /\ tx = [c \in Conns |-> "Idle"]
    /\ busy = {} /\ dead = {} /\ old = {} /\ stale = {} /\ unclean = {}

-----------------------------------------------------------------------------
(* acquire(), acquire_resilient() and acquire_with_timeout()                 *)

Acquire(t, kind) ==
    /\ pc[t] = "rest" /\ ~dropped
    /\ call' = [call EXCEPT ![t] = kind]
    /\ lateCall' = IF closed THEN lateCall \cup {t} ELSE lateCall \ {t}
    /\ Goto(t, "decide")
    /\ UNCHANGED <<timed, late, inner, wake, dropped, hand, connVars>>

(* The critical section that picks the AcquireDecision, and what follows it  *)
(* up to the next lock or await.                                             *)
HealthChecked(t) ==
    config.test_on_acquire \/ (call[t] = "acquire_resilient" /\ t \notin timed)

DecideClosed(t) ==
    /\ pc[t] = "decide" /\ closed
    /\ Finish(t, "rest")
    /\ UNCHANGED <<inner, wake, dropped, hand, connVars>>

(* Mutant: the closed check is done only once no idle connection is left.    *)
DecideIdleUnchecked(t) ==
    /\ pc[t] = "decide" /\ idle # <<>>
    /\ Goto(t, IF is_expired(Head(idle)) THEN "discard"
               ELSE IF HealthChecked(t) THEN "check" ELSE "ready")
    /\ UNCHANGED <<inner, wake, dropped, callVars, hand, connVars>>

DecideIdle(t) ==
    /\ pc[t] = "decide" /\ ~closed /\ idle # <<>>
    /\ Goto(t, IF is_expired(Head(idle)) THEN "discard"
               ELSE IF HealthChecked(t) THEN "check" ELSE "ready")
    /\ UNCHANGED <<inner, wake, dropped, callVars, hand, connVars>>

DecideCreate(t) ==
    /\ pc[t] = "decide" /\ ~closed /\ idle = <<>> /\ total < config.max_size
    /\ pending_count' = pending_count + 1
    /\ Goto(t, "create")
    /\ UNCHANGED <<config, idle, active_count, closed, wake, dropped, callVars,
                   hand, connVars>>

(* Exhausted: acquire and acquire_resilient turn into acquire_with_timeout   *)
(* when one is configured, and fail at once when none is.                    *)
ExhaustedUntimed(t) ==
    /\ t \notin timed
    /\ \/ /\ config.acquire_timeout
          /\ timed' = timed \cup {t}
          /\ UNCHANGED <<pc, call, late, lateCall>>
       \/ ~config.acquire_timeout /\ Finish(t, "rest")

(* acquire_with_timeout waits unless it is too late.                         *)
ExhaustedTimed(t) ==
    /\ t \in timed
    /\ IF t \in late THEN Finish(t, "rest") ELSE Goto(t, "wait") /\ UNCHANGED callVars

DecideExhausted(t) ==
    /\ pc[t] = "decide" /\ ~closed /\ idle = <<>> /\ total >= config.max_size
    /\ ExhaustedUntimed(t) \/ ExhaustedTimed(t)
    /\ UNCHANGED <<inner, wake, dropped, hand, connVars>>

(* The second critical section of an iteration: pop whatever is in front now.*)
PopFront(t) ==
    /\ idle # <<>>
    /\ idle' = Tail(idle)
    /\ Hold(t, {Head(idle)})

DiscardExpired(t) ==
    /\ pc[t] = "discard"
    /\ PopFront(t) /\ Goto(t, "close_retry")
    /\ UNCHANGED <<config, active_count, pending_count, closed, wake, dropped,
                   callVars, connVars>>

NeedsHealthCheck(t) ==
    /\ pc[t] = "check"
    /\ PopFront(t) /\ Goto(t, "ping")
    /\ UNCHANGED <<config, active_count, pending_count, closed, wake, dropped,
                   callVars, connVars>>

Ready(t) ==
    /\ pc[t] = "ready"
    /\ PopFront(t) /\ Finish(t, "guard")
    /\ active_count' = active_count + 1
    /\ UNCHANGED <<config, pending_count, closed, wake, dropped, connVars>>

(* Race: the connection was taken between our check and our pop.             *)
LostRace(t) ==
    /\ pc[t] \in {"discard", "check", "ready"} /\ idle = <<>>
    /\ Goto(t, "decide")
    /\ UNCHANGED <<inner, wake, dropped, callVars, hand, connVars>>

(* ping() is a SELECT 1: it fails on a dead socket and in a failed block.    *)
Healthy(c) == c \notin dead /\ tx[c] # "Failed"

PingOk(t) ==
    /\ pc[t] = "ping" /\ \A c \in hand[t] : Healthy(c)
    /\ active_count' = active_count + 1
    /\ Finish(t, "guard")
    /\ UNCHANGED <<config, idle, pending_count, closed, wake, dropped, hand,
                   connVars>>

PingErr(t) ==
    /\ pc[t] = "ping" /\ \E c \in hand[t] : ~Healthy(c)
    /\ Goto(t, "close_retry")
    /\ UNCHANGED <<inner, wake, dropped, callVars, hand, connVars>>

(* create_connection (or create_connection_with_retry) returned.             *)
CreateOk(t) ==
    /\ pc[t] = "create"
    /\ \E c \in Free : Hold(t, {c})
    /\ pending_count' = saturating_sub(pending_count)
    /\ IF closed
       THEN Finish(t, "close_end") /\ UNCHANGED active_count
       ELSE Finish(t, "guard") /\ active_count' = active_count + 1
    /\ UNCHANGED <<config, idle, closed, wake, dropped, connVars>>

(* Mutant: the error path takes its connect back twice.                      *)
CreateErrTwice(t) ==
    /\ pc[t] = "create"
    /\ pending_count' = saturating_sub(saturating_sub(pending_count))
    /\ Finish(t, "rest")
    /\ UNCHANGED <<config, idle, active_count, closed, wake, dropped, hand,
                   connVars>>

CreateErr(t) ==
    /\ pc[t] = "create"
    /\ pending_count' = saturating_sub(pending_count)
    /\ Finish(t, "rest")
    /\ UNCHANGED <<config, idle, active_count, closed, wake, dropped, hand,
                   connVars>>

(* Mutant: the wait is not cut short by the deadline.                        *)
WaitEndsOnEvent(t) ==
    /\ pc[t] = "wait"
    /\ wake = 1 /\ wake' = 0
    /\ Goto(t, "decide")
    /\ UNCHANGED <<inner, dropped, callVars, hand, connVars>>

(* wait_for_pool_event: a token, the timeout, or (without tokio) a sleep.    *)
WaitEnds(t) ==
    /\ pc[t] = "wait"
    /\ \/ config.tokio_transport /\ wake = 1 /\ wake' = 0
       \/ (t \in late \/ ~config.tokio_transport) /\ UNCHANGED wake
    /\ Goto(t, "decide")
    /\ UNCHANGED <<inner, dropped, callVars, hand, connVars>>

-----------------------------------------------------------------------------
(* PoolGuard: release, detach and Drop                                       *)

(* Mutant: release resets a connection in mid-exchange like any other.       *)
ReleaseAnyState(t) ==
    /\ pc[t] = "guard"
    /\ active_count' = saturating_sub(active_count)
    /\ Goto(t, IF closed THEN "close_end" ELSE "reset")
    /\ UNCHANGED <<config, idle, pending_count, closed, wake, dropped, callVars,
                   hand, connVars>>

(* Mutant: release does not ask whether the pool is closed.                  *)
ReleaseToClosed(t) ==
    /\ pc[t] = "guard"
    /\ active_count' = saturating_sub(active_count)
    /\ Goto(t, IF hand[t] \cap busy # {} THEN "close_min" ELSE "reset")
    /\ UNCHANGED <<config, idle, pending_count, closed, wake, dropped, callVars,
                   hand, connVars>>

(* release_with_metadata, step 1 (the critical section) and step 2.          *)
Release(t) ==
    /\ pc[t] = "guard"
    /\ active_count' = saturating_sub(active_count)
    /\ Goto(t, IF closed THEN "close_end"
               ELSE IF hand[t] \cap busy # {} THEN "close_min" ELSE "reset")
    /\ UNCHANGED <<config, idle, pending_count, closed, wake, dropped, callVars,
                   hand, connVars>>

(* Step 3: reset_connection sends ROLLBACK if a block is open, then the      *)
(* before_return hook; with neither to send it succeeds on a dead socket.    *)
NeedsReset(c) == tx[c] # "Idle" \/ config.before_return

ResetOk(t) ==
    /\ pc[t] = "reset"
    /\ \A c \in hand[t] : NeedsReset(c) => c \notin dead
    /\ tx' = [c \in Conns |-> IF c \in hand[t] THEN "Idle" ELSE tx[c]]
    /\ Goto(t, IF config.max_lifetime /\ hand[t] \cap old # {}
               THEN "close_min" ELSE "put")
    /\ UNCHANGED <<inner, wake, dropped, callVars, hand, busy, dead, old, stale,
                   unclean>>

ResetErr(t) ==
    /\ pc[t] = "reset" /\ \E c \in hand[t] : NeedsReset(c)
    /\ Goto(t, "close_min")
    /\ UNCHANGED <<inner, wake, dropped, callVars, hand, connVars>>

PushFront(c) ==      \* mutant: push_front() where push_back() is meant
    /\ idle' = <<c>> \o idle
    /\ stale' = stale \ {c}

(* Appending a connection to idle restarts its idle_timeout clock.           *)
PushBack(c) ==
    /\ idle' = Append(idle, c)
    /\ stale' = stale \ {c}

(* Step 4: back to idle, then wake a waiter.                                 *)
Return(t) ==
    /\ pc[t] = "put"
    /\ \E c \in hand[t] : PushBack(c) /\ unclean' = unclean \ {c}
    /\ Hold(t, {})
    /\ notify_waiters
    /\ Goto(t, "rest")
    /\ UNCHANGED <<config, active_count, pending_count, closed, dropped,
                   callVars, tx, busy, dead, old>>

(* Drop for PoolGuard: no await, so no reset.                                *)
DropGuard(t) ==
    /\ pc[t] = "guard"
    /\ active_count' = saturating_sub(active_count)
    /\ IF hand[t] \cap busy # {} \/ closed
       THEN Forget(hand[t]) /\ UNCHANGED idle
       ELSE /\ \E c \in hand[t] : PushBack(c) /\ unclean' = unclean \cup {c}
            /\ UNCHANGED <<tx, busy, dead, old>>
    /\ Hold(t, {})
    /\ notify_waiters
    /\ Goto(t, "rest")
    /\ UNCHANGED <<config, pending_count, closed, dropped, callVars>>

(* detach: the connection leaves the pool's books; the caller owns it.       *)
detach(t) ==
    /\ pc[t] = "guard"
    /\ active_count' = saturating_sub(active_count)
    /\ Forget(hand[t])
    /\ Hold(t, {})
    /\ notify_waiters
    /\ Goto(t, "rest")
    /\ UNCHANGED <<config, idle, pending_count, closed, dropped, callVars>>

(* maintain_min_idle, after a release has discarded its connection.          *)
MinIdleDecide(t) ==
    /\ pc[t] = "maintain_min_idle"
    /\ IF closed \/ Len(idle) + pending_count >= config.min_idle
       THEN Goto(t, "rest") /\ UNCHANGED pending_count
       ELSE Goto(t, "min_create") /\ pending_count' = pending_count + 1
    /\ UNCHANGED <<config, idle, active_count, closed, wake, dropped, callVars,
                   hand, connVars>>

MinIdleCreated(t) ==
    /\ pc[t] = "min_create"
    /\ pending_count' = saturating_sub(pending_count)
    /\ \E c \in Free :
          IF closed \/ Len(idle) >= config.min_idle
          THEN /\ Hold(t, {c}) /\ Goto(t, "close_end")
               /\ UNCHANGED <<idle, stale, wake>>
          ELSE PushBack(c) /\ notify_waiters /\ Goto(t, "rest") /\ UNCHANGED hand
    /\ UNCHANGED <<config, active_count, closed, dropped, callVars, tx, busy,
                   dead, old, unclean>>

MinIdleFailed(t) ==
    /\ pc[t] = "min_create"
    /\ pending_count' = saturating_sub(pending_count)
    /\ Goto(t, "rest")
    /\ UNCHANGED <<config, idle, active_count, closed, wake, dropped, callVars,
                   hand, connVars>>

-----------------------------------------------------------------------------
(* connection.close().await: one connection at a time, then onwards.         *)
AfterClose(p) ==
    CASE p = "close_retry" -> "decide"
      [] p = "close_min"   -> "maintain_min_idle"
      [] OTHER             -> "rest"

CloseConnection(t) ==
    /\ pc[t] \in {"close_retry", "close_end", "close_min"}
    /\ \E c \in hand[t] :
          /\ Forget({c})
          /\ Hold(t, hand[t] \ {c})
          /\ Goto(t, IF hand[t] = {c} THEN AfterClose(pc[t]) ELSE pc[t])
    /\ UNCHANGED <<inner, wake, dropped, callVars>>

(* close(): mark closed, drain idle, wake one waiter, then close them all.   *)
Close(t) ==
    /\ pc[t] = "rest" /\ ~dropped
    /\ closed' = TRUE
    /\ idle' = <<>>
    /\ Hold(t, InIdle)
    /\ notify_waiters
    /\ Goto(t, IF idle = <<>> THEN "rest" ELSE "close_end")
    /\ UNCHANGED <<config, active_count, pending_count, dropped, callVars,
                   connVars>>

(* maintain(): one critical section partitions idle, keeping the order: f    *)
(* lists the positions kept, in increasing order.                            *)
Maintain(t) ==
    LET kept == {i \in 1..Len(idle) : ~is_expired(idle[i])}
        n    == Cardinality(kept)
    IN  /\ pc[t] = "rest" /\ ~dropped
        /\ \E f \in [1..n -> kept] :
              /\ \A i, j \in 1..n : i < j => f[i] < f[j]
              /\ idle' = [i \in 1..n |-> idle[f[i]]]
        /\ Hold(t, {c \in InIdle : is_expired(c)})
        /\ Goto(t, IF kept = 1..Len(idle) THEN "rest" ELSE "close_end")
        /\ UNCHANGED <<config, active_count, pending_count, closed, wake, dropped,
                       callVars, connVars>>

(* Drop for Pool: guards and running calls borrow the pool, so none is left. *)
DropPool ==
    /\ ~dropped /\ At({"rest"}) = Tasks
    /\ dropped' = TRUE
    /\ closed' = TRUE
    /\ idle' = <<>>
    /\ Forget(InIdle)
    /\ UNCHANGED <<config, active_count, pending_count, wake, pc, callVars, hand>>

-----------------------------------------------------------------------------
(* The environment: callers, servers and time.                               *)

(* A future that is dropped at an await point: what it owns is dropped with  *)
(* it, the counters stay as they are.                                        *)
AwaitPoints == {"ping", "create", "wait", "close_retry", "close_end", "reset",
                "close_min", "min_create"}

Cancel(t) ==
    /\ pc[t] \in AwaitPoints
    /\ Forget(hand[t])
    /\ Hold(t, {})
    /\ Finish(t, "rest")
    /\ UNCHANGED <<inner, wake, dropped>>

(* The holder of a guard runs statements: they may open, fail or end a block,*)
(* leave the protocol in mid-exchange, or finish one.                        *)
UseConnection(t) ==
    /\ pc[t] = "guard"
    /\ \E c \in hand[t], s \in TransactionStatus, b \in BOOLEAN :
          /\ c \in dead => s = tx[c]
          /\ tx' = [tx EXCEPT ![c] = s]
          /\ busy' = IF b THEN busy \cup {c} ELSE busy \ {c}
    /\ UNCHANGED <<inner, wake, dropped, pc, callVars, hand, dead, old, stale,
                   unclean>>

ServerDies(c) ==
    /\ c \in Open \ dead
    /\ dead' = dead \cup {c}
    /\ UNCHANGED <<inner, wake, dropped, pc, callVars, hand, tx, busy, old, stale,
                   unclean>>

LifetimePasses(c) ==
    /\ config.max_lifetime /\ c \in Open \ old
    /\ old' = old \cup {c}
    /\ UNCHANGED <<inner, wake, dropped, pc, callVars, hand, tx, busy, dead, stale,
                   unclean>>

IdleTimePasses(c) ==
    /\ config.idle_timeout /\ c \in InIdle \ stale
    /\ stale' = stale \cup {c}
    /\ UNCHANGED <<inner, wake, dropped, pc, callVars, hand, tx, busy, dead, old,
                   unclean>>

DeadlinePasses(t) ==
    /\ t \in timed \ late /\ pc[t] \in Acquiring
    /\ late' = late \cup {t}
    /\ UNCHANGED <<inner, wake, dropped, pc, call, timed, lateCall, hand, connVars>>

-----------------------------------------------------------------------------
(* What the runtime keeps polling: the steps of a call already under way.    *)
TaskStep(t) ==
    \/ DecideClosed(t) \/ DecideIdle(t) \/ DecideCreate(t) \/ DecideExhausted(t)
    \/ DiscardExpired(t) \/ NeedsHealthCheck(t) \/ Ready(t) \/ LostRace(t)
    \/ PingOk(t) \/ PingErr(t) \/ CreateOk(t) \/ CreateErr(t) \/ WaitEnds(t)
    \/ ResetOk(t) \/ ResetErr(t) \/ Return(t)
    \/ MinIdleDecide(t) \/ MinIdleCreated(t) \/ MinIdleFailed(t)
    \/ CloseConnection(t)

(* What the caller decides.                                                  *)
CallerStep(t) ==
    \/ \E kind \in {"acquire", "acquire_resilient"} : Acquire(t, kind)
    \/ Release(t) \/ DropGuard(t) \/ detach(t) \/ UseConnection(t)
    \/ Close(t) \/ Maintain(t) \/ Cancel(t)

Environment ==
    \/ DropPool
    \/ \E c \in Conns : ServerDies(c) \/ LifetimePasses(c) \/ IdleTimePasses(c)
    \/ \E t \in Tasks : DeadlinePasses(t)

Next == (\E t \in Tasks : TaskStep(t) \/ CallerStep(t)) \/ Environment

Spec == Init /\ [][Next]_vars

(* The runtime polls every task that can go on, every await on the network   *)
(* ends, and time passes; nothing is assumed of callers.                     *)
Fairness ==
    \A t \in Tasks : WF_vars(TaskStep(t)) /\ WF_vars(DeadlinePasses(t))

FairSpec == Spec /\ Fairness

-----------------------------------------------------------------------------
(* Properties                                                                *)

(* Type correctness of PoolInner, the tasks and the connections.             *)
TypeOK ==
    /\ config \in Configs
    /\ idle \in Seq(Conns)
    /\ active_count \in Nat /\ pending_count \in Nat
    /\ closed \in BOOLEAN /\ dropped \in BOOLEAN /\ wake \in {0, 1}
    /\ pc \in [Tasks -> Points]
    /\ call \in [Tasks -> {"acquire", "acquire_resilient"}]
    /\ timed \subseteq Tasks /\ late \subseteq Tasks /\ lateCall \subseteq Tasks
    /\ hand \in [Tasks -> SUBSET Conns]
    /\ tx \in [Conns -> TransactionStatus]
    /\ busy \subseteq Conns /\ dead \subseteq Conns /\ old \subseteq Conns
    /\ stale \subseteq Conns /\ unclean \subseteq Conns

(* Whatever the decisions, retries, cancellations and hooks do, they amount  *)
(* to the steps of Ownership: idle is its shelf.                             *)
Own == INSTANCE Ownership WITH shelf <- idle
ImplementsOwnership == Own!Spec

(* Nothing the pool has handed out or is connecting is missing from total(): *)
(* active_count is the number of guards alive and pending_count at least the *)
(* number of connects under way, on every path of acquire, release, drop and *)
(* maintain_min_idle and after every cancellation.  So no saturating_sub     *)
(* hides a second decrement that would make room for one connection too many.*)
NothingUncounted ==
    /\ active_count = Cardinality(At({"guard"}))
    /\ pending_count >= Cardinality(At({"create", "min_create"}))

(* What waits in idle is between two statements: release and Drop both turn  *)
(* away a connection in mid-exchange.  Only PoolGuard::drop, which cannot    *)
(* send ROLLBACK, leaves one there with a transaction block open.            *)
IdleIsQuiet ==
    \A c \in InIdle : c \notin busy /\ (tx[c] # "Idle" => c \in unclean)

(* close() "prevents new acquisitions": an acquire called after it never     *)
(* yields a guard, whatever releases and pings are still in flight.          *)
NoGuardAfterClose == \A t \in lateCall : pc[t] # "guard"

(* close() drains the pool for good but for the releases already past their  *)
(* check of closed ("Don't return connections to a closed pool"), which may  *)
(* each still put one connection back (core.rs:807): once closed is set      *)
(* nothing else reaches idle, and no release, drop or maintain_min_idle      *)
(* starts on the way there.                                                  *)
ClosedDrains ==
    [][closed =>
          /\ InIdle' \ InIdle \subseteq UNION {hand[t] : t \in At({"put"})}
          /\ \A t \in Tasks : pc'[t] \in {"reset", "put"} => pc[t] \in {"reset", "put"}]_vars

(* An acquire goes on forever only if some other task takes connections and  *)
(* gives them back forever: discards, failed pings, lost races and waits for *)
(* an event that never comes cannot keep it by themselves.                   *)
AcquireProgress ==
    \A t \in Tasks :
        <>[](pc[t] \in Acquiring) =>
            \E u \in Tasks \ {t} : []<>(pc[u] = "guard") /\ []<>(pc[u] # "guard")

-----------------------------------------------------------------------------
(* What comments and docs of the code say, and the code does not keep.       *)

(* "Total number of connections managed by this pool" stays within           *)
(* max_size: acquire creates one only "if under `max_size`".                 *)
MaxSizeRespected == total <= config.max_size

(* PoolInner.pending_count: "Number of connections currently being created   *)
(* asynchronously", no more and no fewer.                                    *)
PendingExact == pending_count = Cardinality(At({"create", "min_create"}))

(* PoolGuard::drop: "the pool's reset_connection() will roll it back on the  *)
(* next acquire": a guard starts with no transaction block open.             *)
AcquiredClean ==
    [][\A t \in Tasks : pc[t] # "guard" /\ pc'[t] = "guard" =>
          \A c \in hand'[t] : tx'[c] = "Idle"]_vars
=============================================================================
