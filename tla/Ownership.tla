----------------------------- MODULE Ownership -----------------------------
(***************************************************************************)
(* What the pool promises about who may use a connection, without decisions,*)
(* counters, locks or awaits: connections wait on a shelf in the order they *)
(* came back and are taken from its front; from the moment a task takes or  *)
(* opens one until it gives it back or disposes of it, nobody else can get  *)
(* at it.  Pool implements this (Pool!ImplementsOwnership).                 *)
(***************************************************************************)
EXTENDS Naturals, Sequences

CONSTANTS Tasks, Conns

VARIABLES
    shelf,  \* the waiting connections, front first
    hand    \* the connections each task owns

vars == <<shelf, hand>>

OnShelf == {shelf[i] : i \in 1..Len(shelf)}
Fresh   == Conns \ (OnShelf \cup UNION {hand[t] : t \in Tasks})

NoDuplicates(s) == \A i, j \in 1..Len(s) : s[i] = s[j] => i = j

Init ==
    /\ shelf \in Seq(Conns) /\ NoDuplicates(shelf)
    /\ hand = [t \in Tasks |-> {}]

Give(t, S) == hand' = [hand EXCEPT ![t] = S]

(* An empty-handed task takes the connection that has waited longest.        *)
Take(t) ==
    /\ hand[t] = {} /\ shelf # <<>>
    /\ shelf' = Tail(shelf)
    /\ Give(t, {Head(shelf)})

(* An empty-handed task opens a connection for itself.                       *)
Establish(t) ==
    /\ hand[t] = {}
    /\ \E c \in Fresh : Give(t, {c})
    /\ UNCHANGED shelf

(* A task puts its only connection at the back of the shelf.                 *)
GiveBack(t) ==
    /\ \E c \in Conns : hand[t] = {c} /\ shelf' = Append(shelf, c)
    /\ Give(t, {})

(* A new connection is put on the shelf directly.                            *)
Stock ==
    /\ \E c \in Fresh : shelf' = Append(shelf, c)
    /\ UNCHANGED hand

(* A task closes, or lets go of, some of what it owns.                       *)
Dispose(t) ==
    /\ \E S \in SUBSET hand[t] : Give(t, S)
    /\ UNCHANGED shelf

(* An empty-handed task takes connections from anywhere on the shelf; the    *)
(* others keep their order.                                                  *)
Sweep(t) ==
    /\ hand[t] = {}
    /\ shelf' \in Seq(Conns)
    /\ \E f \in [1..Len(shelf') -> 1..Len(shelf)] :
          /\ \A i, j \in 1..Len(shelf') : i < j => f[i] < f[j]
          /\ \A i \in 1..Len(shelf') : shelf'[i] = shelf[f[i]]
          /\ Give(t, OnShelf \ {shelf[f[i]] : i \in 1..Len(shelf')})

(* The pool is dropped: so is everything on the shelf.                       *)
Scrap == shelf' = <<>> /\ UNCHANGED hand

Next ==
    \/ \E t \in Tasks : Take(t) \/ Establish(t) \/ GiveBack(t) \/ Dispose(t) \/ Sweep(t)
    \/ Stock
    \/ Scrap

Spec == Init /\ [][Next]_vars

-----------------------------------------------------------------------------

TypeOK == shelf \in Seq(Conns) /\ hand \in [Tasks -> SUBSET Conns]

(* A connection is on the shelf once or in the hands of one task, never both.*)
Exclusive ==
    /\ NoDuplicates(shelf)
    /\ \A t \in Tasks : hand[t] \cap OnShelf = {}
    /\ \A t, u \in Tasks : t # u => hand[t] \cap hand[u] = {}
=============================================================================
