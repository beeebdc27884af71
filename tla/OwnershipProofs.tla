-------------------------- MODULE OwnershipProofs --------------------------
(* Ownership is exclusive, for every set of tasks and connections.           *)
EXTENDS Ownership, SequenceTheorems, TLAPS

Inv == TypeOK /\ Exclusive

(* At first the shelf has no duplicates and nobody owns anything.            *)
LEMMA InitInv == Init => Inv
  BY DEF Init, Inv, TypeOK, Exclusive

(* Taking the front connection moves it from the shelf to one hand.          *)
LEMMA TakeInv ==
    ASSUME Inv, NEW t \in Tasks, Take(t) PROVE Inv'
<1> USE DEF Inv, TypeOK, Exclusive, Take, Give, OnShelf, NoDuplicates
<1>1. /\ Head(shelf) \in Conns /\ Tail(shelf) \in Seq(Conns)
      /\ Len(shelf) \in Nat /\ Len(shelf) > 0 /\ Len(Tail(shelf)) = Len(shelf) - 1
      /\ Head(shelf) = shelf[1]
      /\ \A i \in 1..(Len(shelf) - 1) : Tail(shelf)[i] = shelf[i + 1]
  OBVIOUS
<1>2. TypeOK'
  <2> DEFINE h == {Head(shelf)}
  <2>1. h \in SUBSET Conns /\ hand' = [hand EXCEPT ![t] = h]
    BY <1>1
  <2> HIDE DEF h
  <2> QED
    BY <1>1, <2>1
<1>3. \A i \in 1..Len(shelf') : shelf'[i] = shelf[i + 1] /\ i + 1 \in 1..Len(shelf)
  BY <1>1
<1>4. NoDuplicates(shelf')
  BY <1>1, <1>3
<1>5. OnShelf' \subseteq OnShelf /\ Head(shelf) \notin OnShelf' /\ Head(shelf) \in OnShelf
  BY <1>1, <1>3
<1>6. \A u \in Tasks : hand'[u] = IF u = t THEN {Head(shelf)} ELSE hand[u]
  OBVIOUS
<1> HIDE DEF OnShelf, NoDuplicates, Take
<1> QED
  BY <1>2, <1>4, <1>5, <1>6

(* A connection nobody has may be put at the back of the shelf.              *)
LEMMA PushInv ==
    ASSUME Inv, NEW c \in Conns, shelf' = Append(shelf, c), c \notin OnShelf
    PROVE  /\ shelf' \in Seq(Conns) /\ NoDuplicates(shelf')
           /\ OnShelf' = OnShelf \cup {c}
<1> USE DEF Inv, TypeOK, Exclusive, OnShelf, NoDuplicates
<1>1. /\ shelf' \in Seq(Conns) /\ Len(shelf) \in Nat /\ Len(shelf') = Len(shelf) + 1
      /\ shelf'[Len(shelf) + 1] = c
      /\ \A i \in 1..Len(shelf) : shelf'[i] = shelf[i]
  OBVIOUS
<1>2. NoDuplicates(shelf')
  BY <1>1
<1>3. OnShelf' = OnShelf \cup {c}
  BY <1>1
<1> QED
  BY <1>1, <1>2, <1>3

(* Sweeping splits the shelf: what stays is in order, the rest goes to one hand. *)
LEMMA SweepInv ==
    ASSUME Inv, NEW t \in Tasks, Sweep(t) PROVE Inv'
<1> USE DEF Inv, TypeOK, Exclusive, Give, NoDuplicates
<1>1. PICK f \in [1..Len(shelf') -> 1..Len(shelf)] :
          /\ \A i, j \in 1..Len(shelf') : i < j => f[i] < f[j]
          /\ \A i \in 1..Len(shelf') : shelf'[i] = shelf[f[i]]
          /\ Give(t, OnShelf \ {shelf[f[i]] : i \in 1..Len(shelf')})
  BY DEF Sweep
<1>2. shelf' \in Seq(Conns) /\ Len(shelf') \in Nat /\ Len(shelf) \in Nat /\ hand[t] = {}
  BY DEF Sweep
<1>a. \A i \in 1..Len(shelf') : shelf'[i] = shelf[f[i]]
  BY <1>1
<1>3. OnShelf' = {shelf[f[i]] : i \in 1..Len(shelf')}
  BY ONLY <1>a DEF OnShelf
<1>4. OnShelf' \subseteq OnShelf /\ OnShelf \subseteq Conns
  BY <1>1, <1>2 DEF OnShelf
<1>5. NoDuplicates(shelf')
  <2> SUFFICES ASSUME NEW i \in 1..Len(shelf'), NEW j \in 1..Len(shelf'),
                      shelf'[i] = shelf'[j], i # j
               PROVE FALSE
    OBVIOUS
  <2>1. f[i] = f[j]
    BY <1>1
  <2>2. i < j \/ j < i
    BY <1>2
  <2> QED
    BY <1>1, <1>2, <2>1, <2>2
<1>6. \A u \in Tasks : hand'[u] = IF u = t THEN OnShelf \ OnShelf' ELSE hand[u]
  BY <1>1, <1>3
<1>7. hand' \in [Tasks -> SUBSET Conns]
  <2> DEFINE h == OnShelf \ {shelf[f[i]] : i \in 1..Len(shelf')}
  <2>1. hand' = [hand EXCEPT ![t] = h] /\ h \in SUBSET Conns
    BY <1>1, <1>4
  <2> HIDE DEF h
  <2> QED
    BY <2>1
<1>8. \A u \in Tasks : hand'[u] \cap OnShelf' = {}
  BY <1>4, <1>6
<1>9. \A u, v \in Tasks : u # v => hand'[u] \cap hand'[v] = {}
  BY <1>6
<1> QED
  BY <1>2, <1>5, <1>7, <1>8, <1>9

(* Every step keeps ownership exclusive.                                     *)
LEMMA StepInv == Inv /\ [Next]_vars => Inv'
<1> SUFFICES ASSUME Inv, [Next]_vars PROVE Inv'
  OBVIOUS
<1>1. CASE UNCHANGED vars
  BY <1>1 DEF vars, Inv, TypeOK, Exclusive, OnShelf, NoDuplicates
<1>2. ASSUME NEW t \in Tasks, Take(t) PROVE Inv'
  BY <1>2, TakeInv
<1>3. ASSUME NEW t \in Tasks, Establish(t) PROVE Inv'
  BY <1>3 DEF Establish, Give, Fresh, Inv, TypeOK, Exclusive, OnShelf, NoDuplicates
<1>4. ASSUME NEW t \in Tasks, GiveBack(t) PROVE Inv'
  <2>1. PICK c \in Conns : hand[t] = {c} /\ shelf' = Append(shelf, c)
    BY <1>4 DEF GiveBack
  <2>2. c \notin OnShelf
    BY <2>1 DEF Inv, Exclusive
  <2>3. shelf' \in Seq(Conns) /\ NoDuplicates(shelf') /\ OnShelf' = OnShelf \cup {c}
    BY <2>1, <2>2, PushInv
  <2> QED
    BY <1>4, <2>1, <2>3 DEF GiveBack, Give, Inv, TypeOK, Exclusive
<1>5. ASSUME NEW t \in Tasks, Dispose(t) PROVE Inv'
  BY <1>5 DEF Dispose, Give, Inv, TypeOK, Exclusive, OnShelf, NoDuplicates
<1>6. ASSUME NEW t \in Tasks, Sweep(t) PROVE Inv'
  BY <1>6, SweepInv
<1>7. CASE Stock
  <2>1. PICK c \in Fresh : shelf' = Append(shelf, c)
    BY <1>7 DEF Stock
  <2>2. c \in Conns /\ c \notin OnShelf /\ \A t \in Tasks : c \notin hand[t]
    BY DEF Fresh
  <2>3. shelf' \in Seq(Conns) /\ NoDuplicates(shelf') /\ OnShelf' = OnShelf \cup {c}
    BY <2>1, <2>2, PushInv
  <2> QED
    BY <1>7, <2>2, <2>3 DEF Stock, Inv, TypeOK, Exclusive
<1>8. CASE Scrap
  BY <1>8 DEF Scrap, Inv, TypeOK, Exclusive, OnShelf, NoDuplicates
<1> QED
  BY <1>1, <1>2, <1>3, <1>4, <1>5, <1>6, <1>7, <1>8 DEF Next

(* No connection ever has two owners.                                        *)
THEOREM OwnershipIsExclusive == Spec => []Exclusive
<1>1. Init => Inv
  BY InitInv
<1>2. Inv /\ [Next]_vars => Inv'
  BY StepInv
<1>3. Inv => Exclusive
  BY DEF Inv
<1> QED
  BY <1>1, <1>2, <1>3, PTL DEF Spec
=============================================================================
