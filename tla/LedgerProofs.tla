---------------------------- MODULE LedgerProofs ----------------------------
(***************************************************************************)
(* The invariant that every specification which implements the ledger      *)
(* inherits, for any nodes and blocks: all copies are beginnings of it.    *)
(***************************************************************************)
EXTENDS Ledger, TLAPS

Typed == \E S : ledger \in Seq(S) /\ copy \in [Nodes -> Seq(S)]
Inv == Typed /\ CopiesAreBeginnings

\* An empty ledger and empty copies satisfy the invariant.
LEMMA InitInv == Init => Inv
<1> SUFFICES ASSUME Init PROVE Inv
  OBVIOUS
<1>1. ledger \in Seq({}) /\ copy \in [Nodes -> Seq({})]
  BY DEF Init
<1> QED
  BY <1>1 DEF Init, Inv, Typed, CopiesAreBeginnings

\* A committed block comes behind all others.
LEMMA CommitInv ==
  ASSUME Inv, NEW n \in Nodes, Commit(n)
  PROVE  Inv'
<1> DEFINE b == ledger'[Len(ledger')]
<1>1. PICK S : ledger \in Seq(S) /\ copy \in [Nodes -> Seq(S)]
  BY DEF Inv, Typed
<1>2. ledger' = Append(ledger, b) /\ copy' = [copy EXCEPT ![n] = ledger'] /\ copy[n] = ledger
  BY DEF Commit
<1> HIDE DEF b
<1> DEFINE T == S \cup {b}
<1>3. ledger \in Seq(T) /\ copy \in [Nodes -> Seq(T)] /\ b \in T /\ Len(ledger) \in Nat
  BY <1>1
<1> HIDE DEF T
<1>4. /\ ledger' \in Seq(T) /\ Len(ledger') = Len(ledger) + 1 /\ ledger'[Len(ledger) + 1] = b
      /\ \A h \in 1 .. Len(ledger) : ledger'[h] = ledger[h]
  BY <1>2, <1>3
<1>5. copy' \in [Nodes -> Seq(T)]
  BY <1>2, <1>3, <1>4
<1>6. Typed'
  BY <1>4, <1>5 DEF Typed
<1>7. \A p \in Nodes : copy'[p] = IF p = n THEN ledger' ELSE copy[p]
  BY <1>2, <1>3
<1>8. \A p \in Nodes : Len(copy[p]) \in Nat
  BY <1>3
<1>9. CopiesAreBeginnings'
  <2> SUFFICES ASSUME NEW p \in Nodes
               PROVE  /\ Len(copy'[p]) <= Len(ledger')
                      /\ \A h \in 1 .. Len(copy'[p]) : copy'[p][h] = ledger'[h]
    BY DEF CopiesAreBeginnings
  <2>1. CASE p = n
    BY <1>3, <1>4, <1>7, <2>1
  <2>2. CASE p # n
    BY <1>3, <1>4, <1>7, <1>8, <2>2 DEF Inv, CopiesAreBeginnings
  <2> QED
    BY <2>1, <2>2
<1> QED
  BY <1>6, <1>9 DEF Inv

\* A node that follows stays a beginning of the ledger.
LEMMA FollowInv ==
  ASSUME Inv, NEW n \in Nodes, Follow(n)
  PROVE  Inv'
<1>1. PICK S : ledger \in Seq(S) /\ copy \in [Nodes -> Seq(S)]
  BY DEF Inv, Typed
<1> DEFINE k == Len(copy[n])
           c == Append(copy[n], ledger[k + 1])
<1>2. copy' = [copy EXCEPT ![n] = c] /\ ledger' = ledger /\ k < Len(ledger) /\ k \in Nat
  BY <1>1 DEF Follow
<1>3. ledger[k + 1] \in S /\ copy[n] \in Seq(S) /\ Len(ledger) \in Nat
  BY <1>1, <1>2
<1>4. /\ c \in Seq(S) /\ Len(c) = k + 1 /\ c[k + 1] = ledger[k + 1]
      /\ \A h \in 1 .. k : c[h] = copy[n][h]
  BY <1>3
<1> HIDE DEF c
<1>5. \A p \in Nodes : copy'[p] = IF p = n THEN c ELSE copy[p]
  BY <1>1, <1>2
<1>6. Typed'
  BY <1>1, <1>2, <1>4 DEF Typed
<1>7. \A p \in Nodes : Len(copy[p]) \in Nat
  BY <1>1
<1>8. CopiesAreBeginnings'
  <2> SUFFICES ASSUME NEW p \in Nodes
               PROVE  /\ Len(copy'[p]) <= Len(ledger)
                      /\ \A h \in 1 .. Len(copy'[p]) : copy'[p][h] = ledger[h]
    BY <1>2 DEF CopiesAreBeginnings
  <2>1. Len(copy[p]) <= Len(ledger) /\ \A h \in 1 .. Len(copy[p]) : copy[p][h] = ledger[h]
    BY DEF Inv, CopiesAreBeginnings
  <2>2. CASE p = n
    <3>1. Len(c) <= Len(ledger)
      BY <1>2, <1>3, <1>4
    <3>2. \A h \in 1 .. k + 1 : c[h] = ledger[h]
      BY <1>2, <1>4, <2>1, <2>2
    <3> QED
      BY <1>4, <1>5, <2>2, <3>1, <3>2
  <2>3. CASE p # n
    BY <1>5, <2>1, <2>3
  <2> QED
    BY <2>2, <2>3
<1> QED
  BY <1>6, <1>8 DEF Inv

\* A new block, or a copy of the next one, preserves it.
LEMMA NextInv == Inv /\ [Next]_vars => Inv'
<1> SUFFICES ASSUME Inv, [Next]_vars PROVE Inv'
  OBVIOUS
<1>1. CASE Next
  BY <1>1, CommitInv, FollowInv DEF Next
<1>2. CASE UNCHANGED vars
  BY <1>2 DEF vars, Inv, Typed, CopiesAreBeginnings
<1> QED
  BY <1>1, <1>2

\* The invariant holds in every reachable state.
LEMMA Invariance == Spec => []Inv
BY InitInv, NextInv, PTL DEF Spec
=============================================================================
