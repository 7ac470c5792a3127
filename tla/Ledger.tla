-------------------------------- MODULE Ledger --------------------------------
(***************************************************************************)
(* What consensus and sync together promise, without committee, messages   *)
(* or goroutines: there is one ledger, which only grows at its end, by     *)
(* blocks that name the one before them; every node holds a copy of a      *)
(* beginning of it, and adds to its copy one block at a time. A node that  *)
(* dies and comes back has the copy it had.                                *)
(***************************************************************************)
EXTENDS Naturals, Sequences

CONSTANTS
  Nodes,
  Nothing     \* what the first block names

VARIABLES
  ledger,   \* the hashes of the final blocks
  copy      \* per node: the hashes of the blocks in its storage

vars == <<ledger, copy>>

Init == ledger = <<>> /\ copy = [n \in Nodes |-> <<>>]

Tip == IF ledger = <<>> THEN Nothing ELSE ledger[Len(ledger)]

\* A node that has all of the ledger is the first to store the next block.
Commit(n) ==
  /\ copy[n] = ledger
  /\ Len(ledger') = Len(ledger) + 1
  /\ LET b == ledger'[Len(ledger')]
     IN  ledger' = Append(ledger, b) /\ b.prev = Tip
  /\ copy' = [copy EXCEPT ![n] = ledger']

\* A node stores the next block of the ledger, by finality or by sync.
Follow(n) ==
  /\ Len(copy[n]) < Len(ledger)
  /\ copy' = [copy EXCEPT ![n] = Append(@, ledger[Len(@) + 1])]
  /\ UNCHANGED ledger

Next == \E n \in Nodes : Commit(n) \/ Follow(n)

Spec == Init /\ [][Next]_vars

-----------------------------------------------------------------------------
\* Every node holds a beginning of the ledger.
CopiesAreBeginnings ==
  \A n \in Nodes : /\ Len(copy[n]) <= Len(ledger)
                   /\ \A h \in 1 .. Len(copy[n]) : copy[n][h] = ledger[h]
=============================================================================
