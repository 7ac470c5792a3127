------------------------------ MODULE Blockchain ------------------------------
(***************************************************************************)
(* The counters of blockchain/blockchain.go and the goroutines that share  *)
(* them without a lock. Node.OnBlockStored calls Increment from            *)
(* waitForFinality and from sync, Node.Run calls Init from what storage    *)
(* holds, and the consensus loop, which is started before Node.Run, copies *)
(* the three counters one after the other into a gossip message.           *)
(*                                                                         *)
(* A block is its height, so that nextHeight counts the blocks. An x++ is  *)
(* a read and a write: that is all amd64 promises about it.                *)
(***************************************************************************)
EXTENDS Integers

CONSTANTS
  SlotsInEpoch,
  Wrap,        \* 2^32, what uint32() wraps around at
  Writers,     \* goroutines that store blocks
  Serial,      \* no two of them, nor one and Init, overlap
  MaxHeight    \* bound: blocks

ASSUME BlockchainAssumption ==
  /\ SlotsInEpoch \in Nat \ {0} /\ Wrap \in Nat \ {0}
  /\ MaxHeight \in Nat /\ MaxHeight < Wrap
  /\ Serial \in BOOLEAN

VARIABLES
  height, epoch, slot, prev,   \* the fields of Blockchain
  stored,  \* blocks in storage, which survive a restart
  boot,    \* where Init is, "done" after it
  pc,      \* where each writer's Increment is
  blk,     \* the block it is called for
  reg,     \* the value it has read
  gossip,  \* the message that the consensus loop fills in
  filled   \* how many of its counters are set

counters == <<height, epoch, slot, prev>>
writing == <<pc, blk, reg>>
reading == <<gossip, filled>>
vars == <<counters, stored, boot, writing, reading>>

Message == [height : Nat, epoch : Nat, slot : Nat]

\* NewBlockchain, with nothing in storage: prev is the height after the block.
Init ==
  /\ height = 0 /\ epoch = 0 /\ slot = 0 /\ prev = 0
  /\ stored = 0 /\ boot = "done"
  /\ pc = [w \in Writers |-> "idle"]
  /\ blk = [w \in Writers |-> 0] /\ reg = [w \in Writers |-> 0]
  /\ gossip = [height |-> 0, epoch |-> 0, slot |-> 0] /\ filled = 0

-----------------------------------------------------------------------------
Goto(w, label) == pc' = [pc EXCEPT ![w] = label]

\* A block that follows the chain is put into storage; the event comes next.
Put_EventOnly(w) ==   \* mutant: the event is raised for a block that is not stored
  /\ pc[w] = "idle" /\ height < MaxHeight
  /\ Serial => boot = "done" /\ \A v \in Writers : pc[v] = "idle"
  /\ blk' = [blk EXCEPT ![w] = height]
  /\ Goto(w, "height")
  /\ UNCHANGED <<counters, stored, boot, reg, reading>>
Put(w) ==
  /\ pc[w] = "idle" /\ height < MaxHeight
  /\ Serial => boot = "done" /\ \A v \in Writers : pc[v] = "idle"
  /\ blk' = [blk EXCEPT ![w] = height]
  /\ stored' = IF stored > height THEN stored ELSE height + 1
  /\ Goto(w, "height")
  /\ UNCHANGED <<counters, boot, reg, reading>>

\* The read of an x++.
Load(w, label, value, next) ==
  /\ pc[w] = label
  /\ reg' = [reg EXCEPT ![w] = value]
  /\ Goto(w, next)
  /\ UNCHANGED <<counters, stored, boot, blk, reading>>

LoadHeight(w) == Load(w, "height", height, "height++")
LoadSlot(w) == Load(w, "slot", slot, "slot++")
LoadEpoch(w) == Load(w, "epoch", epoch, "epoch++")

incrementHeight(w) ==
  /\ pc[w] = "height++"
  /\ height' = reg[w] + 1
  /\ Goto(w, "slot")
  /\ UNCHANGED <<epoch, slot, prev, stored, boot, blk, reg, reading>>

NextSlot_NoWrap(s) == s + 1   \* mutant
NextSlot(s) == (s + 1) % SlotsInEpoch

icrementSlot(w) ==
  /\ pc[w] = "slot++"
  /\ slot' = NextSlot(reg[w])
  /\ Goto(w, "slot=0")
  /\ UNCHANGED <<height, epoch, prev, stored, boot, blk, reg, reading>>

\* The condition of icrementSlot, which reads the slot again.
LastSlot(w) ==
  /\ pc[w] = "slot=0"
  /\ Goto(w, IF slot = 0 THEN "epoch" ELSE "prev")
  /\ UNCHANGED <<counters, stored, boot, blk, reg, reading>>

incrementEpoch(w) ==
  /\ pc[w] = "epoch++"
  /\ epoch' = reg[w] + 1
  /\ Goto(w, "prev")
  /\ UNCHANGED <<height, slot, prev, stored, boot, blk, reg, reading>>

SetPrevious(w) ==
  /\ pc[w] = "prev"
  /\ prev' = blk[w] + 1
  /\ Goto(w, "idle")
  /\ UNCHANGED <<height, epoch, slot, stored, boot, blk, reg, reading>>

Increment(w) ==
  \/ LoadHeight(w) \/ incrementHeight(w) \/ LoadSlot(w) \/ icrementSlot(w)
  \/ LastSlot(w) \/ LoadEpoch(w) \/ incrementEpoch(w) \/ SetPrevious(w)

-----------------------------------------------------------------------------
\* The process dies, at any point, and a new one starts with zero counters.
Restart ==
  /\ height' = 0 /\ epoch' = 0 /\ slot' = 0 /\ prev' = 0
  /\ boot' = IF stored = 0 THEN "done" ELSE "height"
  /\ pc' = [w \in Writers |-> "idle"]
  /\ blk' = [w \in Writers |-> 0] /\ reg' = [w \in Writers |-> 0]
  /\ gossip' = [height |-> 0, epoch |-> 0, slot |-> 0] /\ filled' = 0
  /\ UNCHANGED stored

\* Blockchain.Init(latest height + 1, latest hash), one assignment at a time.
InitHeight_Latest ==   \* mutant: the latest block's height instead of the next
  /\ boot = "height" /\ boot' = "epoch"
  /\ height' = stored - 1
  /\ UNCHANGED <<epoch, slot, prev, stored, writing, reading>>
InitHeight ==
  /\ boot = "height" /\ boot' = "epoch"
  /\ height' = stored
  /\ UNCHANGED <<epoch, slot, prev, stored, writing, reading>>

InitEpoch_Early ==   \* mutant: counts the epoch from the latest block
  /\ boot = "epoch" /\ boot' = "slot"
  /\ epoch' = (stored - 1) \div SlotsInEpoch
  /\ UNCHANGED <<height, slot, prev, stored, writing, reading>>
InitEpoch ==
  /\ boot = "epoch" /\ boot' = "slot"
  /\ epoch' = stored \div SlotsInEpoch
  /\ UNCHANGED <<height, slot, prev, stored, writing, reading>>

InitSlot ==
  /\ boot = "slot" /\ boot' = "prev"
  /\ slot' = (stored % Wrap) % SlotsInEpoch
  /\ UNCHANGED <<height, epoch, prev, stored, writing, reading>>

InitPrevious ==
  /\ boot = "prev" /\ boot' = "done"
  /\ prev' = stored
  /\ UNCHANGED <<height, epoch, slot, stored, writing, reading>>

-----------------------------------------------------------------------------
\* broadcastGossip evaluates the three calls in this order.
ReadHeight ==
  /\ filled \in {0, 3} /\ filled' = 1
  /\ gossip' = [height |-> height, epoch |-> 0, slot |-> 0]
  /\ UNCHANGED <<counters, stored, boot, writing>>

ReadEpoch ==
  /\ filled = 1 /\ filled' = 2
  /\ gossip' = [gossip EXCEPT !.epoch = epoch]
  /\ UNCHANGED <<counters, stored, boot, writing>>

ReadSlot ==
  /\ filled = 2 /\ filled' = 3
  /\ gossip' = [gossip EXCEPT !.slot = slot]
  /\ UNCHANGED <<counters, stored, boot, writing>>

Next ==
  \/ \E w \in Writers : Put(w) \/ Increment(w)
  \/ Restart \/ InitHeight \/ InitEpoch \/ InitSlot \/ InitPrevious
  \/ ReadHeight \/ ReadEpoch \/ ReadSlot

Spec == Init /\ [][Next]_vars

-----------------------------------------------------------------------------
Labels == {"idle", "height", "height++", "slot", "slot++", "slot=0", "epoch", "epoch++", "prev"}

\* Counters are naturals and the slot stays within its epoch.
TypeOK ==
  /\ height \in Nat /\ epoch \in Nat /\ slot \in 0 .. SlotsInEpoch - 1 /\ prev \in Nat
  /\ stored \in 0 .. MaxHeight /\ boot \in {"done", "height", "epoch", "slot", "prev"}
  /\ pc \in [Writers -> Labels] /\ blk \in [Writers -> Nat] /\ reg \in [Writers -> Nat]
  /\ gossip \in Message /\ filled \in 0 .. 3

Quiet == boot = "done" /\ \A w \in Writers : pc[w] = "idle"

\* "recieved different epoch", "recieved different slot": not "expected to
\* happen normally" (handleGossip). Between two events a node's epoch and slot
\* are those of its height, whether it counted them one by one in Increment or
\* computed them in Init after a restart, so nodes at one height agree.
EpochMatchesHeight == Quiet => height = epoch * SlotsInEpoch + slot

\* Between two events the counters name the block after the last stored one,
\* and previousBlockHash is that block's hash: CheckBlockInfo accepts exactly
\* the next block, after a restart in the middle of an Increment too.
CountersMatchStorage == Quiet => height = stored /\ prev = stored

\* handleGossip starts a sync up to the gossiped NextHeight - 1: however the
\* reads interleave with the writes, the sender has stored that block.
GossipedBlockIsStored == gossip.height <= stored
=============================================================================
