----------------------------- MODULE SyncProofs -----------------------------
(***************************************************************************)
(* Theorems about start-up, sync and verdicts, for one or two peers, any   *)
(* blocks, airdrops and transfers in any order, and any number of faults,  *)
(* as long as gossip waits for Node.Run (~EarlyGossip) and a sync for the  *)
(* goroutines of the last verdict (Prompt).                                *)
(*                                                                         *)
(* The inductive invariant Inv says for every place of Node.Run, of the    *)
(* goroutine sync and of the goroutines of a verdict how the counters, the *)
(* accounts in memory and in storage and the blocks in storage are         *)
(* related. It says nothing of the network: whatever requests and answers  *)
(* are lost, late or doubled, a block goes through "check" to "put" only   *)
(* at the height the counters name.                                        *)
(***************************************************************************)
EXTENDS Sync, TLAPS, FiniteSetTheorems, SequenceTheorems

\* The list of peers names no peer twice.
PeersListed ==
  /\ peers \in Seq(Peers)
  /\ \A i, j \in 1 .. Len(peers) : peers[i] = peers[j] => i = j

\* Types, without what TypeOK says of peers.
Typed ==
  /\ boot \in {"faucet", "counters", "accounts", "done", "down"} /\ gen \in BOOLEAN
  /\ height \in 0 .. MaxHeight /\ mem \cup sto \cup stored \subseteq Heights
  /\ latest \in Heights \cup {None} /\ settling \in Heights \cup {None}
  /\ storing \in Heights \cup {None} /\ counting \in Heights \cup {None}
  /\ pc \in {"idle", "batch", "wait", "check", "push", "put", "event"}
  /\ target \in Heights /\ current \in 0 .. MaxHeight /\ cache \in 0 .. MaxHeight
  /\ offered \subseteq chs /\ chs \subseteq Heights
  /\ alive \subseteq Peers /\ has \in [Peers -> 0 .. MaxHeight] /\ faults \in Nat /\ early \in Nat
  /\ faults + early <= MaxFaults

\* A goroutine blockRequest asks for a block there is, with the index of a peer.
AsksTyped == asks \subseteq [height : Heights, index : 1 .. Cardinality(Peers)]

\* What Node.Run has done so far.
Booting ==
  /\ boot # "done" => pc = "idle" /\ Settled
  /\ boot \in {"faucet", "counters"} => height = 0
  /\ boot = "faucet" => ~gen
  /\ boot \in {"faucet", "counters", "accounts"} => mem = {}
  /\ boot \in {"counters", "accounts"} => gen = (0 \in stored) /\ (gen => 0 \in sto)
  /\ boot = "accounts" => height = latest + 1

\* Storage: blocks without a gap, and accounts that are at most one behind or
\* one ahead of them.
Storage ==
  /\ stored = 0 .. latest
  /\ 1 .. latest - 1 \subseteq sto /\ sto \subseteq 0 .. latest + 1
  /\ latest > 0 /\ latest + 1 \in sto => latest \in sto
  /\ 0 \in sto => 0 \in stored

\* The latest block came by a verdict whose accounts have never been stored.
Behind == latest > 0 /\ latest \notin sto

\* What memory holds: after a block that was refused, its account too.
Memory == mem = sto \/ (Behind /\ mem = sto \cup {height})

\* Counters and memory of a node that is started. Memory is ahead of storage
\* between ExecuteNow and PushAccounts, or because storage is behind.
Running ==
  boot = "done" /\ Settled =>
    /\ pc # "event" => height = latest + 1 /\ gen = (0 \in stored) /\ (gen => 0 \in sto)
    /\ pc = "event" => height = latest /\ (latest > 0 => gen /\ 0 \in sto)
    /\ pc # "push" => Memory
    /\ pc = "push" => mem = 0 .. cache /\ sto \cup {cache} = mem
    /\ pc \in {"put", "event"} => mem = sto /\ (cache > 0 => sto = 0 .. cache)

\* The goroutines of a verdict are at work: the counters and the block of one,
\* the accounts of the other.
Pending ==
  /\ ~Settled => boot = "done" /\ pc = "idle" /\ gen /\ 0 \in stored
  /\ storing # None => storing = height /\ height = latest + 1 /\ counting = None
  /\ counting # None => counting = height /\ height = latest
  /\ settling # None =>
       /\ settling > 0 /\ mem = 0 .. settling /\ sto = 0 .. settling - 1
       /\ IF storing # None \/ counting # None
          THEN settling = height ELSE settling = latest /\ height = latest + 1
  /\ settling = None /\ ~Settled => height > 0 /\ mem = 0 .. height /\ sto = 0 .. height

\* Where the goroutine sync is in its batch.
InBatch ==
  /\ pc = "batch" => current = height /\ current <= target
  /\ pc \in {"wait", "check", "push", "put", "event"} =>
       cache = height /\ cache < current /\ current <= target + 1
  /\ pc \in {"check", "push"} => cache > 0

Inv ==
  PeersListed /\ Typed /\ AsksTyped /\ Booting /\ Storage /\ Running /\ Pending /\ InBatch
-----------------------------------------------------------------------------
\* Init satisfies the invariant.
LEMMA InitInv == Init => Inv
<1> SUFFICES ASSUME Init PROVE Inv
  OBVIOUS
<1>1. PeersListed
  BY DEF Init, PeersListed
<1>2. Typed
  <2>1. FirstHeight \in 0 .. MaxHeight /\ 0 \in Heights
    BY SyncAssumption DEF Heights
  <2>2. has \in [Peers -> 0 .. MaxHeight]
    BY <2>1 DEF Init
  <2>3. gen \in BOOLEAN
    BY DEF Init
  <2> QED
    BY <2>1, <2>2, <2>3, SyncAssumption DEF Init, Typed
<1>3. AsksTyped /\ Booting /\ Running /\ Pending /\ InBatch
  BY DEF Init, AsksTyped, Booting, Running, Pending, InBatch, Settled
<1>4. Storage
  BY DEF Init, Storage, None
<1> QED
  BY <1>1, <1>2, <1>3, <1>4 DEF Inv

\* Node.Run preserves the invariant.
LEMMA BootInv == ASSUME Inv, Boot PROVE Inv'
<1> USE SyncAssumption DEF Inv, Heights, None
<1>1. PeersListed' /\ AsksTyped' /\ UNCHANGED <<goroutine, finality, network, bounds>>
  BY DEF PeersListed, AsksTyped, Boot, BootFaucet, BootCounters, BootAccounts, goroutine, network
<1>2. Settled /\ Settled' /\ pc = "idle" /\ pc' = "idle"
  <2>1. boot # "done"
    BY DEF Boot, BootFaucet, BootCounters, BootAccounts
  <2> QED
    BY <1>1, <2>1 DEF Booting, Settled, goroutine, finality
<1>3. Pending' /\ InBatch'
  BY <1>1, <1>2 DEF Pending, InBatch, Settled
<1>4. CASE BootFaucet
  BY <1>1, <1>2, <1>3, <1>4
     DEF BootFaucet, Typed, Booting, Storage, Running, goroutine, network, finality, bounds
<1>5. CASE BootCounters
  BY <1>1, <1>2, <1>3, <1>5
     DEF BootCounters, Typed, Booting, Storage, Running, goroutine, network, finality, bounds
<1>6. CASE BootAccounts
  BY <1>1, <1>2, <1>3, <1>6
     DEF BootAccounts, Typed, Booting, Storage, Running, Memory, goroutine, network, finality, bounds
<1> QED
  BY <1>4, <1>5, <1>6 DEF Boot
-----------------------------------------------------------------------------
\* addPeer and removePeer keep the list free of doubles.
LEMMA PeersAppended ==
  ASSUME PeersListed, NEW p \in Peers \ Known, peers' = Append(peers, p)
  PROVE  PeersListed'
<1>1. /\ Append(peers, p) \in Seq(Peers) /\ Len(Append(peers, p)) = Len(peers) + 1
      /\ \A i \in 1 .. Len(peers) : Append(peers, p)[i] = peers[i]
      /\ Append(peers, p)[Len(peers) + 1] = p
  BY DEF PeersListed
<1>2. \A i \in 1 .. Len(peers) : peers[i] # p
  BY DEF PeersListed, Known
<1> QED
  BY <1>1, <1>2 DEF PeersListed

\* The list of peers without a dead one.
LEMMA PeersRemoved ==
  ASSUME PeersListed, NEW k \in 1 .. Len(peers), peers' = RemoveAt(peers, k)
  PROVE  PeersListed'
<1> DEFINE q == RemoveAt(peers, k)
<1>1. /\ q \in Seq(Peers) /\ Len(q) = Len(peers) - 1
      /\ \A i \in 1 .. Len(q) : q[i] = peers[IF i < k THEN i ELSE i + 1]
  <2> DEFINE a == SubSeq(peers, 1, k - 1)
             b == SubSeq(peers, k + 1, Len(peers))
  <2>1. peers \in Seq(Peers) /\ Len(peers) \in Nat /\ q = a \o b
    BY DEF PeersListed, RemoveAt
  <2>2. a \in Seq(Peers) /\ Len(a) = k - 1 /\ \A i \in 1 .. k - 1 : a[i] = peers[i]
    BY <2>1
  <2>3. /\ b \in Seq(Peers) /\ Len(b) = Len(peers) - k
        /\ \A i \in 1 .. Len(peers) - k : b[i] = peers[i + k]
    BY <2>1
  <2> HIDE DEF a, b
  <2>4. /\ a \o b \in Seq(Peers) /\ Len(a \o b) = Len(a) + Len(b)
        /\ \A i \in 1 .. Len(a) + Len(b) : (a \o b)[i] = IF i <= Len(a) THEN a[i] ELSE b[i - Len(a)]
    BY <2>2, <2>3, ConcatProperties
  <2>5. q \in Seq(Peers) /\ Len(q) = Len(peers) - 1
    BY <2>1, <2>2, <2>3, <2>4
  <2>6. ASSUME NEW i \in 1 .. Len(peers) - 1 PROVE q[i] = peers[IF i < k THEN i ELSE i + 1]
    <3>1. q[i] = IF i <= k - 1 THEN a[i] ELSE b[i - (k - 1)]
      BY <2>1, <2>2, <2>3, <2>4
    <3>2. CASE i < k
      BY <2>1, <2>2, <3>1, <3>2
    <3>3. CASE i >= k
      BY <2>1, <2>3, <3>1, <3>3
    <3>4. i < k \/ i >= k
      BY <2>1
    <3> QED
      BY <3>2, <3>3, <3>4
  <2> QED
    BY <2>5, <2>6
<1> HIDE DEF q
<1> QED
  BY <1>1, SMTT(20) DEF PeersListed, q

\* The list is no longer than there are peers, and as long as the set of those
\* that it names.
LEMMA PeersCounted ==
  ASSUME PeersListed
  PROVE  Known \subseteq Peers /\ Len(peers) = Cardinality(Known) /\ Len(peers) <= Cardinality(Peers)
<1>1. Known \subseteq Peers /\ Len(peers) \in Nat /\ DOMAIN peers = 1 .. Len(peers)
  BY DEF PeersListed, Known
<1>2. peers \in Bijection(1 .. Len(peers), Known)
  BY <1>1 DEF PeersListed, Known, Bijection, Injection, Surjection, IsInjective
<1>3. Cardinality(Known) = Len(peers)
  BY <1>1, <1>2, FS_CountingElements DEF ExistsBijection
<1>4. Cardinality(Known) <= Cardinality(Peers)
  BY <1>1, FS_Subset, SyncAssumption
<1> QED
  BY <1>1, <1>3, <1>4
-----------------------------------------------------------------------------
\* StartSync preserves the invariant: the target is at or above the counter,
\* and the counter is that of a node that has been started.
LEMMA StartSyncInv ==
  ASSUME Inv, ~EarlyGossip, Prompt, NEW p \in Peers, StartSync(p)
  PROVE  Inv'
<1> USE SyncAssumption DEF Inv, Heights, None
<1>1. PeersListed' /\ AsksTyped' /\ Storage'
  BY DEF StartSync, PeersListed, AsksTyped, Storage, node, network
<1>2. has[p] \in 0 .. MaxHeight /\ Settled /\ Settled'
  BY DEF StartSync, Typed, Settled, finality
<1>3. Typed'
  BY <1>2 DEF StartSync, Typed, node, network, finality, bounds
<1>4. Booting' /\ Running'
  BY <1>2 DEF StartSync, Booting, Running, Memory, Behind, Typed, node
<1>5. InBatch' /\ Pending'
  BY <1>2 DEF StartSync, InBatch, Running, Booting, Pending, Settled, Typed, node, finality
<1> QED
  BY <1>1, <1>3, <1>4, <1>5

\* A new batch ends at or below the target.
LEMMA NewBatchInv == ASSUME Inv, NewBatch PROVE Inv'
<1> USE SyncAssumption DEF Inv, Heights, None
<1> DEFINE k == Min({Len(peers), target - current + 1})
<1>1. Len(peers) \in Nat \ {0} /\ Len(peers) <= Cardinality(Peers)
  BY PeersCounted DEF NewBatch, PeersListed
<1>2. target - current + 1 \in Nat \ {0}
  BY DEF NewBatch, InBatch, Typed
<1>3. k \in {Len(peers), target - current + 1} /\ k <= Len(peers) /\ k <= target - current + 1
  BY <1>1, <1>2 DEF Min
<1>4. /\ current' = current + k /\ cache' = current /\ pc' = "wait" /\ offered' = {}
      /\ chs' = current .. current' - 1
      /\ asks' = asks \cup {[height |-> h, index |-> h - current + 1] : h \in current .. current' - 1}
      /\ UNCHANGED <<node, target, network, finality, bounds>> /\ pc = "batch"
  BY DEF NewBatch
<1> HIDE DEF k
<1>5. current < current' /\ current' <= target + 1 /\ current' - current <= Cardinality(Peers)
  BY <1>1, <1>2, <1>3, <1>4, FS_CardinalityType DEF Typed
<1>6. PeersListed' /\ Storage'
  BY <1>4 DEF PeersListed, Storage, node, network
<1>7. AsksTyped'
  <2>1. Cardinality(Peers) \in Nat
    BY FS_CardinalityType
  <2>2. ASSUME NEW h \in current .. current' - 1
        PROVE  h \in Heights /\ h - current + 1 \in 1 .. Cardinality(Peers)
    BY <1>3, <1>4, <1>5, <2>1 DEF Typed
  <2> QED
    BY <1>4, <2>2 DEF AsksTyped
<1>8. Typed'
  <2>1. target \in Heights /\ current \in Nat /\ k \in Nat
    BY <1>1, <1>2, <1>3 DEF Typed
  <2>3. current' \in 0 .. MaxHeight
    BY <1>4, <1>5, <2>1
  <2>2. chs' \subseteq Heights
    BY <1>4, <1>5, <2>1
  <2> QED
    BY <1>4, <1>5, <2>1, <2>2, <2>3 DEF Typed, node, network, finality, bounds
<1>10. Settled /\ Settled'
  BY <1>4 DEF Pending, Settled, finality
<1>9. Booting' /\ Running' /\ Pending' /\ InBatch'
  BY <1>3, <1>4, <1>5, <1>10
     DEF Booting, Running, Memory, Behind, Pending, Settled, InBatch, Typed, node, finality
<1> QED
  BY <1>6, <1>7, <1>8, <1>9

\* Requests, answers and the peers' own steps leave the node's counters,
\* accounts and blocks alone.
LEMMA NetworkInv ==
  ASSUME Inv,
         \/ \E a \in asks : BlockRequest(a)
         \/ \E m \in DOMAIN wire : HandleBlockReq(m) \/ HandleBlockRes(m)
         \/ \E p \in Peers : Meet(p) \/ PeerGrows(p) \/ PeerCrash(p) \/ PeerRestart(p)
  PROVE  Inv'
<1> USE SyncAssumption DEF Inv
<1>1. CASE \E a \in asks : BlockRequest(a)
  <2> PICK a \in asks : BlockRequest(a)
    BY <1>1
  <2>1. a.index \in 1 .. Len(peers)
    BY DEF BlockRequest, AsksTyped, PeersListed
  <2>2. PeersListed'
    <3>1. UNCHANGED peers \/ peers' = RemoveAt(peers, a.index)
      BY DEF BlockRequest
    <3> QED
      BY <2>1, <3>1, PeersRemoved DEF PeersListed
  <2>3. /\ UNCHANGED <<node, pc, target, current, cache, chs, offered, alive, has, finality, bounds>>
        /\ asks' \subseteq asks
    BY DEF BlockRequest
  <2>4. Typed' /\ AsksTyped'
    BY <2>3 DEF Typed, AsksTyped, node, finality, bounds
  <2> QED
    BY <2>2, <2>3, <2>4 DEF Booting, Storage, Running, Memory, Behind, Pending, Settled, InBatch, node,
                            finality
<1>2. CASE \E m \in DOMAIN wire : HandleBlockReq(m)
  <2>1. UNCHANGED <<node, goroutine, peers, alive, has, finality, bounds>>
    BY <1>2 DEF HandleBlockReq
  <2>2. Typed' /\ PeersListed' /\ AsksTyped'
    BY <2>1 DEF Typed, PeersListed, AsksTyped, node, goroutine, finality, bounds
  <2> QED
    BY <2>1, <2>2 DEF Booting, Storage, Running, Memory, Behind, Pending, Settled, InBatch, node,
                      goroutine, finality
<1>3. CASE \E m \in DOMAIN wire : HandleBlockRes(m)
  <2>1. /\ UNCHANGED <<node, finality, bounds, pc, target, current, cache, chs, asks, peers, alive, has>>
        /\ offered' \subseteq chs
    BY <1>3 DEF HandleBlockRes, Typed
  <2>2. Typed' /\ PeersListed' /\ AsksTyped'
    BY <2>1 DEF Typed, PeersListed, AsksTyped, node, finality, bounds
  <2> QED
    BY <2>1, <2>2 DEF Booting, Storage, Running, Memory, Behind, Pending, Settled, InBatch, node, finality
<1>4. CASE \E p \in Peers : Meet(p)
  <2> PICK p \in Peers : Meet(p)
    BY <1>4
  <2>1. PeersListed'
    BY PeersAppended DEF Meet
  <2>2. UNCHANGED <<node, goroutine, alive, has, finality, bounds>>
    BY DEF Meet
  <2>3. Typed' /\ AsksTyped'
    BY <2>2 DEF Typed, AsksTyped, node, goroutine, finality, bounds
  <2> QED
    BY <2>1, <2>2, <2>3 DEF Booting, Storage, Running, Memory, Behind, Pending, Settled, InBatch, node,
                            goroutine, finality
<1>5. CASE \E p \in Peers : PeerGrows(p) \/ PeerCrash(p) \/ PeerRestart(p)
  <2>1. UNCHANGED <<node, goroutine, finality, peers>>
    BY <1>5 DEF PeerGrows, PeerCrash, PeerRestart
  <2>2. /\ PeersListed' /\ AsksTyped' /\ Booting' /\ Storage' /\ Running' /\ Pending'
        /\ InBatch'
    BY <2>1 DEF PeersListed, AsksTyped, Booting, Storage, Running, Memory, Behind, Pending, Settled,
                InBatch, node, goroutine, finality
  <2>3. alive' \subseteq Peers /\ faults' \in Nat /\ early' \in Nat /\ faults' + early' <= MaxFaults
    BY <1>5 DEF PeerGrows, PeerCrash, PeerRestart, Typed, bounds
  <2>4. has' \in [Peers -> 0 .. MaxHeight]
    BY <1>5 DEF PeerGrows, PeerCrash, PeerRestart, Typed
  <2> QED
    BY <2>1, <2>2, <2>3, <2>4, ZenonT(40) DEF Typed, node, goroutine, finality
<1> QED
  BY <1>1, <1>2, <1>3, <1>4, <1>5
-----------------------------------------------------------------------------
\* The process dies and starts again: storage keeps what it has at any place of
\* sync, and nothing else is left.
LEMMA DieInv ==
  ASSUME Inv, Crash \/ Restart \/ \E a \in asks : BlockRequestFails(a)
  PROVE  Inv'
<1> USE SyncAssumption DEF Inv
<1>1. CASE Restart
  <2>1. PeersListed'
    BY <1>1 DEF Restart, Fresh, PeersListed
  <2>2. gen' \in BOOLEAN /\ height' \in 0 .. MaxHeight /\ mem' = {}
    <3>1. gen' = FALSE /\ height' = 0 /\ mem' = {}
      BY <1>1 DEF Restart, Fresh
    <3>2. 0 \in 0 .. MaxHeight
      OBVIOUS
    <3> QED
      BY <3>1, <3>2
  <2>3. Typed'
    BY <1>1, <2>2 DEF Restart, Fresh, Typed, goroutine, finality, bounds
  <2>4. Settled /\ Settled'
    BY <1>1 DEF Restart, Booting, Settled, finality
  <2> QED
    BY <1>1, <2>1, <2>3, <2>4 DEF Restart, Fresh, AsksTyped, Booting, Storage, Running, Pending,
                                  Settled, InBatch, goroutine
<1>2. CASE Crash \/ \E a \in asks : BlockRequestFails(a)
  <2>1. Die /\ (UNCHANGED faults \/ (faults' = faults + 1 /\ faults + early < MaxFaults))
    <3>1. CASE Crash
      BY <3>1 DEF Crash
    <3>2. CASE \E a \in asks : BlockRequestFails(a)
      <4> PICK a \in asks : BlockRequestFails(a)
        BY <3>2
      <4> QED
        BY DEF BlockRequestFails
    <3> QED
      BY <1>2, <3>1, <3>2
  <2>2. 0 \in Heights
    BY DEF Heights
  <2>3. PeersListed' /\ Typed' /\ AsksTyped'
    BY <2>1, <2>2 DEF Die, PeersListed, Typed, AsksTyped
  <2>4. Settled'
    BY <2>1 DEF Die, Settled
  <2> QED
    BY <2>1, <2>3, <2>4 DEF Die, Booting, Storage, Running, Pending, Settled, InBatch
<1> QED
  BY <1>1, <1>2

\* sync returns on a timeout, or takes the block it waits for.
LEMMA WaitInv == ASSUME Inv, Timeout \/ TimeoutEarly \/ Take PROVE Inv'
<1> USE SyncAssumption DEF Inv
<1>1. /\ PeersListed' /\ AsksTyped' /\ Storage' /\ Settled /\ Settled' /\ pc = "wait"
      /\ UNCHANGED <<node, finality, network>>
  BY DEF Timeout, TimeoutEarly, Take, PeersListed, AsksTyped, Storage, Pending, Settled, node, network,
         finality
<1>2. Pending'
  BY <1>1 DEF Pending, Settled
<1>3. CASE Timeout \/ TimeoutEarly
  <2>1. Typed'
    BY <1>3 DEF Timeout, TimeoutEarly, EndSync, Typed, node, network, finality, bounds
  <2> QED
    BY <1>1, <1>2, <1>3, <2>1
       DEF Timeout, TimeoutEarly, EndSync, Booting, Running, Memory, Behind, InBatch, node
<1>4. CASE Take
  <2>1. Typed'
    BY <1>4 DEF Take, Typed, node, network, finality, bounds
  <2>2. Booting' /\ InBatch'
    BY <1>1, <1>4 DEF Take, Typed, Booting, InBatch, node
  <2>3. cache = 0 => latest = None /\ mem = sto
    BY <1>1 DEF Running, Booting, InBatch, Memory, Behind, Typed, Heights, None
  <2>4. Running'
    BY <1>1, <1>4, <2>3 DEF Take, Typed, Booting, Running, Memory, Behind, InBatch, node
  <2> QED
    BY <1>1, <1>2, <2>1, <2>2, <2>4
<1> QED
  BY <1>3, <1>4

-----------------------------------------------------------------------------
\* What is known when a block is checked: it is the next one of a node that is
\* started and holds the genesis block and the generator's account.
LEMMA AtCheck ==
  ASSUME Inv, pc = "check"
  PROVE  /\ boot = "done" /\ Settled /\ CheckBlockInfo /\ gen /\ 0 \in sto /\ 0 \in mem /\ Memory
         /\ latest \in Nat /\ cache = latest + 1 /\ height = cache /\ cache \in Heights
<1> USE SyncAssumption DEF Inv, Heights, None
<1>1. boot = "done" /\ Settled /\ cache = height /\ cache > 0 /\ cache < current
  BY DEF Booting, Pending, InBatch
<1>2. height = latest + 1 /\ gen = (0 \in stored) /\ (gen => 0 \in sto) /\ Memory
  BY <1>1 DEF Running
<1>3. latest \in Nat /\ 0 \in stored /\ cache \in Heights
  BY <1>1, <1>2 DEF Storage, Typed
<1>4. gen /\ 0 \in sto
  BY <1>2, <1>3
<1>5. 0 \in mem
  BY <1>2, <1>4 DEF Memory
<1> QED
  BY <1>1, <1>2, <1>3, <1>4, <1>5 DEF CheckBlockInfo

\* On a storage that is not damaged the block is executed, or was before a
\* crash, and the state hash is that of the block.
LEMMA Accepted ==
  ASSUME Inv, pc = "check", ~Damaged
  PROVE  ~Hangs /\ Executed = 0 .. cache /\ Executed = sto \cup {cache}
<1>1. /\ gen /\ 0 \in sto /\ 0 \in mem /\ Memory
      /\ latest \in Nat /\ cache = latest + 1 /\ height = cache
  BY AtCheck
<1>2. (latest > 0 => latest \in sto) /\ ~(cache \in sto /\ cache \in Transfers) /\ mem = sto
  BY <1>1 DEF Damaged, Memory, Behind
<1>3. sto \cup {cache} = 0 .. cache
  <2>1. ASSUME NEW x \in 0 .. cache PROVE x \in sto \cup {cache}
    BY <1>1, <1>2 DEF Inv, Storage
  <2>2. ASSUME NEW x \in sto PROVE x \in 0 .. cache
    BY <1>1 DEF Inv, Storage
  <2> QED
    BY <1>1, <2>1, <2>2
<1>4. CASE cache \in Transfers
  <2>1. cache \notin mem
    BY <1>2, <1>4
  <2>2. \A k \in 1 .. cache - 1 : k \in mem
    BY <1>1, <1>2 DEF Inv, Storage
  <2>3. NonceOk
    BY <2>1, <2>2 DEF NonceOk
  <2>4. ~Hangs /\ Executed = mem \cup {cache}
    BY <1>1, <1>4, <2>3 DEF Hangs, Executed
  <2> QED
    BY <1>2, <1>3, <2>4
<1>5. CASE cache \notin Transfers
  <2>1. ~Hangs
    BY <1>1, <1>5 DEF Hangs
  <2>2. CASE cache \in mem
    <3>1. Executed = (mem \ {cache}) \cup (sto \cap {0, cache})
      BY <1>1, <1>5, <2>2 DEF Executed, Reverted
    <3>2. Executed = sto \cup {cache}
      BY <1>2, <2>2, <3>1
    <3> QED
      BY <1>3, <2>1, <3>2
  <2>3. CASE cache \notin mem
    <3>1. Executed = mem \cup {cache}
      BY <1>1, <1>5, <2>3 DEF Executed
    <3> QED
      BY <1>2, <1>3, <2>1, <3>1
  <2> QED
    BY <2>2, <2>3
<1> QED
  BY <1>4, <1>5

\* On a damaged storage execution hangs, or storage is behind and the accounts
\* of the latest block are missing afterwards.
LEMMA Refused ==
  ASSUME Inv, pc = "check", Damaged
  PROVE  Hangs \/ (Behind /\ Executed # 0 .. cache /\ (Executed = sto \/ Executed = sto \cup {height}))
<1>1. /\ CheckBlockInfo /\ gen /\ 0 \in sto /\ 0 \in mem /\ Memory
      /\ latest \in Nat /\ cache = latest + 1 /\ height = cache
  BY AtCheck
<1>2. CASE Behind
  <2>1. latest \notin mem /\ latest \in 1 .. cache - 1 /\ cache \notin sto
    BY <1>1, <1>2 DEF Behind, Memory, Inv, Storage
  <2>2. CASE cache \in Transfers
    <3>1. ~NonceOk
      <4>1. SUFFICES ASSUME NonceOk PROVE FALSE
        OBVIOUS
      <4>2. (latest + 1 .. cache - 1) \subseteq Transfers
        BY <1>1
      <4> QED
        BY <2>1, <4>1, <4>2 DEF NonceOk
    <3> QED
      BY <1>1, <2>2, <3>1 DEF Hangs
  <2>3. CASE cache \notin Transfers
    <3>1. CASE cache \in mem
      <4>1. Executed = (mem \ {cache}) \cup (sto \cap {0, cache})
        BY <1>1, <2>3, <3>1 DEF Executed, Reverted
      <4>2. mem = sto \cup {cache}
        BY <1>1, <2>1, <3>1 DEF Memory
      <4>3. Executed = sto
        BY <1>1, <2>1, <4>1, <4>2
      <4> QED
        BY <1>1, <1>2, <2>1, <4>3 DEF Behind
    <3>2. CASE cache \notin mem
      <4>1. Executed = mem \cup {cache}
        BY <1>1, <2>3, <3>2 DEF Executed
      <4>2. mem = sto
        BY <1>1, <3>2 DEF Memory
      <4>3. latest \notin Executed
        BY <1>1, <2>1, <4>1
      <4> QED
        BY <1>1, <1>2, <4>1, <4>2, <4>3
    <3> QED
      BY <3>1, <3>2
  <2> QED
    BY <2>2, <2>3
<1>3. CASE ~Behind
  <2>1. cache \in sto /\ cache \in Transfers /\ mem = sto
    BY <1>1, <1>3 DEF Damaged, Behind, Memory
  <2>2. ~NonceOk
    BY <2>1 DEF NonceOk
  <2> QED
    BY <1>1, <2>1, <2>2 DEF Hangs
<1> QED
  BY <1>2, <1>3

\* VerifyBlock goes on with the block, or returns on a storage that is behind.
LEMMA VerifyInv == ASSUME Inv, VerifyBlock PROVE Inv'
<1> USE SyncAssumption DEF Inv
<1>1. /\ pc = "check" /\ ~Hangs
      /\ UNCHANGED <<boot, height, gen, sto, stored, latest, target, current, cache, asks, network,
                     finality, bounds>>
  BY DEF VerifyBlock
<1>2. /\ boot = "done" /\ Settled /\ CheckBlockInfo /\ latest \in Nat /\ cache = latest + 1
      /\ height = cache /\ cache \in Heights
  BY <1>1, AtCheck
<1>3. Settled' /\ PeersListed' /\ AsksTyped' /\ Storage' /\ Pending'
  BY <1>1, <1>2 DEF Settled, PeersListed, AsksTyped, Storage, Pending, network, finality
<1>4. mem' = Executed
  BY <1>2 DEF VerifyBlock
<1>5. CASE ~Damaged
  <2>1. /\ mem' = 0 .. cache /\ mem' = sto \cup {cache} /\ pc' = "push"
        /\ UNCHANGED <<chs, offered>>
    BY <1>1, <1>2, <1>4, <1>5, Accepted DEF VerifyBlock, CheckStateHash
  <2>2. Typed'
    BY <1>1, <1>2, <2>1 DEF Typed, network, finality, bounds
  <2> QED
    BY <1>1, <1>2, <1>3, <2>1, <2>2 DEF Booting, Running, InBatch
<1>6. CASE Damaged
  <2>1. /\ Behind /\ Executed # 0 .. cache
        /\ Executed = sto \/ Executed = sto \cup {height}
    BY <1>1, <1>6, Refused
  <2>2. EndSync
    BY <2>1 DEF VerifyBlock, CheckStateHash
  <2>3. Typed'
    BY <1>1, <1>2, <1>4, <2>1, <2>2 DEF EndSync, Typed, network, finality, bounds
  <2>4. Memory'
    BY <1>1, <1>4, <2>1 DEF Memory, Behind
  <2> QED
    BY <1>1, <1>2, <1>3, <2>2, <2>3, <2>4 DEF EndSync, Booting, Running, InBatch
<1> QED
  BY <1>5, <1>6

\* The steps after the check are those of a node without a verdict at work.
LEMMA AtWork ==
  ASSUME Inv, pc \in {"push", "put", "event"}
  PROVE  boot = "done" /\ Settled /\ cache = height /\ cache \in Heights /\ latest \in Heights \cup {None}
<1>1. boot = "done" /\ Settled /\ cache = height /\ cache < current
  BY DEF Inv, Booting, Pending, InBatch
<1> QED
  BY <1>1, SyncAssumption DEF Inv, Typed, Heights

\* Accounts of a verified block are stored.
LEMMA PushInv == ASSUME Inv, Push PROVE Inv'
<1> USE SyncAssumption DEF Inv
<1>1. /\ boot = "done" /\ Settled /\ pc = "push" /\ pc' = "put" /\ sto' = 0 .. cache
      /\ mem = 0 .. cache /\ cache = latest + 1 /\ height = cache /\ cache > 0 /\ 0 \in stored /\ gen
      /\ cache \in Heights
  <2>1. pc = "push" /\ pc' = "put" /\ sto' = sto \cup (mem \cap {cache})
    BY DEF Push
  <2>2. boot = "done" /\ Settled /\ cache = height /\ cache \in Heights /\ cache > 0
    BY <2>1, AtWork DEF InBatch
  <2>3. /\ mem = 0 .. cache /\ sto \cup {cache} = mem /\ height = latest + 1
        /\ gen = (0 \in stored)
    BY <2>1, <2>2 DEF Running
  <2>4. 0 \in stored
    BY <2>2, <2>3 DEF Storage, Typed, Heights, None
  <2>5. cache \in mem
    BY <2>2, <2>3 DEF Heights
  <2>6. sto' = 0 .. cache
    BY <2>1, <2>3, <2>5
  <2> QED
    BY <2>1, <2>2, <2>3, <2>4, <2>6
<1>2. PeersListed' /\ AsksTyped' /\ Settled' /\ Pending'
  BY <1>1 DEF Push, PeersListed, AsksTyped, Settled, Pending, network, finality
<1>3. Typed'
  BY <1>1 DEF Push, Typed, network, finality, bounds, Heights
<1>4. Booting' /\ InBatch'
  BY <1>1, <1>2 DEF Push, Booting, InBatch
<1>5. Storage'
  BY <1>1 DEF Push, Storage, Typed, Heights, None
<1>6. Running'
  <2>1. 0 \in sto' /\ mem' = sto' /\ UNCHANGED <<boot, height, gen, mem, stored, latest, cache>>
    BY <1>1 DEF Push, Heights
  <2>2. boot' = "done" /\ height' = latest' + 1 /\ gen' /\ 0 \in stored' /\ pc' = "put"
    BY <1>1, <2>1
  <2>3. gen' = (0 \in stored')
    BY <2>2, <1>1, <2>1
  <2> QED
    BY <1>1, <2>1, <2>2, <2>3 DEF Running, Memory
<1> QED
  BY <1>2, <1>3, <1>4, <1>5, <1>6

\* The block itself is stored.
LEMMA PutInv == ASSUME Inv, Put PROVE Inv'
<1> USE SyncAssumption DEF Inv
<1>1. /\ boot = "done" /\ Settled /\ pc = "put" /\ pc' = "event" /\ latest' = cache
      /\ stored' = stored \cup {cache} /\ cache = latest + 1 /\ height = cache
      /\ mem = sto /\ cache \in Heights /\ (cache > 0 => sto = 0 .. cache)
      /\ gen = (0 \in stored)
      /\ UNCHANGED <<boot, height, gen, mem, sto, target, current, cache, chs, offered, asks, network,
                     finality, bounds>>
  <2>1. /\ pc = "put" /\ pc' = "event" /\ latest' = cache /\ stored' = stored \cup {cache}
        /\ UNCHANGED <<boot, height, gen, mem, sto, target, current, cache, chs, offered, asks, network,
                       finality, bounds>>
    BY DEF Put
  <2>2. boot = "done" /\ Settled /\ cache = height /\ cache \in Heights
    BY <2>1, AtWork
  <2> QED
    BY <2>1, <2>2 DEF Running
<1>2. PeersListed' /\ AsksTyped' /\ Settled' /\ Pending'
  BY <1>1 DEF PeersListed, AsksTyped, Settled, Pending, network, finality
<1>3. Typed'
  BY <1>1 DEF Typed, network, finality, bounds
<1>4. Booting' /\ InBatch'
  BY <1>1, <1>2 DEF Booting, InBatch
<1>5. Storage'
  <2>1. stored' = 0 .. cache
    BY <1>1 DEF Storage, Typed, Heights, None
  <2> QED
    BY <1>1, <2>1 DEF Storage, Typed, Heights, None
<1>6. Running'
  <2>1. cache > 0 => gen /\ 0 \in sto
    <3>1. cache > 0 => 0 \in stored /\ 0 \in sto
      BY <1>1 DEF Storage, Typed, Heights, None
    <3> QED
      BY <1>1, <3>1
  <2> QED
    BY <1>1, <2>1 DEF Running, Memory
<1> QED
  BY <1>2, <1>3, <1>4, <1>5, <1>6

\* The block is counted, and the genesis accounts are fetched.
LEMMA EventInv == ASSUME Inv, Event PROVE Inv'
<1> USE SyncAssumption DEF Inv, Heights, None
<1>1. /\ boot = "done" /\ Settled /\ pc = "event" /\ height = latest /\ cache = latest
      /\ height' = latest + 1 /\ mem = sto /\ cache < current /\ current <= target + 1
      /\ cache' = cache + 1 /\ latest \in Heights /\ 0 \in stored
      /\ (latest > 0 => gen /\ 0 \in sto)
      /\ UNCHANGED <<boot, stored, latest, target, current, asks, network, finality, bounds>>
  <2>1. /\ pc = "event" /\ cache' = cache + 1 /\ height' = height + 1
        /\ UNCHANGED <<boot, stored, latest, target, current, asks, network, finality, bounds>>
    BY DEF Event
  <2>2. boot = "done" /\ Settled /\ cache = height /\ cache \in Heights
    BY <2>1, AtWork
  <2>3. height = latest /\ (latest > 0 => gen /\ 0 \in sto) /\ mem = sto
    BY <2>1, <2>2 DEF Running
  <2> QED
    BY <2>1, <2>2, <2>3 DEF InBatch, Typed, Storage
<1>2. gen' = TRUE /\ sto' = sto \cup {0} /\ mem' = sto \cup {0}
  <2>1. CASE cache = 0
    BY <1>1, <2>1 DEF Event
  <2>2. CASE cache # 0
    <3>1. gen /\ 0 \in sto
      BY <1>1, <2>2
    <3> QED
      BY <1>1, <2>2, <3>1 DEF Event
  <2> QED
    BY <2>1, <2>2
<1>3. /\ pc' \in {"wait", "batch", "idle"} /\ offered' \subseteq chs' /\ chs' \subseteq Heights
      /\ pc' = "wait" => cache' < current
      /\ pc' = "batch" => cache' >= current /\ current <= target
  <2>1. offered \subseteq chs /\ chs \subseteq Heights
    BY DEF Typed
  <2>2. CASE cache' < current
    BY <2>1, <2>2 DEF Event
  <2>3. CASE ~(cache' < current) /\ current > target
    BY <2>3 DEF Event, EndSync
  <2>4. CASE ~(cache' < current) /\ ~(current > target)
    <3>1. pc' = "batch" /\ UNCHANGED <<chs, offered>>
      BY <2>4 DEF Event
    <3>2. cache' >= current /\ current <= target
      BY <1>1, <2>4 DEF Typed
    <3> QED
      BY <2>1, <3>1, <3>2
  <2> QED
    BY <2>2, <2>3, <2>4
<1>4. PeersListed' /\ AsksTyped' /\ Settled' /\ Pending'
  BY <1>1 DEF PeersListed, AsksTyped, Settled, Pending, network, finality
<1>5. Typed'
  <2>1. gen' \in BOOLEAN /\ mem' \cup sto' \cup stored' \subseteq Heights
    BY <1>1, <1>2 DEF Typed
  <2> QED
    BY <1>1, <1>3, <2>1 DEF Typed, network, finality, bounds
<1>6. Booting' /\ InBatch'
  BY <1>1, <1>3, <1>4 DEF Booting, InBatch, Typed
<1>7. Storage'
  BY <1>1, <1>2 DEF Storage
<1>8. Running'
  <2>1. gen' = (0 \in stored') /\ 0 \in sto'
    BY <1>1, <1>2
  <2> QED
    BY <1>1, <1>2, <1>3, <2>1 DEF Running, Memory
<1> QED
  BY <1>4, <1>5, <1>6, <1>7, <1>8

-----------------------------------------------------------------------------
\* A round ends well on a node whose memory is what storage holds.
LEMMA FinalizeInv == ASSUME Inv, NEW p \in Peers, Finalize(p) PROVE Inv'
<1> USE SyncAssumption DEF Inv
<1>1. /\ boot = "done" /\ pc = "idle" /\ Settled /\ height \in 1 .. MaxHeight - 1
      /\ mem = 0 .. height - 1 /\ mem' = mem \cup {height} /\ settling' = height /\ storing' = height
      /\ UNCHANGED <<boot, height, gen, sto, stored, latest, counting, goroutine, network, bounds>>
  BY DEF Finalize
<1>2. height = latest + 1 /\ gen = (0 \in stored) /\ Memory /\ height \in Heights /\ height > 0
  BY <1>1 DEF Running, Heights
<1>3. sto = 0 .. height - 1
  BY <1>1, <1>2 DEF Memory
<1>4. mem' = 0 .. height
  BY <1>1, <1>2
<1>5. 0 \in stored
  BY <1>2, <1>1 DEF Storage, Typed, Heights
<1>6. PeersListed' /\ AsksTyped' /\ Storage' /\ InBatch' /\ Booting'
  BY <1>1 DEF PeersListed, AsksTyped, Storage, InBatch, Booting, goroutine, network
<1>7. Typed'
  BY <1>1, <1>2 DEF Typed, goroutine, network, bounds
<1>8. storing' # None /\ settling' # None /\ ~Settled' /\ counting' = None /\ height' = height
  BY <1>1, <1>2 DEF Settled, None, Heights
<1>9. Running' /\ Pending'
  BY <1>1, <1>2, <1>3, <1>4, <1>5, <1>8 DEF Running, Pending, goroutine
<1> QED
  BY <1>6, <1>7, <1>9

\* The accounts of a verdict are stored, before or after its block.
LEMMA SettleInv == ASSUME Inv, Settle PROVE Inv'
<1> USE SyncAssumption DEF Inv
<1>1. /\ settling # None /\ settling' = None /\ sto' = sto \cup {settling}
      /\ UNCHANGED <<boot, height, gen, mem, stored, latest, storing, counting, goroutine, network, bounds>>
  BY DEF Settle
<1>2. /\ boot = "done" /\ pc = "idle" /\ gen /\ 0 \in stored /\ settling \in Heights /\ settling > 0
      /\ mem = 0 .. settling /\ sto = 0 .. settling - 1
  BY <1>1 DEF Pending, Settled, Typed
<1>3. sto' = 0 .. settling
  BY <1>1, <1>2 DEF Heights
<1>4. PeersListed' /\ AsksTyped' /\ InBatch'
  BY <1>1 DEF PeersListed, AsksTyped, InBatch, goroutine, network
<1>5. Typed'
  BY <1>1, <1>2 DEF Typed, goroutine, network, bounds
<1>6. Booting'
  BY <1>1, <1>2 DEF Booting, goroutine
<1>7. latest \in Int /\ height \in Nat /\ (latest = settling \/ latest = settling - 1)
  BY <1>1, <1>2 DEF Pending, Typed, Heights, None
<1>8. Storage'
  BY <1>1, <1>2, <1>3, <1>7 DEF Storage, Heights
<1>9. CASE storing = None /\ counting = None
  <2>1. settling = latest /\ height = latest + 1 /\ mem' = sto' /\ Settled'
    BY <1>1, <1>2, <1>3, <1>9 DEF Pending, Settled
  <2>2. gen' = (0 \in stored') /\ 0 \in sto'
    <3>1. gen = TRUE
      BY <1>2 DEF Typed
    <3>2. 0 \in sto'
      BY <1>2, <1>3 DEF Heights
    <3>3. (0 \in stored') = TRUE /\ gen' = TRUE
      BY <1>1, <1>2, <3>1
    <3> QED
      BY <3>2, <3>3
  <2>3. Running' /\ Pending'
    BY <1>1, <1>2, <1>9, <2>1, <2>2 DEF Running, Memory, Pending, Settled, goroutine
  <2> QED
    BY <1>4, <1>5, <1>6, <1>8, <2>3
<1>10. CASE storing # None \/ counting # None
  <2>1. settling = height /\ ~Settled'
    BY <1>1, <1>10 DEF Pending, Settled
  <2>2. Running' /\ Pending'
    BY <1>1, <1>2, <1>3, <1>10, <2>1 DEF Running, Pending, goroutine
  <2> QED
    BY <1>4, <1>5, <1>6, <1>8, <2>2
<1> QED
  BY <1>9, <1>10

\* The block of a verdict is stored, before or after its accounts.
LEMMA StoreFinalInv == ASSUME Inv, StoreFinal PROVE Inv'
<1> USE SyncAssumption DEF Inv
<1>1. /\ storing # None /\ storing' = None /\ counting' = storing
      /\ stored' = stored \cup {storing} /\ latest' = storing
      /\ UNCHANGED <<boot, height, gen, mem, sto, settling, goroutine, network, bounds>>
  BY DEF StoreFinal
<1>2. /\ boot = "done" /\ pc = "idle" /\ gen /\ 0 \in stored /\ storing \in Heights
      /\ storing = height /\ height = latest + 1 /\ counting = None /\ ~Settled
  BY <1>1 DEF Pending, Settled, Typed
<1>3. stored' = 0 .. height /\ latest \in Nat
  BY <1>1, <1>2 DEF Storage, Typed, Heights, None
<1>4. height > 0 /\ (sto = 0 .. height \/ sto = 0 .. height - 1)
  BY <1>1, <1>2 DEF Pending
<1>5. PeersListed' /\ AsksTyped' /\ InBatch' /\ Booting' /\ ~Settled' /\ counting' # None
  BY <1>1, <1>2 DEF PeersListed, AsksTyped, InBatch, Booting, Settled, goroutine, network
<1>6. Typed'
  BY <1>1, <1>2 DEF Typed, goroutine, network, bounds
<1>7. Storage'
  BY <1>1, <1>2, <1>3, <1>4 DEF Storage, Heights
<1>8. Running' /\ Pending'
  BY <1>1, <1>2, <1>3, <1>5 DEF Running, Pending, goroutine
<1> QED
  BY <1>5, <1>6, <1>7, <1>8

\* The block of a verdict is counted.
LEMMA CountFinalInv == ASSUME Inv, CountFinal PROVE Inv'
<1> USE SyncAssumption DEF Inv
<1>1. /\ counting # None /\ counting' = None /\ height' = height + 1
      /\ UNCHANGED <<boot, gen, mem, sto, stored, latest, settling, storing, goroutine, network, bounds>>
  BY DEF CountFinal
<1>2. /\ boot = "done" /\ pc = "idle" /\ gen /\ 0 \in stored /\ counting \in Heights
      /\ counting = height /\ height = latest /\ storing = None /\ ~Settled
  BY <1>1 DEF Pending, Settled, Typed, Heights, None
<1>3. PeersListed' /\ AsksTyped' /\ InBatch' /\ Booting' /\ Storage'
  BY <1>1, <1>2 DEF PeersListed, AsksTyped, InBatch, Booting, Storage, goroutine, network
<1>4. Typed'
  BY <1>1, <1>2 DEF Typed, Heights, goroutine, network, bounds
<1>5. CASE settling = None
  <2>1. Settled' /\ mem = sto /\ sto = 0 .. height /\ height > 0
    BY <1>1, <1>2, <1>5 DEF Pending, Settled
  <2>2. gen' = (0 \in stored') /\ 0 \in sto'
    <3>1. gen = TRUE
      BY <1>2 DEF Typed
    <3>2. 0 \in sto
      BY <1>2, <2>1 DEF Heights
    <3>3. (0 \in stored') = TRUE /\ gen' = TRUE /\ sto' = sto
      BY <1>1, <1>2, <3>1
    <3> QED
      BY <3>2, <3>3
  <2>3. Running' /\ Pending'
    BY <1>1, <1>2, <2>1, <2>2 DEF Running, Memory, Pending, Settled, goroutine
  <2> QED
    BY <1>3, <1>4, <2>3
<1>6. CASE settling # None
  <2>1. ~Settled'
    BY <1>1, <1>6 DEF Settled
  <2>2. Running' /\ Pending'
    BY <1>1, <1>2, <1>6, <2>1 DEF Running, Pending, goroutine
  <2> QED
    BY <1>3, <1>4, <2>2
<1> QED
  BY <1>5, <1>6

-----------------------------------------------------------------------------
\* Every step preserves the invariant.
LEMMA NextInv == ASSUME Inv, ~EarlyGossip, Prompt, [Next]_vars PROVE Inv'
<1>1. CASE Next
  BY <1>1, BootInv, StartSyncInv, NewBatchInv, NetworkInv, DieInv, WaitInv, VerifyInv, PushInv, PutInv,
     EventInv, FinalizeInv, SettleInv, StoreFinalInv, CountFinalInv DEF Next, SyncStep, Verdict
<1>2. CASE UNCHANGED vars
  <2>1. UNCHANGED <<node, finality, goroutine, network, bounds>>
    BY <1>2 DEF vars
  <2>2. Typed' /\ PeersListed' /\ AsksTyped'
    BY <2>1 DEF Inv, Typed, PeersListed, AsksTyped, node, finality, goroutine, network, bounds
  <2> QED
    BY <2>1, <2>2 DEF Inv, Booting, Storage, Running, Memory, Behind, Pending, Settled, InBatch,
                      node, finality, goroutine
<1> QED
  BY <1>1, <1>2

\* The invariant holds in every reachable state.
LEMMA Invariance == ASSUME ~EarlyGossip, Prompt PROVE Spec => []Inv
<1>1. Inv /\ [Next]_vars => Inv'
  BY NextInv
<1> QED
  BY <1>1, InitInv, PTL DEF Spec

\* Types: the heights of a batch stay below the bound, the index of a request
\* is that of a peer, and the list of peers names none twice.
THEOREM TypeCorrect == ASSUME ~EarlyGossip, Prompt PROVE Spec => []TypeOK
<1>1. Inv => TypeOK
  <2> SUFFICES ASSUME Inv PROVE TypeOK
    OBVIOUS
  <2>1. faults \in 0 .. MaxFaults /\ early \in 0 .. MaxFaults
    BY SyncAssumption DEF Inv, Typed
  <2> QED
    BY <2>1, PeersCounted DEF Inv, TypeOK, Typed, AsksTyped
<1> QED
  BY <1>1, Invariance, PTL

\* Whatever timeouts, late or doubled answers, dead peers and crashes of the
\* node there are, sync and the verdicts of rounds (Put, OnBlockStored) leave no
\* gap in the chain, and the counters of a node that runs are those of its chain.
THEOREM NoGap == ASSUME ~EarlyGossip, Prompt PROVE Spec => []ChainHasNoGap
<1>1. Inv => ChainHasNoGap
  <2> SUFFICES ASSUME Inv, boot = "done"
               PROVE  height = IF pc = "event" \/ counting # None THEN latest ELSE latest + 1
    BY DEF Inv, Storage, ChainHasNoGap
  <2>1. CASE Settled
    BY <2>1 DEF Inv, Running, Settled
  <2>2. CASE ~Settled
    BY <2>2 DEF Inv, Pending, Settled
  <2> QED
    BY <2>1, <2>2
<1> QED
  BY <1>1, Invariance, PTL

\* However often the node dies between the accounts and the block of a height,
\* stored by sync one after the other or by the goroutines of a verdict in any
\* order, the accounts in storage are at most one block behind or ahead.
THEOREM AccountsInStep == ASSUME ~EarlyGossip, Prompt PROVE Spec => []AccountsFollowChain
<1>1. Inv => AccountsFollowChain
  BY DEF Inv, Storage, AccountsFollowChain
<1> QED
  BY <1>1, Invariance, PTL

\* sync accepts a block of the chain (VerifyBlock) exactly when storage is not
\* damaged: it recovers from every crash around an airdrop that sync itself
\* stores, and from none that leaves a transfer executed twice (transferImpl
\* never returns) or a finalised block without its accounts.
THEOREM HonestAccepted == ASSUME ~EarlyGossip, Prompt PROVE Spec => []HonestBlockIsAccepted
<1>1. Inv => HonestBlockIsAccepted
  <2> SUFFICES ASSUME Inv, pc = "check"
               PROVE  CheckBlockInfo /\ (Damaged <=> Hangs \/ ~CheckStateHash(Executed))
    BY DEF HonestBlockIsAccepted
  <2>1. CheckBlockInfo
    BY AtCheck
  <2>2. CASE Damaged
    <3>1. Hangs \/ Executed # 0 .. cache
      BY <2>2, Refused
    <3> QED
      BY <2>1, <2>2, <3>1 DEF CheckStateHash
  <2>3. CASE ~Damaged
    <3>1. ~Hangs /\ Executed = 0 .. cache
      BY <2>3, Accepted
    <3> QED
      BY <2>1, <2>3, <3>1 DEF CheckStateHash
  <2> QED
    BY <2>2, <2>3
<1> QED
  BY <1>1, Invariance, PTL
=============================================================================
