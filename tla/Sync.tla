-------------------------------- MODULE Sync --------------------------------
(***************************************************************************)
(* How one node starts (nodes/node.go, Run) and catches up with its peers  *)
(* (nodes/sync): StartSync on gossip of a greater height, the goroutine    *)
(* sync that asks its peers for a batch of blocks, the goroutines that     *)
(* send the requests, the handlers that hand an answer to sync on a        *)
(* channel per height, and the steps that verify, execute and store a      *)
(* block. Peers answer, lag behind, die and come back. A node that is up   *)
(* to date gets its blocks from rounds of the consensus instead, whose     *)
(* verdict lets two goroutines store accounts and block.                   *)
(*                                                                         *)
(* There is one chain, so that a block is its height. Block 0 is the       *)
(* genesis block; each other holds an airdrop to an account of its own, or *)
(* a transfer back to the generator from the account of the last airdrop.  *)
(* Accounts are the set of blocks that have been applied to them, 0        *)
(* standing for the generator's account.                                   *)
(***************************************************************************)
EXTENDS Integers, Sequences, SequencesExt, Bags, FiniteSets, FiniteSetsExt

CONSTANTS
  Peers,
  Laggards,     \* peers that may stay behind forever
  EarlyGossip,  \* gossip is handled while Node.Run is still at work
  Prompt,       \* a verdict is stored and counted before a sync starts
  Transfers,    \* heights of the blocks that hold a transfer
  FirstHeight,  \* nextHeight of the peers when the node is first started
  MaxHeight,    \* bound: blocks there will ever be
  MaxFaults     \* bound: processes that die and timers that are too short

ASSUME SyncAssumption ==
  /\ IsFiniteSet(Peers) /\ Cardinality(Peers) <= 2   \* ports 3000 to 3002, less its own
  /\ Laggards \subseteq Peers
  /\ EarlyGossip \in BOOLEAN /\ Prompt \in BOOLEAN /\ Transfers \subseteq Nat \ {0, 1}
  /\ MaxHeight \in Nat \ {0} /\ FirstHeight \in 0 .. MaxHeight /\ MaxFaults \in Nat

Heights == 0 .. MaxHeight - 1
None == 0 - 1

VARIABLES
  boot,      \* where Node.Run is; "done" after it, "down" without a process
  height,    \* Blockchain.nextHeight
  gen,       \* Faucet.generator is set
  mem,       \* accounts in the state memory
  sto,       \* accounts in storage
  stored,    \* blocks in storage
  latest,    \* the block that latestKey names
  settling,  \* height of the block whose accounts Executer's goroutine is to store, or None
  storing,   \* height of the block that SyncService's goroutine is to store, or None
  counting,  \* height of the block it has stored and is to report, or None
  pc,        \* where the goroutine sync is; "idle" without one: isSyncing is false
  target,    \* its argument
  current,   \* the next height to ask for
  cache,     \* the height it waits for
  chs,       \* heights that have a channel
  offered,   \* heights a handler holds a block out for
  asks,      \* goroutines blockRequest that have not run: height and index
  peers,     \* P2pService.peers
  alive,     \* peers whose process runs
  has,       \* per peer: its nextHeight
  wire,      \* requests and answers on their way
  faults,    \* how often a process died
  early      \* how often a timer was too short

node == <<boot, height, gen, mem, sto, stored, latest>>
finality == <<settling, storing, counting>>
goroutine == <<pc, target, current, cache, chs, offered, asks>>
network == <<peers, alive, has, wire>>
bounds == <<faults, early>>
vars == <<node, finality, goroutine, network, bounds>>

Up == boot # "down"
Known == {peers[i] : i \in DOMAIN peers}
Message(type, p, h) == [type |-> type, peer |-> p, height |-> h]

\* The process starts on a storage: NewNode, NewBlockchain, NewMemoryService.
Fresh ==
  /\ boot' = "faucet" /\ height' = 0 /\ gen' = FALSE /\ mem' = {} /\ peers' = <<>>

Init ==
  /\ boot = "faucet" /\ height = 0 /\ gen = FALSE /\ mem = {} /\ peers = <<>>
  /\ sto = {} /\ stored = {} /\ latest = None
  /\ settling = None /\ storing = None /\ counting = None
  /\ pc = "idle" /\ target = 0 /\ current = 0 /\ cache = 0
  /\ chs = {} /\ offered = {} /\ asks = {}
  /\ alive = Peers /\ has = [p \in Peers |-> FirstHeight] /\ wire = EmptyBag
  /\ faults = 0 /\ early = 0

-----------------------------------------------------------------------------
\* Faucet.Init: without a genesis block nothing, else the generator's account
\* is put into storage unless it is there.
BootFaucet ==
  /\ boot = "faucet" /\ boot' = "counters"
  /\ gen' = (gen \/ 0 \in stored)
  /\ sto' = IF 0 \in stored THEN sto \cup {0} ELSE sto
  /\ UNCHANGED <<height, mem, stored, latest, goroutine, network, finality, bounds>>

\* Blockchain.Init from the latest block.
BootCounters_Count ==   \* mutant: counts the latest block's height only
  /\ boot = "counters" /\ boot' = "accounts"
  /\ height' = IF latest = None THEN height ELSE latest
  /\ UNCHANGED <<gen, mem, sto, stored, latest, goroutine, network, finality, bounds>>
BootCounters ==
  /\ boot = "counters" /\ boot' = "accounts"
  /\ height' = IF latest = None THEN height ELSE latest + 1
  /\ UNCHANGED <<gen, mem, sto, stored, latest, goroutine, network, finality, bounds>>

\* FetchAllAccounts.
BootAccounts_Skip ==   \* mutant: accounts are left to be fetched on demand
  /\ boot = "accounts" /\ boot' = "done"
  /\ UNCHANGED <<height, gen, mem, sto, stored, latest, goroutine, network, finality, bounds>>
BootAccounts ==
  /\ boot = "accounts" /\ boot' = "done"
  /\ mem' = mem \cup sto
  /\ UNCHANGED <<height, gen, sto, stored, latest, goroutine, network, finality, bounds>>

Boot == BootFaucet \/ BootCounters \/ BootAccounts

-----------------------------------------------------------------------------
\* No goroutine is left of the last verdict.
Settled == settling = None /\ storing = None /\ counting = None

\* handleGossip of a peer with a greater height: StartSync(NextHeight - 1).
StartSync(p) ==
  /\ Up /\ (EarlyGossip \/ boot = "done")
  /\ Prompt => Settled
  /\ p \in alive /\ has[p] > height
  /\ pc = "idle" /\ pc' = "batch"
  /\ target' = has[p] - 1 /\ current' = height
  /\ UNCHANGED <<node, cache, chs, offered, asks, network, finality, bounds>>

\* One request per peer, the i-th peer for the i-th height. Without a peer the
\* loop turns in vain. Handlers of an earlier map keep waiting for nobody.
NewBatch_Overrun ==   \* mutant: does not stop at the target
  /\ pc = "batch" /\ peers # <<>> /\ pc' = "wait"
  /\ cache' = current
  /\ current' = current + Len(peers)
  /\ chs' = current .. current' - 1
  /\ offered' = {}
  /\ asks' = asks \cup {[height |-> current + i - 1, index |-> i] : i \in 1 .. Len(peers)}
  /\ UNCHANGED <<node, target, network, finality, bounds>>
NewBatch ==
  /\ pc = "batch" /\ peers # <<>> /\ pc' = "wait"
  /\ cache' = current
  /\ current' = current + Min({Len(peers), target - current + 1})
  /\ chs' = current .. current' - 1
  /\ offered' = {}
  /\ asks' = asks \cup {[height |-> h, index |-> h - current + 1] : h \in current .. current' - 1}
  /\ UNCHANGED <<node, target, network, finality, bounds>>

\* blockRequest, in a goroutine of its own: the list of peers is read by now.
\* A dial that fails takes the peer off the list.
BlockRequest(a) ==
  /\ a \in asks /\ asks' = asks \ {a} /\ a.index <= Len(peers)
  /\ LET p == peers[a.index]
     IN  IF p \in alive
         THEN wire' = wire (+) SetToBag({Message("request", p, a.height)}) /\ UNCHANGED peers
         ELSE peers' = RemoveAt(peers, a.index) /\ UNCHANGED wire
  /\ UNCHANGED <<node, pc, target, current, cache, chs, offered, alive, has, finality, bounds>>

Die ==
  /\ boot' = "down" /\ pc' = "idle" /\ target' = 0 /\ current' = 0 /\ cache' = 0
  /\ chs' = {} /\ offered' = {} /\ asks' = {}
  /\ wire' = [m \in {m \in DOMAIN wire : m.type = "request"} |-> wire[m]]
  /\ settling' = None /\ storing' = None /\ counting' = None
  /\ UNCHANGED <<height, gen, mem, sto, stored, latest, peers, alive, has, early>>

\* PeerByIndex of a peer that has left the list: its check lets the index just
\* behind the end pass, and the process panics. (Two peers cannot be gone from
\* the list while a request is left, which PeerByIndex answers with nil.)
BlockRequestFails(a) ==
  /\ a \in asks /\ peers # <<>> /\ a.index = Len(peers) + 1
  /\ Die /\ UNCHANGED faults

-----------------------------------------------------------------------------
\* handleBlockReq of a peer: no answer for a block it does not have. The
\* unsigned NextHeight - 1 of an empty peer is huge, but it finds no block.
HandleBlockReq(m) ==
  /\ m \in DOMAIN wire /\ m.type = "request" /\ m.peer \in alive
  /\ wire' = (wire (-) SetToBag({m})) (+)
               (IF m.height < has[m.peer] /\ Up
                THEN SetToBag({Message("answer", m.peer, m.height)}) ELSE EmptyBag)
  /\ UNCHANGED <<node, goroutine, peers, alive, has, finality, bounds>>

\* handleBlockRes: a block that nobody has asked for is dropped; a second one
\* for the same height waits behind the first, for ever.
HandleBlockRes(m) ==
  /\ Up /\ m \in DOMAIN wire /\ m.type = "answer"
  /\ wire' = wire (-) SetToBag({m})
  /\ offered' = IF m.height \in chs THEN offered \cup {m.height} ELSE offered
  /\ UNCHANGED <<node, pc, target, current, cache, chs, asks, peers, alive, has, finality, bounds>>

-----------------------------------------------------------------------------
\* sync returns: chs = nil, isSyncing = false.
EndSync == pc' = "idle" /\ chs' = {} /\ offered' = {}

\* A second is enough for what is on its way: requests and answers alike.
Quiet == asks = {} /\ wire = EmptyBag

\* The timer of a second. It runs out when no answer comes; that it is too
\* short for one that may come is a fault.
Timeout_KeepsFlag ==   \* mutant: returns without marking syncing false
  /\ pc = "wait" /\ cache \notin offered /\ Quiet
  /\ chs' = {} /\ offered' = {} /\ pc' = "gone"
  /\ UNCHANGED <<node, target, current, cache, asks, network, finality, bounds>>
Timeout ==
  /\ pc = "wait" /\ cache \notin offered /\ Quiet
  /\ EndSync
  /\ UNCHANGED <<node, target, current, cache, asks, network, finality, bounds>>

TimeoutEarly ==
  /\ pc = "wait" /\ cache \notin offered /\ asks = {} /\ wire # EmptyBag
  /\ faults + early < MaxFaults /\ early' = early + 1
  /\ EndSync
  /\ UNCHANGED <<node, target, current, cache, asks, network, finality, faults>>

\* The genesis block is stored as it is.
Take ==
  /\ pc = "wait" /\ cache \in offered
  /\ pc' = IF cache = 0 THEN "put" ELSE "check"
  /\ offered' = offered \ {cache}
  /\ UNCHANGED <<node, target, current, cache, chs, asks, network, finality, bounds>>

CheckBlockInfo == cache = height

\* transferImpl finds its payer with the nonce of the transfer: the airdrop and
\* the transfers before it have been applied, and itself has not.
NonceOk ==
  /\ cache \notin mem
  /\ \A k \in 1 .. cache - 1 : (k + 1 .. cache - 1) \subseteq Transfers => k \in mem

\* The memory goroutine and ExecuteNow wait for each other for ever: the answer
\* about the payee is not taken when the payer is unknown or, of a transfer,
\* has another nonce.
Hangs ==
  CheckBlockInfo /\ IF cache \in Transfers THEN ~NonceOk ELSE gen /\ 0 \notin mem

\* revert: FetchAccounts of the two accounts of the block.
Reverted == (mem \ {cache}) \cup (sto \cap {0, cache})

\* ExecuteNow, of a block on which it returns. An airdrop fails before
\* Faucet.Init, touching nothing, and on a used nonce; a transfer, when memory
\* does not hold the generator's account.
Executed ==
  CASE cache \in Transfers -> IF 0 \in mem THEN mem \cup {cache} ELSE Reverted
    [] cache \notin Transfers /\ ~gen -> mem
    [] cache \notin Transfers /\ gen -> IF cache \in mem THEN Reverted ELSE mem \cup {cache}
CheckStateHash(state) == state = 0 .. cache

VerifyBlock ==
  /\ pc = "check" /\ ~Hangs
  /\ mem' = IF CheckBlockInfo THEN Executed ELSE mem
  /\ IF CheckBlockInfo /\ CheckStateHash(Executed)
     THEN pc' = "push" /\ UNCHANGED <<chs, offered>>
     ELSE EndSync
  /\ UNCHANGED <<boot, height, gen, sto, stored, latest, target, current, cache, asks, network, finality, bounds>>

\* PushAccounts of the executed keys.
Push_Late ==   \* mutant: accounts are pushed for all blocks but this one
  /\ pc = "push" /\ pc' = "put"
  /\ sto' = sto \cup (mem \ {cache})
  /\ UNCHANGED <<boot, height, gen, mem, stored, latest, target, current, cache, chs, offered, asks, network, finality, bounds>>
Push ==
  /\ pc = "push" /\ pc' = "put"
  /\ sto' = sto \cup (mem \cap {cache})
  /\ UNCHANGED <<boot, height, gen, mem, stored, latest, target, current, cache, chs, offered, asks, network, finality, bounds>>

Put ==
  /\ pc = "put" /\ pc' = "event"
  /\ stored' = stored \cup {cache} /\ latest' = cache
  /\ UNCHANGED <<boot, height, gen, mem, sto, target, current, cache, chs, offered, asks, network, finality, bounds>>

\* OnBlockStored: the genesis block brings the generator's account to storage
\* and memory; every block increments the counters.
Event_NoFetch ==   \* mutant: the generator's account stays out of memory
  /\ pc = "event" /\ cache' = cache + 1 /\ height' = height + 1
  /\ gen' = (gen \/ cache = 0)
  /\ sto' = IF cache = 0 THEN sto \cup {0} ELSE sto
  /\ IF cache' < current THEN pc' = "wait" /\ UNCHANGED <<chs, offered>>
     ELSE IF current > target THEN EndSync
     ELSE pc' = "batch" /\ UNCHANGED <<chs, offered>>
  /\ UNCHANGED <<boot, mem, stored, latest, target, current, asks, network, finality, bounds>>
Event ==
  /\ pc = "event" /\ cache' = cache + 1 /\ height' = height + 1
  /\ gen' = (gen \/ cache = 0)
  /\ sto' = IF cache = 0 THEN sto \cup {0} ELSE sto
  /\ mem' = IF cache = 0 THEN mem \cup {0} ELSE mem
  /\ IF cache' < current THEN pc' = "wait" /\ UNCHANGED <<chs, offered>>
     ELSE IF current > target THEN EndSync
     ELSE pc' = "batch" /\ UNCHANGED <<chs, offered>>
  /\ UNCHANGED <<boot, stored, latest, target, current, asks, network, finality, bounds>>

SyncStep == NewBatch \/ Timeout \/ Take \/ VerifyBlock \/ Push \/ Put \/ Event

-----------------------------------------------------------------------------
\* A round of the consensus that this node takes part in ends well: a live peer
\* is at its height, or has stored the block already; its memory holds what the
\* block's state hash says. The verdict goes to two goroutines. No round ends
\* before the last one's goroutines have, rounds being seconds apart.
Finalize(p) ==
  /\ boot = "done" /\ pc = "idle" /\ Settled
  /\ height \in 1 .. MaxHeight - 1 /\ mem = 0 .. height - 1
  /\ p \in alive /\ has[p] \in {height, height + 1}
  /\ mem' = mem \cup {height}
  /\ settling' = height /\ storing' = height
  /\ UNCHANGED <<boot, height, gen, sto, stored, latest, counting, goroutine, network, bounds>>

\* Executer.waitForFinality: PushAccounts.
Settle ==
  /\ settling # None /\ settling' = None
  /\ sto' = sto \cup {settling}
  /\ UNCHANGED <<boot, height, gen, mem, stored, latest, storing, counting, goroutine, network, bounds>>

\* SyncService.waitForFinality: Put, then OnBlockStored.
StoreFinal ==
  /\ storing # None /\ storing' = None /\ counting' = storing
  /\ stored' = stored \cup {storing} /\ latest' = storing
  /\ UNCHANGED <<boot, height, gen, mem, sto, settling, goroutine, network, bounds>>
CountFinal ==
  /\ counting # None /\ counting' = None /\ height' = height + 1
  /\ UNCHANGED <<boot, gen, mem, sto, stored, latest, settling, storing, goroutine, network, bounds>>

Verdict == Settle \/ StoreFinal \/ CountFinal

-----------------------------------------------------------------------------
Crash == Up /\ faults + early < MaxFaults /\ faults' = faults + 1 /\ Die

Restart ==
  /\ boot = "down" /\ Fresh
  /\ UNCHANGED <<sto, stored, latest, goroutine, alive, has, wire, finality, bounds>>

\* Hello or welcome of a peer this node does not know: addPeer.
Meet(p) ==
  /\ Up /\ p \in alive \ Known /\ peers' = Append(peers, p)
  /\ UNCHANGED <<node, goroutine, alive, has, wire, finality, bounds>>

\* A peer stores the next block, by finality or by its own sync.
PeerGrows(p) ==
  /\ p \in alive /\ has[p] < MaxHeight
  /\ has' = [has EXCEPT ![p] = @ + 1]
  /\ UNCHANGED <<node, goroutine, peers, alive, wire, finality, bounds>>

PeerCrash(p) ==
  /\ p \in alive /\ faults + early < MaxFaults /\ faults' = faults + 1
  /\ alive' = alive \ {p}
  /\ wire' = [m \in {m \in DOMAIN wire : m.type = "answer" \/ m.peer # p} |-> wire[m]]
  /\ UNCHANGED <<node, goroutine, peers, has, finality, early>>

PeerRestart(p) ==
  /\ p \notin alive /\ alive' = alive \cup {p}
  /\ UNCHANGED <<node, goroutine, peers, has, wire, finality, bounds>>

Next ==
  \/ Boot \/ SyncStep \/ Verdict \/ TimeoutEarly \/ Crash \/ Restart
  \/ \E a \in asks : BlockRequest(a) \/ BlockRequestFails(a)
  \/ \E m \in DOMAIN wire : HandleBlockReq(m) \/ HandleBlockRes(m)
  \/ \E p \in Peers : \/ StartSync(p) \/ Finalize(p) \/ Meet(p) \/ PeerGrows(p)
                      \/ PeerCrash(p) \/ PeerRestart(p)

Spec == Init /\ [][Next]_vars

\* A peer goes on gossiping while it hears of another validator of its own
\* height; alone at its height it stays at tick 2. A lost peer makes the others
\* forget their validators, so that nothing is sure once a process has died.
Gossips(p) == faults = 0 /\ \E q \in Peers \ {p} : has[q] = has[p]

\* Goroutines run, connections deliver, and a peer that is ahead gossips again
\* and again while the code makes it. Peers that are no laggards catch up
\* themselves. Nobody promises that a dead process is started again.
FairSpec ==
  /\ Spec /\ WF_vars(Boot) /\ WF_vars(SyncStep)
  /\ WF_vars(Settle) /\ WF_vars(StoreFinal) /\ WF_vars(CountFinal)
  /\ WF_vars(\E a \in asks : BlockRequest(a) \/ BlockRequestFails(a))
  /\ WF_vars(\E m \in DOMAIN wire : HandleBlockReq(m) \/ HandleBlockRes(m))
  /\ WF_vars(\E p \in Peers : Gossips(p) /\ StartSync(p))
  /\ \A p \in Peers : WF_vars(Meet(p))
  /\ \A p \in Peers \ Laggards : WF_vars(PeerGrows(p))

-----------------------------------------------------------------------------
\* Variables have their types, and the heights of a batch follow each other.
TypeOK ==
  /\ boot \in {"faucet", "counters", "accounts", "done", "down"} /\ gen \in BOOLEAN
  /\ height \in 0 .. MaxHeight /\ mem \cup sto \cup stored \subseteq Heights
  /\ {latest, settling, storing, counting} \subseteq Heights \cup {None}
  /\ pc \in {"idle", "batch", "wait", "check", "push", "put", "event"}
  /\ target \in Heights /\ current \in 0 .. MaxHeight /\ cache \in 0 .. MaxHeight
  /\ offered \subseteq chs /\ chs \subseteq Heights
  /\ asks \subseteq [height : Heights, index : 1 .. Cardinality(Peers)]
  /\ Known \subseteq Peers /\ Len(peers) = Cardinality(Known) /\ alive \subseteq Peers
  /\ has \in [Peers -> 0 .. MaxHeight] /\ faults \in 0 .. MaxFaults /\ early \in 0 .. MaxFaults

\* The blocks in storage are those up to the latest without a gap, and a node
\* that is started and not between Put and OnBlockStored counts exactly them:
\* whatever batches, late answers, timeouts and crashes there were, and whether
\* a block came by sync or by a verdict.
ChainHasNoGap ==
  /\ stored = 0 .. latest
  /\ boot = "done" => height = IF pc = "event" \/ counting # None THEN latest ELSE latest + 1

\* Accounts and block of a height are stored one after the other by sync, in
\* any order by the two goroutines of a verdict: the accounts in storage are
\* those of the latest block, at most one behind or one ahead, and never both.
AccountsFollowChain ==
  /\ 1 .. latest - 1 \subseteq sto /\ sto \subseteq 0 .. latest + 1
  /\ latest > 0 /\ latest + 1 \in sto => latest \in sto

\* A storage that sync cannot recover from: the process died when the verdict
\* had stored a block without its accounts, or when the accounts of a transfer
\* were stored without the block.
Damaged ==
  (latest > 0 /\ latest \notin sto) \/ (latest + 1 \in sto \cap Transfers)

\* A block that an honest peer sends is the next one, and is executed to its
\* state hash exactly when storage is not damaged. So a node that dies between
\* PushAccounts, Put and OnBlockStored of an airdrop accepts it afterwards,
\* although it has executed it before; after a transfer it never does.
HonestBlockIsAccepted ==
  pc = "check" => CheckBlockInfo /\ (Damaged <=> Hangs \/ ~CheckStateHash(Executed))

\* sync returns, unless all peers are gone, when it turns in vain, or it waits
\* for the memory goroutine on a damaged storage: the node stays in the syncing
\* state then.
SyncReturns ==
  pc # "idle" ~> pc = "idle" \/ alive = {} \/ (pc = "check" /\ Damaged /\ Hangs)

\* A node that runs comes to hold every block its peers hold, by retrying on
\* the next gossip after each timeout: as long as no process dies, and also
\* afterwards if the peers still gossip and storage is not damaged.
CatchesUp ==
  [](faults = 0) \/ WF_vars(\E p \in Peers : StartSync(p))
    => <>[](height = MaxHeight \/ ~Up \/ alive = {} \/ Damaged)
=============================================================================
