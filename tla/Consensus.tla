------------------------------ MODULE Consensus ------------------------------
(***************************************************************************)
(* The committee protocol of consensus/: gossip, choice of the committee,  *)
(* proposal, vote, aggregation and finality, together with what the        *)
(* handlers call on the same node: executing a block on the state memory   *)
(* (executers/), storing it (nodes/sync waitForFinality), the counters of  *)
(* blockchain/ and catching up with a peer (nodes/sync sync).              *)
(*                                                                         *)
(* A handler runs to its end before the next one of the same node starts.  *)
(* Messages are lost only with the process that sends or receives them,    *)
(* but each has a goroutine and a connection of its own, so they overtake  *)
(* each other. Lockstep states the timing the code is written for:         *)
(* syncTime aligns the tickers, and a message or a store takes less than   *)
(* one tick.                                                               *)
(***************************************************************************)
EXTENDS Integers, FiniteSets, FiniteSetsExt, Sequences, SequencesExt

CONSTANTS
  Nodes,        \* nodes, numbered in the order of their public keys' hashes
  Txs,          \* transactions; each is an airdrop to an account of its own
  Ordered,      \* messages of one node to another arrive in the order of sending
  Prompt,       \* a verdict is settled and stored before the node's next step
  Lockstep,     \* all tickers fire once per interval, delays are shorter than it
  MaxCrashes,   \* bound: processes that die
  MaxBundle,    \* transactions that fit into a message of MaxPayloadSize
  MaxHeight,    \* bound: blocks that are proposed
  MaxFlight     \* bound: messages a link holds when its sender's ticker fires

ASSUME ConsensusAssumption ==
  /\ Nodes \subseteq Nat /\ IsFiniteSet(Nodes) /\ Nodes # {}
  /\ Ordered \in BOOLEAN /\ Prompt \in BOOLEAN /\ Lockstep \in BOOLEAN
  /\ MaxCrashes \in Nat /\ MaxBundle \in Nat /\ MaxHeight \in Nat /\ MaxFlight \in Nat

None == 0 - 1    \* a nil public key
Nil == [nil |-> TRUE]

VARIABLES
  node,    \* fields of the services of every node, one record per node
  up,      \* nodes whose process runs
  crashes, \* how many processes have died
  net,     \* messages on their way from one node to another
  ticked,  \* nodes whose ticker has fired in the current interval
  aged,    \* nodes whose finality timer was started in an earlier interval
  sent     \* transactions that have reached the mempools

vars == <<node, up, crashes, net, ticked, aged, sent>>

-----------------------------------------------------------------------------
\* Accounts: "absent" from the map, "new" (nonce 0, balance 0) or "paid".
\* An airdrop succeeds on nonce 0; a failed one is reverted to storage.
Fetched(stored) == IF stored = "absent" THEN "new" ELSE stored

Execute(s, txs) ==
  [s EXCEPT !.mem = [t \in Txs |-> IF t \notin txs THEN s.mem[t]
                                   ELSE IF s.mem[t] = "paid" THEN Fetched(s.sto[t])
                                   ELSE "paid"]]
Executed(s, txs) == {t \in txs : s.mem[t] # "paid"}

PushAccounts_Nothing(s, keys) == s   \* mutant: executed keys are lost
PushAccounts(s, keys) ==
  [s EXCEPT !.sto = [t \in Txs |-> IF t \in keys THEN s.mem[t] ELSE s.sto[t]]]
FetchAccounts(s, keys) ==
  [s EXCEPT !.mem = [t \in Txs |-> IF t \in keys THEN Fetched(s.sto[t]) ELSE s.mem[t]]]

\* Block.HashBlock: transactions, previous hash and state hash, not the height.
Hash(b) == [txs |-> b.txs, prev |-> b.prev, state |-> b.state]

\* StorageService.Put, RemoveTxs and OnBlockStored.
Stored_NoIncrement(s, b) ==   \* mutant: the stored event is not delivered
  [s EXCEPT !.chain = [h \in DOMAIN @ \cup {b.height} |-> IF h = b.height THEN b ELSE @[h]],
            !.pool = @ \ b.txs]
Stored_KeepsPrev(s, b) ==   \* mutant: Increment forgets previousBlockHash
  [s EXCEPT !.chain = [h \in DOMAIN @ \cup {b.height} |-> IF h = b.height THEN b ELSE @[h]],
            !.pool = @ \ b.txs, !.height = @ + 1]
Stored(s, b) ==
  [s EXCEPT !.chain = [h \in DOMAIN @ \cup {b.height} |-> IF h = b.height THEN b ELSE @[h]],
            !.pool = @ \ b.txs,
            !.height = @ + 1,
            !.prev = Hash(b)]

CheckBlockInfo(s, b) == b.height = s.height /\ b.prev = s.prev

-----------------------------------------------------------------------------
\* ConsensusService.reset. A timer that is still running loses its channel and
\* becomes an orphan: its timeout() will act on whatever round comes next.
Orphan(s) == IF s.fin = "live" THEN s.orphans + 1 ELSE s.orphans

Reset(s) ==
  [s EXCEPT !.validators = {}, !.producer = None, !.aggregator = None,
            !.fin = "none", !.acct = Nil, !.blk = Nil, !.voted = 0, !.votedOk = 0]

StartTimer(s) == [s EXCEPT !.orphans = Orphan(s), !.fin = "live"]

Waiting(s) == s.fin # "none"
Syncing(s) == s.sync # Nil
Ready(s) == s.producer # None /\ s.aggregator # None
AllPeerReady_Always(s) == TRUE   \* mutant
AllPeerReady(s) == s.unready = {}

\* finalize(ok). Only timeout() receives from finalizeCh: when it has left on
\* the timer ("dead"), or there is no channel, the caller blocks forever.
\* The verdict goes to accountCh and blockCh, whose goroutines act on it later.
Finalize(s, ok) ==
  LET accounts == IF s.acct = Nil THEN {} ELSE {[keys |-> s.acct.keys, ok |-> ok]}
      block == IF s.blk = Nil \/ ~ok THEN {} ELSE {s.blk}
  IN  IF s.fin # "live" THEN s
      ELSE Reset([s EXCEPT !.settling = @ \cup accounts, !.storing = @ \cup block])

\* decideCommittee: roles by index in the sorted committee.
Nth(S, i) == CHOOSE n \in S : Cardinality({m \in S : m < n}) = i

DecideCommittee(s) ==
  LET size == Cardinality(s.validators)
  IN  [s EXCEPT !.producer = Nth(s.validators, s.height % size),
                !.aggregator = Nth(s.validators, ((s.height % size) + 1) % size)]

\* aggregate: the vote is counted, and the last expected one decides.
Count(s, ok) == [s EXCEPT !.voted = @ + 1, !.votedOk = @ + (IF ok THEN 1 ELSE 0)]
Complete_AllVote(s) == s.voted = Cardinality(s.validators)   \* mutant: the producer votes too
Complete(s) == s.voted = Cardinality(s.validators) - 1
Majority(s) ==
  LET size == Cardinality(s.validators)
      modTotal == size + (size % 2)
  IN  s.votedOk > (modTotal \div 2) - 1

-----------------------------------------------------------------------------
\* P2pService.Broadcast: the messages node n sends, in order, to all its peers.
Quiet == [link \in Nodes \X Nodes |-> <<>>]
Broadcast(msgs, n, bodies) ==
  [link \in Nodes \X Nodes |->
     IF link[1] = n /\ link[2] \in node[n].peers THEN msgs[link] \o bodies ELSE msgs[link]]

Gossip_LastHeight(s) ==   \* mutant: the height of the last block
  [type |-> "gossip", syncing |-> Syncing(s), ready |-> Ready(s), height |-> s.height - 1]
Gossip(s) == [type |-> "gossip", syncing |-> Syncing(s), ready |-> Ready(s), height |-> s.height]
Start(s) == [type |-> "start", producer |-> s.producer, aggregator |-> s.aggregator]
Propose(b) == [type |-> "propose", block |-> b]
Vote(ok) == [type |-> "vote", ok |-> ok]
Finality(ok) == [type |-> "finalize", ok |-> ok]

\* Every node knows every other; memory and storage hold the genesis state.
NodeInit(n) ==
  [validators |-> {}, producer |-> None, aggregator |-> None, tick |-> 0,
   fin |-> "none", orphans |-> 0, acct |-> Nil, blk |-> Nil, voted |-> 0, votedOk |-> 0,
   unready |-> {}, bad |-> {}, peers |-> Nodes \ {n},
   mem |-> [t \in Txs |-> "absent"], sto |-> [t \in Txs |-> "absent"], pool |-> {},
   chain |-> <<>>, height |-> 1, prev |-> Nil, settling |-> {}, storing |-> {}, sync |-> Nil]

Init ==
  /\ node = [n \in Nodes |-> NodeInit(n)]
  /\ up = Nodes /\ crashes = 0 /\ net = Quiet /\ ticked = {} /\ aged = {} /\ sent = {}

\* A step of node n: its new record and the messages it sends.
Becomes(n, s, msgs) ==
  /\ node' = [node EXCEPT ![n] = s]
  /\ net' = Broadcast(net, n, msgs)
  /\ aged' = IF s.fin = "live" /\ node[n].fin = "live" THEN aged ELSE aged \ {n}

-----------------------------------------------------------------------------
\* loop: one tick of the ticker.
Settled(s) == s.settling = {} /\ s.storing = {}
Free(n) == n \in up /\ (Prompt => Settled(node[n]))

Tick(n) ==
  /\ Free(n) /\ n \notin ticked
  /\ \A p \in Nodes : Len(net[<<n, p>>]) <= MaxFlight
  /\ ticked' = IF Lockstep THEN ticked \cup {n} ELSE ticked
  /\ UNCHANGED <<up, crashes, sent>>

Advance_NoWrap(s) == [s EXCEPT !.tick = @ + 1]   \* mutant
Advance(s) == [s EXCEPT !.tick = (@ + 1) % 4]

\* `continue` leaves the tick where it is.
Paused(s) ==
  \/ s.peers = {} \/ Waiting(s)
  \/ s.tick = 2 /\ (Syncing(s) \/ s.validators = {})

TickPaused(n) == Tick(n) /\ Paused(node[n]) /\ Becomes(n, node[n], <<>>)

TickGossip(n) ==
  /\ Tick(n) /\ ~Paused(node[n]) /\ node[n].tick < 2
  /\ Becomes(n, Advance(node[n]), <<Gossip(node[n])>>)

TickIdle(n) ==
  /\ Tick(n) /\ ~Paused(node[n]) /\ node[n].tick = 3
  /\ Becomes(n, Advance(node[n]), <<>>)

\* The committee of tick 2, this node added.
Decided(n) == DecideCommittee([node[n] EXCEPT !.validators = @ \cup {n}])
Starts(n) == Ready(Decided(n)) /\ AllPeerReady(node[n])
Proposes(n) == Starts(n) /\ node[n].pool # {} /\ Decided(n).producer = n

TickDecide(n) ==
  /\ Tick(n) /\ ~Paused(node[n]) /\ node[n].tick = 2 /\ ~Proposes(n)
  /\ Becomes(n, Advance(Decided(n)),
             IF Starts(n) THEN <<Start(Decided(n))>> ELSE <<>>)

\* GetTxsForBlock: the largest power of two of the pool, lowest nonces first.
LastPowerOf2(k) == Max({2 ^ i : i \in 0 .. k} \cap 1 .. k)
Bundles(s) == {txs \in SUBSET s.pool : Cardinality(txs) = LastPowerOf2(Cardinality(s.pool))}

\* BlockProducer.NewBlock.
NewBlock(n, s, txs) ==
  [height |-> s.height, by |-> n, txs |-> txs, prev |-> s.prev, state |-> Execute(s, txs).mem]

\* propose: the round's block and the accounts it has touched.
Proposed(s, b, txs) == [Execute(s, txs) EXCEPT !.blk = b, !.acct = [keys |-> Executed(s, txs)]]

TickPropose(n) ==
  /\ Tick(n) /\ ~Paused(node[n]) /\ node[n].tick = 2 /\ Proposes(n)
  /\ node[n].height <= MaxHeight
  /\ \E txs \in Bundles(node[n]) :
       LET s == Decided(n)
           b == NewBlock(n, s, txs)
       IN  Becomes(n, Advance(StartTimer(Proposed(s, b, txs))), <<Start(s), Propose(b)>>)

\* The interval is over: everything sent and stored in it has arrived.
NewInterval ==
  /\ Lockstep /\ ticked = up /\ net = Quiet
  /\ \A n \in up : Settled(node[n]) /\ n \notin aged
  /\ ticked' = {}
  /\ aged' = {n \in up : node[n].fin = "live"}
  /\ UNCHANGED <<node, up, crashes, net, sent>>

-----------------------------------------------------------------------------
\* A message: the link it is on and its place there.
Messages == UNION {{[from |-> link[1], to |-> link[2], place |-> i, body |-> net[link][i]] :
                      i \in IF Ordered THEN 1 .. Min({1, Len(net[link])}) ELSE DOMAIN net[link]} :
                   link \in Nodes \X Nodes}
Taken(m) == [net EXCEPT ![<<m.from, m.to>>] = RemoveAt(@, m.place)]
Arrives(m, type) == Free(m.to) /\ m.body.type = type

\* As Becomes, with m taken off the network.
Handle(m, s, msgs) ==
  /\ node' = [node EXCEPT ![m.to] = s]
  /\ net' = Broadcast(Taken(m), m.to, msgs)
  /\ aged' = IF s.fin = "live" /\ node[m.to].fin = "live" THEN aged ELSE aged \ {m.to}
  /\ UNCHANGED <<up, crashes, ticked, sent>>

AddBad(s, n) == [s EXCEPT !.bad = @ \cup {n}]

Ignores_NotWaiting(s, p, g) == Syncing(s) \/ g.syncing \/ p \in s.bad   \* mutant
Ignores(s, p, g) == Waiting(s) \/ Syncing(s) \/ g.syncing \/ p \in s.bad

\* What node s makes of p's height.
Heard(s, p, g) ==
  CASE g.height > s.height -> [s EXCEPT !.sync = [next |-> s.height, target |-> g.height - 1]]
    [] g.height < s.height -> [s EXCEPT !.validators = @ \ {p}]
    [] g.height = s.height ->
         [s EXCEPT !.validators = @ \cup {p},
                   !.unready = IF g.ready THEN @ \ {p} ELSE @ \cup {p}]

HandleGossip(m) ==
  LET s == node[m.to]
      g == m.body
  IN /\ Arrives(m, "gossip")
     /\ \/ Ignores(s, m.from, g) /\ Handle(m, s, <<>>)
        \/ ~Ignores(s, m.from, g) /\ Handle(m, Heard(s, m.from, g), <<>>)

HandleStart(m) ==
  LET s == node[m.to]
  IN /\ Arrives(m, "start")
     /\ Handle(m, IF m.body.producer = s.producer /\ m.body.aggregator = s.aggregator
                  THEN s ELSE AddBad(s, m.from), <<>>)

\* aggregate on the aggregator n, with its verdict broadcast and applied.
Aggregate(m, n, s, ok) ==
  LET c == Count(s, ok)
  IN  IF Complete(c) THEN Handle(m, Finalize(c, Majority(c)), <<Finality(Majority(c))>>)
                     ELSE Handle(m, c, <<>>)

\* BlockProducer.Verify: a block that does not follow the chain is not executed.
Verified(s, b) ==
  IF CheckBlockInfo(s, b)
  THEN [Execute(s, b.txs) EXCEPT !.acct = [keys |-> Executed(s, b.txs)]]
  ELSE [s EXCEPT !.acct = Nil]
VoteOf(s, b) == CheckBlockInfo(s, b) /\ Execute(s, b.txs).mem = b.state

Judged(s, b) == [Verified(s, b) EXCEPT !.blk = IF VoteOf(s, b) THEN b ELSE @]

HandlePropose(m) ==
  LET n == m.to
      s == node[n]
      b == m.body.block
      ok == VoteOf(s, b)
      v == StartTimer(Judged(s, b))
  IN /\ Arrives(m, "propose")
     /\ \/ /\ Cardinality(b.txs) > MaxBundle       \* handleInbound skips it
           /\ Handle(m, s, <<>>)
        \/ /\ Cardinality(b.txs) <= MaxBundle /\ m.from # s.producer
           /\ Handle(m, AddBad(s, m.from), <<>>)
        \/ /\ Cardinality(b.txs) <= MaxBundle /\ m.from = s.producer
           /\ IF s.aggregator = n THEN Aggregate(m, n, v, ok)
              ELSE Handle(m, IF ok THEN v ELSE AddBad(v, s.producer), <<Vote(ok)>>)

HandleVote(m) ==
  LET s == node[m.to]
  IN /\ Arrives(m, "vote")
     /\ IF s.aggregator = m.to /\ m.from \in s.validators
        THEN Aggregate(m, m.to, s, m.body.ok)
        ELSE Handle(m, s, <<>>)

HandleFinalize(m) ==
  LET s == node[m.to]
  IN /\ Arrives(m, "finalize")
     /\ Handle(m, IF m.from = s.aggregator THEN Finalize(s, m.body.ok) ELSE AddBad(s, m.from),
               <<>>)

-----------------------------------------------------------------------------
\* timeout(): finalize(false) on the channel that only it receives from.
TimerFire(n) ==
  /\ n \in up /\ node[n].fin = "live" /\ (Lockstep => n \in aged /\ n \in ticked)
  /\ node' = [node EXCEPT ![n].fin = "dead"]
  /\ aged' = aged \ {n}
  /\ UNCHANGED <<up, crashes, net, ticked, sent>>

\* The timer of an abandoned round rejects the round that runs now.
OrphanFire(n) ==
  /\ n \in up /\ node[n].orphans > 0
  /\ node' = [node EXCEPT ![n] = [Finalize(node[n], FALSE) EXCEPT !.orphans = @ - 1]]
  /\ aged' = aged \ {n}
  /\ UNCHANGED <<up, crashes, net, ticked, sent>>

\* Executer.waitForFinality, in its own goroutine.
Settle(n) ==
  /\ n \in up
  /\ \E v \in node[n].settling :
       node' = [node EXCEPT ![n] =
                  [(IF v.ok THEN PushAccounts(node[n], v.keys) ELSE FetchAccounts(node[n], v.keys))
                     EXCEPT !.settling = @ \ {v}]]
  /\ UNCHANGED <<up, crashes, net, ticked, aged, sent>>

\* SyncService.waitForFinality, in its own goroutine.
Store(n) ==
  /\ n \in up
  /\ \E b \in node[n].storing :
       node' = [node EXCEPT ![n] = [Stored(node[n], b) EXCEPT !.storing = @ \ {b}]]
  /\ UNCHANGED <<up, crashes, net, ticked, aged, sent>>

-----------------------------------------------------------------------------
EndSync(s) == [s EXCEPT !.sync = Nil]

\* sync: the answer to the request for block sync.next. The transactions stay
\* in the mempool.
Synced(s, b) ==
  LET e == Execute(s, b.txs)
      k == Stored(PushAccounts(e, Executed(s, b.txs)), b)
  IN  IF ~CheckBlockInfo(s, b) THEN EndSync(s)
      ELSE IF e.mem # b.state THEN EndSync(e)
      ELSE [k EXCEPT !.sync = IF s.sync.next = s.sync.target THEN Nil
                              ELSE [s.sync EXCEPT !.next = @ + 1],
                     !.pool = s.pool]

\* handleBlockReq of peer p.
Answers(n, p) ==
  /\ p \in node[n].peers \cap up
  /\ node[n].sync.next < node[p].height /\ node[n].sync.next \in DOMAIN node[p].chain

SyncBlock(n) ==
  /\ n \in up /\ Syncing(node[n])
  /\ \E p \in Nodes :
       /\ Answers(n, p)
       /\ node' = [node EXCEPT ![n] = Synced(@, node[p].chain[node[n].sync.next])]
  /\ UNCHANGED <<up, crashes, net, ticked, aged, sent>>

\* The peer that the block was requested from does not answer in time. Without
\* a peer there is no request and no timer: sync spins.
SyncTimeout(n) ==
  /\ n \in up /\ Syncing(node[n])
  /\ \E p \in node[n].peers : Lockstep => ~Answers(n, p)
  /\ node' = [node EXCEPT ![n] = EndSync(@)]
  /\ UNCHANGED <<up, crashes, net, ticked, aged, sent>>

-----------------------------------------------------------------------------
\* A client's transaction reaches every mempool.
NewTx(t) ==
  /\ t \notin sent /\ sent' = sent \cup {t}
  /\ Lockstep => ticked = {}
  /\ node' = [n \in Nodes |-> [node[n] EXCEPT !.pool = @ \cup {t}]]
  /\ UNCHANGED <<up, crashes, net, ticked, aged>>

Crash(n) ==
  /\ n \in up /\ crashes < MaxCrashes
  /\ crashes' = crashes + 1
  /\ up' = up \ {n} /\ ticked' = ticked \ {n} /\ aged' = aged \ {n}
  /\ UNCHANGED <<node, net, sent>>

\* A process that starts on the storage of a dead one: Blockchain.Init from the
\* latest block, FetchAllAccounts, and hello and welcome with the running nodes.
Restarted_FromGenesis(n) ==   \* mutant: Blockchain.Init is not called
  LET s == node[n]
  IN  [NodeInit(n) EXCEPT !.chain = s.chain, !.sto = s.sto, !.mem = s.sto, !.peers = up \ {n}]
Restarted(n) ==
  LET s == node[n]
      height == 1 + Cardinality(DOMAIN s.chain)
  IN  [NodeInit(n) EXCEPT
         !.chain = s.chain, !.sto = s.sto, !.mem = s.sto, !.peers = up \ {n}, !.height = height,
         !.prev = IF height = 1 THEN Nil ELSE Hash(s.chain[height - 1])]

Restart(n) ==
  /\ n \notin up /\ (Lockstep => ticked = {})
  /\ up' = up \cup {n}
  /\ node' = [p \in Nodes |-> IF p = n THEN Restarted(n)
                             ELSE IF p \in up THEN [node[p] EXCEPT !.peers = @ \cup {n}]
                             ELSE node[p]]
  /\ UNCHANGED <<crashes, net, ticked, aged, sent>>

\* Transporter.send fails to dial: onPeerDisapear, then removePeer.
DialFail(m) ==
  /\ m.from \in up /\ m.to \notin up
  /\ net' = Taken(m)
  /\ node' = [node EXCEPT ![m.from] =
                [Reset(node[m.from]) EXCEPT !.orphans = Orphan(node[m.from]),
                                            !.unready = @ \ {m.to}, !.peers = @ \ {m.to}]]
  /\ aged' = aged \ {m.from}
  /\ UNCHANGED <<up, crashes, ticked, sent>>

\* The goroutine that sends m dies with its process. What was already on the
\* wire may still arrive.
Lose(m) ==
  /\ m.from \notin up
  /\ net' = Taken(m)
  /\ UNCHANGED <<node, up, crashes, ticked, aged, sent>>

Deliver(m) ==
  \/ HandleGossip(m) \/ HandleStart(m) \/ HandlePropose(m) \/ HandleVote(m)
  \/ HandleFinalize(m) \/ DialFail(m) \/ Lose(m)

Ticks(n) ==
  \/ TickPaused(n) \/ TickGossip(n) \/ TickIdle(n) \/ TickDecide(n) \/ TickPropose(n)

Next ==
  \/ \E n \in Nodes : \/ Ticks(n) \/ TimerFire(n) \/ OrphanFire(n) \/ Settle(n) \/ Store(n)
                      \/ SyncBlock(n) \/ SyncTimeout(n) \/ Crash(n) \/ Restart(n)
  \/ \E m \in Messages : Deliver(m)
  \/ \E t \in Txs : NewTx(t)
  \/ NewInterval

Spec == Init /\ [][Next]_vars

\* Tickers, goroutines and connections all make progress. A transaction and a
\* crash are up to the environment.
FairSpec ==
  /\ Spec
  /\ \A n \in Nodes : /\ WF_vars(Ticks(n)) /\ WF_vars(Settle(n)) /\ WF_vars(Store(n)) /\ WF_vars(TimerFire(n))
                      /\ WF_vars(OrphanFire(n)) /\ WF_vars(SyncBlock(n)) /\ WF_vars(SyncTimeout(n))
  /\ WF_vars(\E m \in Messages : Deliver(m))
  /\ WF_vars(NewInterval)

-----------------------------------------------------------------------------
\* Fields have their types, and the roles are set and cleared together.
TypeOK ==
  /\ \A n \in Nodes :
       LET s == node[n]
       IN  /\ s.validators \cup s.unready \cup s.bad \cup s.peers \subseteq Nodes
           /\ s.producer \in Nodes \cup {None} /\ s.aggregator \in Nodes \cup {None}
           /\ (s.producer = None) = (s.aggregator = None)
           /\ s.tick \in 0 .. 3 /\ s.fin \in {"none", "live", "dead"}
           /\ s.orphans \in Nat /\ s.voted \in Nat /\ s.votedOk \in 0 .. s.voted
           /\ s.mem \in [Txs -> {"absent", "new", "paid"}]
           /\ s.sto \in [Txs -> {"absent", "new", "paid"}]
           /\ s.pool \subseteq Txs /\ s.height \in Nat
  /\ up \subseteq Nodes /\ ticked \subseteq up /\ aged \subseteq up /\ sent \subseteq Txs

\* Two nodes, one of which may be down, never hold different blocks at the
\* same height: what aggregate() made final on one node is what the others
\* stored or fetched by sync().
Agreement ==
  \A n, p \in Nodes : \A h \in DOMAIN node[n].chain \cap DOMAIN node[p].chain :
    Hash(node[n].chain[h]) = Hash(node[p].chain[h])

\* The stored blocks are exactly those below NextHeight, each on top of the
\* one before it, and PreviousBlockHash is the hash of the last: finality
\* (waitForFinality) and sync() never count or link a block twice.
ChainIsLinked ==
  \A n \in Nodes :
    LET s == node[n]
        below(h) == IF h = 1 THEN Nil ELSE Hash(s.chain[h - 1])
    IN  /\ DOMAIN s.chain = 1 .. (s.height - 1)
        /\ \A h \in DOMAIN s.chain : s.chain[h].height = h /\ s.chain[h].prev = below(h)
        /\ s.prev = below(s.height)

\* A node that catches up with a peer is in no round: StartSync and
\* handlePropose do not look at each other's state, so only the order in which
\* gossip, proposal and verdict arrive keeps them from storing the same height.
SyncExcludesRound ==
  \A n \in Nodes : Syncing(node[n]) => ~Waiting(node[n]) /\ Settled(node[n])

\* Hashes of the blocks in a node's storage, and those of the longest chain.
HashesOf(n) == [h \in DOMAIN node[n].chain |-> Hash(node[n].chain[h])]
Longest == CHOOSE n \in Nodes : \A p \in Nodes :
             Cardinality(DOMAIN node[p].chain) <= Cardinality(DOMAIN node[n].chain)

OneLedger == INSTANCE Ledger WITH
  ledger <- HashesOf(Longest), copy <- [n \in Nodes |-> HashesOf(n)], Nothing <- Nil

\* The committee protocol and sync implement one ledger: no step of any node
\* replaces a stored block, skips one, stores two, or stores one that the
\* others have not made final.
ImplementsLedger == OneLedger!Spec

\* The accounts in storage are those of the last stored block's state hash,
\* although accounts and blocks are stored by different goroutines on
\* different channels (accountCh, blockCh).
StorageMatchesTip ==
  \A n \in Nodes :
    LET s == node[n]
    IN  Settled(s) /\ DOMAIN s.chain # {} =>
          \A t \in Txs : s.sto[t] = "paid" <=> s.chain[Max(DOMAIN s.chain)].state[t] = "paid"

\* A node that waits for no verdict has no executed but unsettled block in
\* its state memory, so its next state hash starts from the stored state.
IdleMemoryIsStored ==
  \A n \in Nodes :
    ~Waiting(node[n]) /\ Settled(node[n]) => \A t \in Txs : node[n].mem[t] = "paid" <=> node[n].sto[t] = "paid"

\* No node that follows the protocol is put on a peer's bad list, which no
\* code ever takes it off again (addToBadPeer).
HonestPeersStayGood == \A n \in Nodes : node[n].bad = {}

\* "need to wait all peers are ready" (loop): a block is proposed only when
\* every peer has its committee.
AllPeersReady ==
  [][\A n \in Nodes : TickPropose(n) => \A p \in node[n].peers : Ready(node[p])]_vars

\* "this is from new node" (handleGossip): among nodes that have all been
\* there from the start, nobody hears gossip from a lower height.
OnlyNewNodesAreBehind ==
  [][\A m \in Messages :
       HandleGossip(m) /\ ~Waiting(node[m.to]) => m.body.height >= node[m.to].height]_vars

\* "timeout, reject block..." (timeout): a round whose timer has fired comes
\* to an end.
TimeoutRejects == \A n \in Nodes : node[n].fin = "dead" ~> node[n].fin = "none"

\* Every transaction that reaches the mempools is eventually part of a block
\* that every node has stored.
TxsBecomeFinal == \A t \in Txs : t \in sent ~> \A n \in Nodes : node[n].sto[t] = "paid"
=============================================================================
