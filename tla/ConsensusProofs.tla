--------------------------- MODULE ConsensusProofs ---------------------------
(***************************************************************************)
(* Theorems about the committee protocol, for any nodes, transactions,     *)
(* bounds and number of crashes: types, linked chains, and the one ledger, *)
(* which the nodes implement exactly when no two of them hold different    *)
(* blocks at one height.                                                   *)
(***************************************************************************)
EXTENDS Consensus, TLAPS, FiniteSetTheorems, SequenceTheorems, WellFoundedInduction

\* decideCommittee finds a node at every index below the committee's size:
\* the rank of a member among its committee is one to one.
LEMMA NthExists ==
  ASSUME NEW S \in SUBSET Nat, IsFiniteSet(S), NEW i \in 0 .. Cardinality(S) - 1
  PROVE  Nth(S, i) \in S /\ Cardinality({m \in S : m < Nth(S, i)}) = i
<1> DEFINE below(n) == {x \in S : x < n}
           rank == [n \in S |-> Cardinality(below(n))]
           Ranks == 0 .. Cardinality(S) - 1
<1>1. Cardinality(S) \in Nat
  BY FS_CardinalityType
<1>2. ASSUME NEW n \in S PROVE IsFiniteSet(below(n)) /\ Cardinality(below(n)) \in Nat
  BY FS_Subset, FS_CardinalityType
<1>3. ASSUME NEW n \in S, NEW m \in S, m < n
      PROVE  Cardinality(below(m)) < Cardinality(below(n))
  <2>1. m \in Nat /\ n \in Nat /\ \A x \in S : x \in Nat
    OBVIOUS
  <2>2. below(m) \subseteq below(n)
    <3>1. \A x \in S : x < m => x < n
      BY <1>3, <2>1
    <3> QED
      BY <3>1
  <2>3. m \in below(n)
    BY <1>3
  <2>4. m \notin below(m)
    BY <2>1
  <2>5. /\ Cardinality(below(m)) <= Cardinality(below(n))
        /\ Cardinality(below(n)) = Cardinality(below(m)) => below(n) = below(m)
    BY <1>2, <2>2, FS_Subset
  <2> QED
    BY <1>2, <2>3, <2>4, <2>5
<1>4. ASSUME NEW n \in S PROVE Cardinality(below(n)) < Cardinality(S)
  <2>1. below(n) \in SUBSET S /\ n \in S /\ n \notin below(n)
    OBVIOUS
  <2>2. /\ Cardinality(below(n)) <= Cardinality(S)
        /\ Cardinality(S) = Cardinality(below(n)) => S = below(n)
    BY <2>1, FS_Subset
  <2> QED
    BY <1>1, <1>2, <2>1, <2>2
<1> HIDE DEF below
<1>5. rank \in [S -> Ranks]
  BY <1>1, <1>2, <1>4
<1>6. ASSUME NEW m \in S, NEW n \in S, rank[m] = rank[n] PROVE m = n
  <2>1. m < n \/ n < m \/ m = n
    OBVIOUS
  <2> QED
    BY <1>2, <1>3, <1>6, <2>1
<1>7. rank \in Injection(S, Ranks)
  BY <1>5, <1>6 DEF Injection, IsInjective
<1>8. IsFiniteSet(Ranks) /\ Cardinality(Ranks) = Cardinality(S)
  BY <1>1, FS_Interval
<1>9. rank \in Surjection(S, Ranks)
  BY <1>7, <1>8, FS_Injection
<1>10. \E n \in S : rank[n] = i
  BY <1>9 DEF Surjection
<1>11. \E n \in S : Cardinality({m \in S : m < n}) = i
  BY <1>10 DEF below
<1> QED
  BY <1>11 DEF Nth
-----------------------------------------------------------------------------
\* The fields of a node's record, and their types.
Fields ==
  {"validators", "producer", "aggregator", "tick", "fin", "orphans", "acct", "blk", "voted",
   "votedOk", "unready", "bad", "peers", "mem", "sto", "pool", "chain", "height", "prev",
   "settling", "storing", "sync"}
Balances == [Txs -> {"absent", "new", "paid"}]

NodeTyped(s) ==
  /\ Fields \subseteq DOMAIN s
  /\ s.validators \subseteq Nodes /\ s.unready \subseteq Nodes /\ s.bad \subseteq Nodes
  /\ s.peers \subseteq Nodes /\ s.pool \subseteq Txs
  /\ \/ s.producer = None /\ s.aggregator = None
     \/ s.producer \in Nodes /\ s.aggregator \in Nodes
  /\ s.tick \in 0 .. 3 /\ s.fin \in {"none", "live", "dead"}
  /\ s.orphans \in Nat /\ s.voted \in Nat /\ s.votedOk \in 0 .. s.voted /\ s.height \in Nat
  /\ s.mem \in Balances /\ s.sto \in Balances

\* None is no node.
LEMMA NoneIsNoNode == None \notin Nodes
BY ConsensusAssumption DEF None

\* The services' operations on a node keep its types.
LEMMA ExecuteTyped ==
  ASSUME NEW s, NodeTyped(s), NEW txs
  PROVE  NodeTyped(Execute(s, txs)) /\ Execute(s, txs).mem \in Balances
<1> DEFINE mem == [t \in Txs |-> IF t \notin txs THEN s.mem[t]
                                ELSE IF s.mem[t] = "paid" THEN Fetched(s.sto[t]) ELSE "paid"]
<1>1. mem \in Balances
  BY DEF NodeTyped, Balances, Fetched
<1>2. Execute(s, txs) = [s EXCEPT !.mem = mem]
  BY DEF Execute
<1> HIDE DEF mem
<1> QED
  BY <1>1, <1>2 DEF NodeTyped, Fields

\* Pushing accounts to storage keeps the types.
LEMMA PushTyped == ASSUME NEW s, NodeTyped(s), NEW keys PROVE NodeTyped(PushAccounts(s, keys))
<1> DEFINE sto == [t \in Txs |-> IF t \in keys THEN s.mem[t] ELSE s.sto[t]]
<1>1. sto \in Balances
  BY DEF NodeTyped, Balances
<1>2. PushAccounts(s, keys) = [s EXCEPT !.sto = sto]
  BY DEF PushAccounts
<1> HIDE DEF sto
<1> QED
  BY <1>1, <1>2 DEF NodeTyped, Fields

\* Fetching accounts from storage keeps the types.
LEMMA FetchTyped == ASSUME NEW s, NodeTyped(s), NEW keys PROVE NodeTyped(FetchAccounts(s, keys))
<1> DEFINE mem == [t \in Txs |-> IF t \in keys THEN Fetched(s.sto[t]) ELSE s.mem[t]]
<1>1. mem \in Balances
  BY DEF NodeTyped, Balances, Fetched
<1>2. FetchAccounts(s, keys) = [s EXCEPT !.mem = mem]
  BY DEF FetchAccounts
<1> HIDE DEF mem
<1> QED
  BY <1>1, <1>2 DEF NodeTyped, Fields

\* Storing a block, of whatever origin, keeps the types.
LEMMA StoredTyped == ASSUME NEW s, NodeTyped(s), NEW b PROVE NodeTyped(Stored(s, b))
BY DEF Stored, NodeTyped, Fields

\* reset keeps the types.
LEMMA ResetTyped == ASSUME NEW s, NodeTyped(s) PROVE NodeTyped(Reset(s))
BY DEF Reset, NodeTyped, Fields

\* A new finality channel keeps the types.
LEMMA StartTimerTyped == ASSUME NEW s, NodeTyped(s) PROVE NodeTyped(StartTimer(s))
BY DEF StartTimer, Orphan, NodeTyped, Fields

\* finalize hands the verdict to the goroutines that wait for it.
LEMMA FinalizeTyped ==
  ASSUME NEW s, NodeTyped(s), NEW ok
  PROVE  NodeTyped(Finalize(s, ok)) /\ Finalize(s, ok).chain = s.chain
<1> DEFINE accounts == IF s.acct = Nil THEN {} ELSE {[keys |-> s.acct.keys, ok |-> ok]}
           block == IF s.blk = Nil \/ ~ok THEN {} ELSE {s.blk}
           t == [s EXCEPT !.settling = @ \cup accounts, !.storing = @ \cup block]
<1>1. Finalize(s, ok) = IF s.fin # "live" THEN s ELSE Reset(t)
  BY DEF Finalize
<1> HIDE DEF accounts, block
<1>2. NodeTyped(t) /\ t.chain = s.chain
  BY DEF NodeTyped, Fields
<1> HIDE DEF t
<1>3. NodeTyped(Reset(t)) /\ Reset(t).chain = t.chain
  BY <1>2, ResetTyped DEF NodeTyped, Fields, Reset
<1> QED
  BY <1>1, <1>2, <1>3

\* decideCommittee names nodes, since there are some to choose from.
LEMMA DecideTyped ==
  ASSUME NEW s, NodeTyped(s), s.validators # {} PROVE NodeTyped(DecideCommittee(s))
<1> DEFINE size == Cardinality(s.validators)
           i == s.height % size
           j == ((s.height % size) + 1) % size
<1>1. IsFiniteSet(s.validators) /\ s.validators \subseteq Nat /\ s.validators \subseteq Nodes
  BY FS_Subset, ConsensusAssumption DEF NodeTyped
<1>2. size \in Nat \ {0}
  BY <1>1, FS_CardinalityType, FS_EmptySet
<1>3. s.height \in Nat
  BY DEF NodeTyped
<1> HIDE DEF size
<1>4. i \in 0 .. size - 1
  BY <1>2, <1>3
<1>5. j \in 0 .. size - 1
  BY <1>2, <1>4
<1> HIDE DEF i, j
<1>6. Nth(s.validators, i) \in Nodes /\ Nth(s.validators, j) \in Nodes
  BY <1>1, <1>4, <1>5, NthExists DEF size
<1>7. DecideCommittee(s) = [s EXCEPT !.producer = Nth(s.validators, i), !.aggregator = Nth(s.validators, j)]
  BY DEF DecideCommittee, size, i, j
<1> QED
  BY <1>6, <1>7 DEF NodeTyped, Fields

\* Counting a vote keeps the types.
LEMMA CountTyped == ASSUME NEW s, NodeTyped(s), NEW ok PROVE NodeTyped(Count(s, ok))
BY DEF Count, NodeTyped, Fields

\* The tick counter stays below four.
LEMMA AdvanceTyped == ASSUME NEW s, NodeTyped(s) PROVE NodeTyped(Advance(s))
BY DEF Advance, NodeTyped, Fields

\* A bad peer is a node.
LEMMA AddBadTyped == ASSUME NEW s, NodeTyped(s), NEW n \in Nodes PROVE NodeTyped(AddBad(s, n))
BY DEF AddBad, NodeTyped, Fields

\* A node starts well typed.
LEMMA NodeInitTyped == ASSUME NEW n \in Nodes PROVE NodeTyped(NodeInit(n))
<1>1. [t \in Txs |-> "absent"] \in Balances
  BY DEF Balances
<1> QED
  BY <1>1 DEF NodeInit, NodeTyped, Fields
\* A node starts again well typed, from its storage.
LEMMA RestartedTyped ==
  ASSUME NEW n \in Nodes, NodeTyped(node[n]), up \subseteq Nodes, IsFiniteSet(DOMAIN node[n].chain)
  PROVE  NodeTyped(Restarted(n))
<1> DEFINE s == node[n]
           height == 1 + Cardinality(DOMAIN s.chain)
           prev == IF height = 1 THEN Nil ELSE Hash(s.chain[height - 1])
<1>1. NodeTyped(NodeInit(n))
  BY NodeInitTyped
<1>2. height \in Nat
  BY FS_CardinalityType
<1>3. s.sto \in Balances
  BY DEF NodeTyped
<1>4. Restarted(n) = [NodeInit(n) EXCEPT !.chain = s.chain, !.sto = s.sto, !.mem = s.sto,
                        !.peers = up \ {n}, !.height = height, !.prev = prev]
  BY DEF Restarted
<1> HIDE DEF height, prev, s
<1> QED
  BY <1>1, <1>2, <1>3, <1>4 DEF NodeTyped, Fields

\* The end of sync keeps the types.
LEMMA EndSyncTyped == ASSUME NEW s, NodeTyped(s) PROVE NodeTyped(EndSync(s))
BY DEF EndSync, NodeTyped, Fields

\* A block from a peer, accepted or not, keeps the types.
LEMMA SyncedTyped == ASSUME NEW s, NodeTyped(s), NEW b PROVE NodeTyped(Synced(s, b))
<1> DEFINE e == Execute(s, b.txs)
           k == Stored(PushAccounts(e, Executed(s, b.txs)), b)
           next == IF s.sync.next = s.sync.target THEN Nil ELSE [s.sync EXCEPT !.next = @ + 1]
<1>1. NodeTyped(e) /\ NodeTyped(k)
  BY ExecuteTyped, PushTyped, StoredTyped
<1>2. Synced(s, b) = IF ~CheckBlockInfo(s, b) THEN EndSync(s)
                     ELSE IF e.mem # b.state THEN EndSync(e)
                     ELSE [k EXCEPT !.sync = next, !.pool = s.pool]
  BY DEF Synced
<1> HIDE DEF e, k, next
<1>3. NodeTyped([k EXCEPT !.sync = next, !.pool = s.pool])
  BY <1>1 DEF NodeTyped, Fields
<1> QED
  BY <1>1, <1>2, <1>3, EndSyncTyped

\* Verify keeps the types, whatever the vote.
LEMMA VerifiedTyped == ASSUME NEW s, NodeTyped(s), NEW b PROVE NodeTyped(Verified(s, b))
<1> DEFINE e == Execute(s, b.txs)
           keys == [keys |-> Executed(s, b.txs)]
<1>1. NodeTyped(e)
  BY ExecuteTyped
<1>2. Verified(s, b) = IF CheckBlockInfo(s, b) THEN [e EXCEPT !.acct = keys] ELSE [s EXCEPT !.acct = Nil]
  BY DEF Verified
<1> HIDE DEF e, keys
<1>3. NodeTyped([e EXCEPT !.acct = keys]) /\ NodeTyped([s EXCEPT !.acct = Nil])
  BY <1>1 DEF NodeTyped, Fields
<1> QED
  BY <1>2, <1>3

-----------------------------------------------------------------------------
\* t has the chain, the counters and the round of s.
Keeps(s, t) ==
  /\ t.chain = s.chain /\ t.height = s.height /\ t.prev = s.prev
  /\ t.blk = s.blk /\ t.storing = s.storing /\ t.fin = s.fin

\* The operations that leave chain and round alone.
LEMMA OperationsKeep ==
  ASSUME NEW s, NodeTyped(s)
  PROVE  /\ \A txs : Keeps(s, Execute(s, txs)) /\ Keeps(s, PushAccounts(s, txs))
                     /\ Keeps(s, FetchAccounts(s, txs))
         /\ Keeps(s, DecideCommittee(s)) /\ Keeps(s, Advance(s)) /\ Keeps(s, EndSync(s))
         /\ \A x : Keeps(s, Count(s, x)) /\ Keeps(s, AddBad(s, x)) /\ Keeps(s, Verified(s, x))
<1>1. ASSUME NEW txs
      PROVE  /\ Keeps(s, Execute(s, txs)) /\ Keeps(s, PushAccounts(s, txs))
             /\ Keeps(s, FetchAccounts(s, txs))
  BY DEF NodeTyped, Fields, Keeps, Execute, PushAccounts, FetchAccounts
<1>2. Keeps(s, DecideCommittee(s)) /\ Keeps(s, Advance(s)) /\ Keeps(s, EndSync(s))
  BY DEF NodeTyped, Fields, Keeps, DecideCommittee, Advance, EndSync
<1>3. ASSUME NEW x PROVE Keeps(s, Count(s, x)) /\ Keeps(s, AddBad(s, x))
  BY DEF NodeTyped, Fields, Keeps, Count, AddBad
<1>4. ASSUME NEW b PROVE Keeps(s, Verified(s, b))
  <2> DEFINE e == Execute(s, b.txs)
             keys == [keys |-> Executed(s, b.txs)]
  <2>1. NodeTyped(e) /\ Keeps(s, e)
    BY <1>1, ExecuteTyped
  <2>2. Verified(s, b) = IF CheckBlockInfo(s, b) THEN [e EXCEPT !.acct = keys]
                         ELSE [s EXCEPT !.acct = Nil]
    BY DEF Verified
  <2> HIDE DEF e, keys
  <2>3. Keeps(s, [e EXCEPT !.acct = keys]) /\ Keeps(s, [s EXCEPT !.acct = Nil])
    BY <2>1 DEF NodeTyped, Fields, Keeps
  <2> QED
    BY <2>2, <2>3
<1> QED
  BY <1>1, <1>2, <1>3, <1>4

-----------------------------------------------------------------------------
\* The type invariant: every node's record, and the sets of nodes.
ChainsFinite == \A n \in Nodes : IsFiniteSet(DOMAIN node[n].chain)
NodesTyped == DOMAIN node = Nodes /\ \A n \in Nodes : NodeTyped(node[n])
SetsTyped ==
  up \subseteq Nodes /\ ticked \subseteq up /\ aged \subseteq up /\ sent \subseteq Txs
\* A queue of messages in which every gossip carries a height.
BodyOK(b) == b.type = "gossip" => b.height \in Nat
Bodied(q) == \E S : q \in Seq(S) /\ \A b \in S : BodyOK(b)
NetTyped ==
  DOMAIN net = Nodes \X Nodes /\ \A link \in Nodes \X Nodes : Bodied(net[link])
Typed == NodesTyped /\ SetsTyped /\ ChainsFinite /\ NetTyped

\* Queues of messages with a body: appending.
LEMMA BodiedAppend == ASSUME NEW q, Bodied(q), NEW r, Bodied(r) PROVE Bodied(q \o r)
<1>1. PICK S : q \in Seq(S) /\ \A b \in S : BodyOK(b)
  BY DEF Bodied
<1>2. PICK T : r \in Seq(T) /\ \A b \in T : BodyOK(b)
  BY DEF Bodied
<1> DEFINE U == S \cup T
<1>3. \A b \in U : BodyOK(b)
  BY <1>1, <1>2
<1>4. q \in Seq(U) /\ r \in Seq(U)
  BY <1>1, <1>2
<1> HIDE DEF U
<1>5. q \o r \in Seq(U)
  BY <1>4
<1> QED
  BY <1>3, <1>5 DEF Bodied

\* Taking a message out of a queue.
LEMMA BodiedRemove ==
  ASSUME NEW q, Bodied(q), NEW i \in DOMAIN q PROVE Bodied(RemoveAt(q, i)) /\ BodyOK(q[i])
<1>1. PICK S : q \in Seq(S) /\ \A b \in S : BodyOK(b)
  BY DEF Bodied
<1>2. i \in 1 .. Len(q) /\ Len(q) \in Nat /\ q[i] \in S
  BY <1>1
<1>3. SubSeq(q, 1, i - 1) \in Seq(S) /\ SubSeq(q, i + 1, Len(q)) \in Seq(S)
  BY <1>1, <1>2
<1>4. RemoveAt(q, i) \in Seq(S)
  BY <1>3 DEF RemoveAt
<1> QED
  BY <1>1, <1>2, <1>4 DEF Bodied

\* A queue of messages has a body at each place.
LEMMA BodiedBy ==
  ASSUME NEW S, NEW q, q \in Seq(S), \A b \in S : BodyOK(b) PROVE Bodied(q)
BY DEF Bodied

\* What the nodes send.
LEMMA BodiesSent ==
  /\ Bodied(<<>>)
  /\ \A s : s.height \in Nat => Bodied(<<Gossip(s)>>)
  /\ \A s, b : Bodied(<<Start(s)>>) /\ Bodied(<<Start(s), Propose(b)>>)
  /\ \A ok : Bodied(<<Vote(ok)>>) /\ Bodied(<<Finality(ok)>>)
<1>1. Bodied(<<>>)
  <2> DEFINE q == <<>>
             S == {}
  <2>1. q \in Seq(S) /\ \A b \in S : BodyOK(b)
    OBVIOUS
  <2> HIDE DEF q, S
  <2>2. Bodied(q)
    BY <2>1, BodiedBy
  <2> QED
    BY <2>2 DEF q
<1>2. ASSUME NEW x, BodyOK(x) PROVE Bodied(<<x>>)
  <2> DEFINE q == <<x>>
             S == {x}
  <2>1. q \in Seq(S) /\ \A b \in S : BodyOK(b)
    BY <1>2
  <2> HIDE DEF q, S
  <2>2. Bodied(q)
    BY <2>1, BodiedBy
  <2> QED
    BY <2>2 DEF q
<1>3. ASSUME NEW x, NEW y, BodyOK(x), BodyOK(y) PROVE Bodied(<<x, y>>)
  <2> DEFINE q == <<x, y>>
             S == {x, y}
  <2>1. q \in Seq(S) /\ \A b \in S : BodyOK(b)
    BY <1>3
  <2> HIDE DEF q, S
  <2>2. Bodied(q)
    BY <2>1, BodiedBy
  <2> QED
    BY <2>2 DEF q
<1>4. \A s : s.height \in Nat => BodyOK(Gossip(s))
  BY DEF BodyOK, Gossip
<1>5. \A s, b : BodyOK(Start(s)) /\ BodyOK(Propose(b))
  BY DEF BodyOK, Start, Propose
<1>6. \A ok : BodyOK(Vote(ok)) /\ BodyOK(Finality(ok))
  BY DEF BodyOK, Vote, Finality
<1> QED
  BY <1>1, <1>2, <1>3, <1>4, <1>5, <1>6

\* Both ends of a message are nodes, and it is at its place on their link.
LEMMA MessageEnds ==
  ASSUME NetTyped, NEW m \in Messages
  PROVE  /\ m.from \in Nodes /\ m.to \in Nodes
         /\ m.place \in DOMAIN net[<<m.from, m.to>>] /\ m.body = net[<<m.from, m.to>>][m.place]
<1> DEFINE Places(link) == IF Ordered THEN 1 .. Min({1, Len(net[link])}) ELSE DOMAIN net[link]
           On(link) == {[from |-> link[1], to |-> link[2], place |-> i, body |-> net[link][i]] :
                          i \in Places(link)}
<1>1. Messages = UNION {On(link) : link \in Nodes \X Nodes}
  BY DEF Messages
<1> HIDE DEF Places
<1>2. PICK link \in Nodes \X Nodes : m \in On(link)
  <2> HIDE DEF On
  <2> QED
    BY <1>1
<1>3. PICK i \in Places(link) :
        m = [from |-> link[1], to |-> link[2], place |-> i, body |-> net[link][i]]
  BY <1>2
<1>4. i \in DOMAIN net[link]
  <2>1. PICK S : net[link] \in Seq(S)
    BY DEF NetTyped, Bodied
  <2>2. Len(net[link]) \in Nat /\ DOMAIN net[link] = 1 .. Len(net[link])
    BY <2>1
  <2>3. ASSUME NEW k \in Nat PROVE 1 .. Min({1, k}) \subseteq 1 .. k
    <3>1. CASE k = 0
      <4>1. \A y \in {1, k} : 0 <= y
        BY <3>1
      <4>2. Min({1, k}) = 0
        BY <3>1, <4>1 DEF Min
      <4> QED
        BY <4>2
    <3>2. CASE k > 0
      <4>1. Min({1, k}) \in {1, k} /\ Min({1, k}) <= 1
        BY <3>2 DEF Min
      <4> QED
        BY <3>2, <4>1
    <3> QED
      BY <3>1, <3>2
  <2> HIDE DEF On
  <2> QED
    BY <2>2, <2>3, <1>3 DEF Places
<1>5. link = <<link[1], link[2]>> /\ link[1] \in Nodes /\ link[2] \in Nodes
  OBVIOUS
<1>6. m.from = link[1] /\ m.to = link[2] /\ m.place = i /\ m.body = net[link][i]
  BY <1>3
<1> QED
  BY <1>4, <1>5, <1>6

\* The network without a handled message.
LEMMA TakenTyped ==
  ASSUME NetTyped, NEW m \in Messages
  PROVE  /\ DOMAIN Taken(m) = Nodes \X Nodes /\ BodyOK(m.body)
         /\ \A link \in Nodes \X Nodes : Bodied(Taken(m)[link])
<1> DEFINE l == <<m.from, m.to>>
<1>1. l \in Nodes \X Nodes /\ m.place \in DOMAIN net[l] /\ m.body = net[l][m.place]
  BY MessageEnds
<1>2. Taken(m) = [net EXCEPT ![l] = RemoveAt(net[l], m.place)]
  BY DEF Taken
<1> HIDE DEF l
<1>3. Bodied(RemoveAt(net[l], m.place)) /\ BodyOK(m.body)
  BY <1>1, BodiedRemove DEF NetTyped
<1> QED
  BY <1>1, <1>2, <1>3 DEF NetTyped

\* The network with what a node has broadcast.
LEMMA BroadcastTyped ==
  ASSUME NEW msgs, \A link \in Nodes \X Nodes : Bodied(msgs[link]), NEW n, NEW bodies, Bodied(bodies),
         net' = Broadcast(msgs, n, bodies)
  PROVE  NetTyped'
<1>1. \A link \in Nodes \X Nodes : Bodied(msgs[link] \o bodies)
  BY BodiedAppend
<1> QED
  BY <1>1 DEF Broadcast, NetTyped

\* No node's storage changes.
Kept == \A p \in Nodes : node'[p].chain = node[p].chain

\* A step that replaces the record of one node by a typed one.
LEMMA OneNodeTyped ==
  ASSUME NodesTyped, ChainsFinite, NEW n \in Nodes, NEW s, NodeTyped(s), IsFiniteSet(DOMAIN s.chain),
         node' = [node EXCEPT ![n] = s]
  PROVE  NodesTyped' /\ ChainsFinite'
BY DEF NodesTyped, ChainsFinite

\* A tick that leaves its node well typed keeps everything typed.
LEMMA BecomesTyped ==
  ASSUME Typed, NEW n \in Nodes, NEW s, NodeTyped(s), s.chain = node[n].chain,
         NEW msgs, Bodied(msgs), Becomes(n, s, msgs), ticked' \subseteq up, UNCHANGED <<up, sent>>
  PROVE  Typed' /\ Kept
<1>1. NodesTyped' /\ ChainsFinite'
  BY OneNodeTyped DEF Becomes, Typed, ChainsFinite
<1>2. SetsTyped'
  BY DEF Becomes, Typed, SetsTyped
<1>3. NetTyped'
  BY BroadcastTyped DEF Becomes, Typed, NetTyped
<1>4. Kept
  BY DEF Becomes, Kept, Typed, NodesTyped
<1> QED
  BY <1>1, <1>2, <1>3, <1>4 DEF Typed

\* So does a handler.
LEMMA HandleTyped ==
  ASSUME Typed, NEW m \in Messages, NEW s, NodeTyped(s), s.chain = node[m.to].chain,
         NEW msgs, Bodied(msgs), Handle(m, s, msgs)
  PROVE  Typed' /\ Kept
<1>1. m.to \in Nodes
  BY MessageEnds DEF Typed
<1>2. NodesTyped' /\ ChainsFinite'
  BY <1>1, OneNodeTyped DEF Handle, Typed, ChainsFinite
<1>3. SetsTyped'
  BY DEF Handle, Typed, SetsTyped
<1>4. NetTyped'
  BY TakenTyped, BroadcastTyped DEF Handle, Typed
<1>5. Kept
  BY <1>1 DEF Handle, Kept, Typed, NodesTyped
<1> QED
  BY <1>2, <1>3, <1>4, <1>5 DEF Typed
-----------------------------------------------------------------------------
\* What a tick and a proposal make of a node's record.
LEMMA DecidedTyped ==
  ASSUME NEW n \in Nodes, NodeTyped(node[n])
  PROVE  NodeTyped(Decided(n)) /\ Keeps(node[n], Decided(n))
<1> DEFINE s == node[n]
           t == [s EXCEPT !.validators = @ \cup {n}]
<1>1. NodeTyped(t) /\ t.validators # {} /\ Keeps(s, t)
  BY DEF NodeTyped, Fields, Keeps
<1>2. Decided(n) = DecideCommittee(t)
  BY DEF Decided
<1> HIDE DEF s, t
<1>3. NodeTyped(DecideCommittee(t)) /\ Keeps(t, DecideCommittee(t))
  BY <1>1, DecideTyped, OperationsKeep
<1> QED
  BY <1>1, <1>2, <1>3 DEF Keeps, s

\* The producer after NewBlock.
LEMMA ProposedTyped ==
  ASSUME NEW s, NodeTyped(s), NEW b, NEW txs
  PROVE  /\ NodeTyped(Proposed(s, b, txs))
         /\ LET t == Proposed(s, b, txs)
            IN  /\ t.chain = s.chain /\ t.height = s.height /\ t.prev = s.prev
                /\ t.blk = b /\ t.storing = s.storing /\ t.fin = s.fin
<1> DEFINE e == Execute(s, txs)
           keys == [keys |-> Executed(s, txs)]
           t == [e EXCEPT !.blk = b, !.acct = keys]
<1>1. NodeTyped(e) /\ Keeps(s, e)
  BY ExecuteTyped, OperationsKeep
<1>2. Proposed(s, b, txs) = t
  BY DEF Proposed
<1> HIDE DEF e, keys
<1>3. NodeTyped(t)
  BY <1>1 DEF NodeTyped, Fields
<1>4. /\ t.chain = s.chain /\ t.height = s.height /\ t.prev = s.prev
      /\ t.blk = b /\ t.storing = s.storing /\ t.fin = s.fin
  BY <1>1 DEF NodeTyped, Fields, Keeps
<1> QED
  BY <1>2, <1>3, <1>4

\* A validator after Verify.
LEMMA JudgedTyped ==
  ASSUME NEW s, NodeTyped(s), NEW b
  PROVE  /\ NodeTyped(Judged(s, b))
         /\ LET t == Judged(s, b)
            IN  /\ t.chain = s.chain /\ t.height = s.height /\ t.prev = s.prev
                /\ t.blk = (IF VoteOf(s, b) THEN b ELSE s.blk)
                /\ t.storing = s.storing /\ t.fin = s.fin
<1> DEFINE v == Verified(s, b)
           t == [v EXCEPT !.blk = IF VoteOf(s, b) THEN b ELSE @]
<1>1. NodeTyped(v) /\ Keeps(s, v)
  BY VerifiedTyped, OperationsKeep
<1>2. Judged(s, b) = t
  BY DEF Judged
<1> HIDE DEF v
<1>3. NodeTyped(t)
  BY <1>1 DEF NodeTyped, Fields
<1>4. /\ t.chain = s.chain /\ t.height = s.height /\ t.prev = s.prev
      /\ t.blk = (IF VoteOf(s, b) THEN b ELSE s.blk)
      /\ t.storing = s.storing /\ t.fin = s.fin
  BY <1>1 DEF NodeTyped, Fields, Keeps
<1> QED
  BY <1>2, <1>3, <1>4

\* The timer touches nothing but finality.
LEMMA StartTimerKeeps ==
  ASSUME NEW s, NodeTyped(s)
  PROVE  LET t == StartTimer(s)
         IN  /\ t.chain = s.chain /\ t.height = s.height /\ t.prev = s.prev
             /\ t.blk = s.blk /\ t.storing = s.storing /\ t.fin = "live"
BY DEF NodeTyped, Fields, StartTimer

\* What gossip tells keeps the types.
LEMMA HeardTyped ==
  ASSUME NEW s, NodeTyped(s), NEW p \in Nodes, NEW g,
         g.height > s.height \/ g.height < s.height \/ g.height = s.height
  PROVE  NodeTyped(Heard(s, p, g)) /\ Keeps(s, Heard(s, p, g))
<1> DEFINE next == [next |-> s.height, target |-> g.height - 1]
           x == [s EXCEPT !.sync = next]
           y == [s EXCEPT !.validators = @ \ {p}]
           z == [s EXCEPT !.validators = @ \cup {p},
                          !.unready = IF g.ready THEN @ \ {p} ELSE @ \cup {p}]
<1>1. Heard(s, p, g) \in {x, y, z}
  BY DEF Heard
<1> HIDE DEF next
<1>2. NodeTyped(x) /\ Keeps(s, x)
  BY DEF NodeTyped, Fields, Keeps
<1>3. NodeTyped(y) /\ Keeps(s, y)
  BY DEF NodeTyped, Fields, Keeps
<1>4. NodeTyped(z) /\ Keeps(s, z)
  BY DEF NodeTyped, Fields, Keeps
<1> QED
  BY <1>1, <1>2, <1>3, <1>4
-----------------------------------------------------------------------------
\* Every action keeps the types.
LEMMA TicksTyped == ASSUME Typed, NEW n \in Nodes, Ticks(n) PROVE Typed' /\ Kept
<1> DEFINE s == node[n]
           d == Decided(n)
<1>1. Tick(n)
  BY DEF Ticks, TickPaused, TickGossip, TickIdle, TickDecide, TickPropose
<1>2. ticked' \subseteq up /\ UNCHANGED <<up, sent>>
  BY <1>1 DEF Tick, Free, Typed, SetsTyped
<1>3. NodeTyped(s) /\ s.height \in Nat
  BY DEF Typed, NodesTyped, NodeTyped
<1>4. NodeTyped(d) /\ Keeps(s, d)
  BY <1>3, DecidedTyped
<1>5. ASSUME NEW r, NodeTyped(r), Keeps(s, r) PROVE NodeTyped(Advance(r)) /\ Advance(r).chain = s.chain
  BY <1>5, AdvanceTyped, OperationsKeep DEF Keeps
<1>6. CASE TickPaused(n)
  BY <1>2, <1>3, <1>6, BecomesTyped, BodiesSent DEF TickPaused
<1>7. CASE TickGossip(n)
  <2>1. Becomes(n, Advance(s), <<Gossip(s)>>) /\ Bodied(<<Gossip(s)>>)
    BY <1>3, <1>7, BodiesSent DEF TickGossip
  <2>2. NodeTyped(Advance(s)) /\ Advance(s).chain = s.chain
    BY <1>3, <1>5 DEF Keeps
  <2> QED
    BY <1>2, <2>1, <2>2, BecomesTyped
<1>8. CASE TickIdle(n)
  <2>1. Becomes(n, Advance(s), <<>>)
    BY <1>8 DEF TickIdle
  <2>2. NodeTyped(Advance(s)) /\ Advance(s).chain = s.chain
    BY <1>3, <1>5 DEF Keeps
  <2> QED
    BY <1>2, <2>1, <2>2, BecomesTyped, BodiesSent
<1>9. CASE TickDecide(n)
  <2> DEFINE msgs == IF Starts(n) THEN <<Start(d)>> ELSE <<>>
  <2>1. Becomes(n, Advance(d), msgs)
    BY <1>9 DEF TickDecide
  <2>2. Bodied(msgs)
    BY BodiesSent
  <2>3. NodeTyped(Advance(d)) /\ Advance(d).chain = s.chain
    BY <1>4, <1>5
  <2> HIDE DEF msgs
  <2> QED
    BY <1>2, <2>1, <2>2, <2>3, BecomesTyped
<1>10. CASE TickPropose(n)
  <2>1. PICK txs : LET b == NewBlock(n, d, txs)
                   IN  Becomes(n, Advance(StartTimer(Proposed(d, b, txs))), <<Start(d), Propose(b)>>)
    BY <1>10 DEF TickPropose
  <2> DEFINE b == NewBlock(n, d, txs)
             t == Proposed(d, b, txs)
             r == StartTimer(t)
  <2>2. NodeTyped(t) /\ t.chain = s.chain
    BY <1>4, ProposedTyped DEF Keeps
  <2>3. NodeTyped(r) /\ r.chain = s.chain
    BY <2>2, StartTimerTyped, StartTimerKeeps
  <2> HIDE DEF t
  <2>4. NodeTyped(Advance(r)) /\ Advance(r).chain = s.chain
    BY <2>3, AdvanceTyped, OperationsKeep DEF Keeps
  <2>5. Becomes(n, Advance(r), <<Start(d), Propose(b)>>)
    BY <2>1 DEF t
  <2> HIDE DEF r, d, b
  <2> QED
    BY <1>2, <2>4, <2>5, BecomesTyped, BodiesSent
<1> QED
  BY <1>6, <1>7, <1>8, <1>9, <1>10 DEF Ticks

\* A vote counted, and perhaps decided on, keeps everything typed.
LEMMA AggregateTyped ==
  ASSUME Typed, NEW m \in Messages, NEW s, NodeTyped(s), s.chain = node[m.to].chain, NEW ok,
         Aggregate(m, m.to, s, ok)
  PROVE  Typed' /\ Kept
<1> DEFINE c == Count(s, ok)
           f == Finalize(c, Majority(c))
<1>1. NodeTyped(c) /\ c.chain = s.chain
  BY CountTyped, OperationsKeep DEF Keeps
<1>2. NodeTyped(f) /\ f.chain = s.chain
  BY <1>1, FinalizeTyped
<1>3. Handle(m, f, <<Finality(Majority(c))>>) \/ Handle(m, c, <<>>)
  BY DEF Aggregate
<1> HIDE DEF c, f
<1> QED
  BY <1>1, <1>2, <1>3, HandleTyped, BodiesSent

\* Every handler keeps everything typed.
LEMMA DeliverTyped ==
  ASSUME Typed, NEW m \in Messages, Deliver(m)
  PROVE  Typed' /\ Kept
<1> DEFINE n == m.to
           s == node[m.to]
<1>1. m.to \in Nodes /\ m.from \in Nodes /\ BodyOK(m.body)
  BY MessageEnds, TakenTyped DEF Typed
<1>2. NodeTyped(s)
  BY <1>1 DEF Typed, NodesTyped
<1>3. CASE HandleGossip(m)
  <2>1. Handle(m, s, <<>>) \/ Handle(m, Heard(s, m.from, m.body), <<>>)
    BY <1>3 DEF HandleGossip
  <2>2. NodeTyped(Heard(s, m.from, m.body)) /\ Heard(s, m.from, m.body).chain = s.chain
    <3>1. m.body.height \in Nat /\ s.height \in Nat
      BY <1>1, <1>2, <1>3 DEF HandleGossip, Arrives, BodyOK, NodeTyped
    <3> QED
      BY <1>1, <1>2, <3>1, HeardTyped DEF Keeps
  <2> QED
    BY <1>2, <2>1, <2>2, HandleTyped, BodiesSent
<1>4. CASE HandleStart(m)
  <2>1. Handle(m, s, <<>>) \/ Handle(m, AddBad(s, m.from), <<>>)
    BY <1>4 DEF HandleStart
  <2>2. NodeTyped(AddBad(s, m.from)) /\ AddBad(s, m.from).chain = s.chain
    BY <1>1, <1>2, AddBadTyped, OperationsKeep, SMTT(20) DEF Keeps
  <2> QED
    BY <1>2, <2>1, <2>2, HandleTyped, BodiesSent
<1>5. CASE HandlePropose(m)
  <2> DEFINE b == m.body.block
             ok == VoteOf(s, b)
             v == StartTimer(Judged(s, b))
  <2>1. NodeTyped(v) /\ v.chain = s.chain
    BY <1>2, JudgedTyped, StartTimerTyped, StartTimerKeeps
  <2>2. \/ Handle(m, s, <<>>) \/ Handle(m, AddBad(s, m.from), <<>>)
        \/ Aggregate(m, m.to, v, ok)
        \/ m.from = s.producer /\ Handle(m, IF ok THEN v ELSE AddBad(v, s.producer), <<Vote(ok)>>)
    BY <1>5 DEF HandlePropose
  <2>3. NodeTyped(AddBad(s, m.from)) /\ AddBad(s, m.from).chain = s.chain
    BY <1>1, <1>2, AddBadTyped, OperationsKeep, SMTT(20) DEF Keeps
  <2> HIDE DEF v, b, ok
  <2>4. CASE Aggregate(m, m.to, v, ok)
    BY <2>1, <2>4, AggregateTyped
  <2>5. CASE m.from = s.producer /\ Handle(m, IF ok THEN v ELSE AddBad(v, s.producer), <<Vote(ok)>>)
    <3>1. NodeTyped(AddBad(v, m.from)) /\ AddBad(v, m.from).chain = s.chain
      BY <1>1, <2>1, AddBadTyped, OperationsKeep DEF Keeps
    <3> QED
      BY <2>1, <2>5, <3>1, HandleTyped, BodiesSent
  <2> QED
    BY <1>2, <2>2, <2>3, <2>4, <2>5, HandleTyped, BodiesSent
<1>6. CASE HandleVote(m)
  <2>1. Aggregate(m, m.to, s, m.body.ok) \/ Handle(m, s, <<>>)
    BY <1>6 DEF HandleVote
  <2> QED
    BY <1>2, <2>1, AggregateTyped, HandleTyped, BodiesSent
<1>7. CASE HandleFinalize(m)
  <2>1. Handle(m, Finalize(s, m.body.ok), <<>>) \/ Handle(m, AddBad(s, m.from), <<>>)
    BY <1>7 DEF HandleFinalize
  <2>2. NodeTyped(AddBad(s, m.from)) /\ AddBad(s, m.from).chain = s.chain
    BY <1>1, <1>2, AddBadTyped, OperationsKeep, SMTT(20) DEF Keeps
  <2>3. NodeTyped(Finalize(s, m.body.ok)) /\ Finalize(s, m.body.ok).chain = s.chain
    BY <1>2, FinalizeTyped
  <2> QED
    BY <2>1, <2>2, <2>3, HandleTyped, BodiesSent
<1>8. CASE DialFail(m)
  <2> DEFINE p == m.from
             o == Orphan(node[p])
             r == [Reset(node[p]) EXCEPT !.orphans = o, !.unready = @ \ {m.to}, !.peers = @ \ {m.to}]
  <2>1. net' = Taken(m) /\ aged' = aged \ {p} /\ UNCHANGED <<up, ticked, sent>>
    BY <1>8 DEF DialFail
  <2>2. node' = [node EXCEPT ![p] = r]
    BY <1>8 DEF DialFail
  <2>3. NodeTyped(r) /\ r.chain = node[p].chain
    <3>1. NodeTyped(Reset(node[p])) /\ NodeTyped(node[p])
      BY <1>1, ResetTyped DEF Typed, NodesTyped
    <3>2. o \in Nat
      BY <3>1 DEF Orphan, NodeTyped
    <3>3. Reset(node[p]).chain = node[p].chain
      BY <3>1 DEF Reset, NodeTyped, Fields
    <3> HIDE DEF o, p
    <3> QED
      BY <3>1, <3>2, <3>3 DEF NodeTyped, Fields
  <2> HIDE DEF r, o
  <2>4. NodesTyped' /\ ChainsFinite'
    BY <1>1, <2>2, <2>3, OneNodeTyped DEF Typed, ChainsFinite
  <2>5. NetTyped'
    BY <2>1, TakenTyped DEF Typed, NetTyped
  <2>6. SetsTyped'
    BY <2>1 DEF Typed, SetsTyped
  <2>7. Kept
    BY <1>1, <2>2, <2>3 DEF Kept, Typed, NodesTyped
  <2> QED
    BY <2>4, <2>5, <2>6, <2>7 DEF Typed
<1>9. CASE Lose(m)
  <2>1. net' = Taken(m) /\ UNCHANGED <<node, up, ticked, aged, sent>>
    BY <1>9 DEF Lose
  <2>2. NodesTyped' /\ ChainsFinite' /\ SetsTyped'
    BY <2>1 DEF Typed, NodesTyped, ChainsFinite, SetsTyped
  <2>3. NetTyped'
    BY <2>1, TakenTyped DEF Typed, NetTyped
  <2>4. Kept
    BY <2>1 DEF Kept
  <2> QED
    BY <2>2, <2>3, <2>4 DEF Typed
<1> QED
  BY <1>3, <1>4, <1>5, <1>6, <1>7, <1>8, <1>9 DEF Deliver

\* One node's record changes, and no message is sent.
LEMMA OneNodeStep ==
  ASSUME Typed, NEW n \in Nodes, NEW s, NodeTyped(s), IsFiniteSet(DOMAIN s.chain),
         node' = [node EXCEPT ![n] = s], aged' \subseteq aged, UNCHANGED <<up, net, ticked, sent>>
  PROVE  Typed' /\ (s.chain = node[n].chain => Kept)
<1>1. NodesTyped' /\ ChainsFinite'
  BY OneNodeTyped DEF Typed
<1>2. SetsTyped'
  BY DEF Typed, SetsTyped
<1>3. NetTyped'
  BY DEF Typed, NetTyped
<1>4. s.chain = node[n].chain => Kept
  BY DEF Kept, Typed, NodesTyped
<1> QED
  BY <1>1, <1>2, <1>3, <1>4 DEF Typed

\* A stored chain has finitely many blocks.
LEMMA StoredFinite ==
  ASSUME NEW s, NodeTyped(s), IsFiniteSet(DOMAIN s.chain), NEW b
  PROVE  IsFiniteSet(DOMAIN Stored(s, b).chain)
<1>1. DOMAIN Stored(s, b).chain = DOMAIN s.chain \cup {b.height}
  BY DEF NodeTyped, Fields, Stored
<1> QED
  BY <1>1, FS_AddElement

\* So has one with a block from a peer.
LEMMA SyncedFinite ==
  ASSUME NEW s, NodeTyped(s), IsFiniteSet(DOMAIN s.chain), NEW b
  PROVE  IsFiniteSet(DOMAIN Synced(s, b).chain)
<1> DEFINE e == Execute(s, b.txs)
           p == PushAccounts(e, Executed(s, b.txs))
           k == Stored(p, b)
           next == IF s.sync.next = s.sync.target THEN Nil ELSE [s.sync EXCEPT !.next = @ + 1]
           r == [k EXCEPT !.sync = next, !.pool = s.pool]
<1>1. NodeTyped(e) /\ e.chain = s.chain
  BY ExecuteTyped, OperationsKeep DEF Keeps
<1>2. NodeTyped(p) /\ p.chain = s.chain
  BY <1>1, PushTyped, OperationsKeep DEF Keeps
<1>3. NodeTyped(k) /\ IsFiniteSet(DOMAIN k.chain)
  BY <1>2, StoredTyped, StoredFinite
<1>4. Synced(s, b) \in {EndSync(s), EndSync(e), r}
  BY DEF Synced
<1> HIDE DEF e, p, k, next
<1>5. EndSync(s).chain = s.chain /\ EndSync(e).chain = s.chain
  BY <1>1, OperationsKeep DEF Keeps
<1>6. r.chain = k.chain
  BY <1>3 DEF NodeTyped, Fields
<1> QED
  BY <1>3, <1>4, <1>5, <1>6

\* Timers, stores and sync keep everything typed.
LEMMA LocalTyped ==
  ASSUME Typed, NEW n \in Nodes,
         \/ TimerFire(n) \/ OrphanFire(n) \/ Settle(n) \/ Store(n) \/ SyncBlock(n) \/ SyncTimeout(n)
  PROVE  Typed' /\ (Kept \/ Store(n) \/ SyncBlock(n))
<1> DEFINE s == node[n]
<1>1. NodeTyped(s) /\ IsFiniteSet(DOMAIN s.chain)
  BY DEF Typed, NodesTyped, ChainsFinite
<1>2. CASE TimerFire(n)
  <2> DEFINE t == [s EXCEPT !.fin = "dead"]
  <2>1. NodeTyped(t) /\ t.chain = s.chain
    BY <1>1 DEF NodeTyped, Fields
  <2>2. node' = [node EXCEPT ![n] = t] /\ aged' \subseteq aged /\ UNCHANGED <<up, net, ticked, sent>>
    BY <1>2 DEF TimerFire
  <2> HIDE DEF t
  <2> QED
    BY <1>1, <2>1, <2>2, OneNodeStep
<1>3. CASE OrphanFire(n)
  <2> DEFINE f == Finalize(s, FALSE)
             t == [f EXCEPT !.orphans = @ - 1]
  <2>1. NodeTyped(f) /\ f.chain = s.chain
    BY <1>1, FinalizeTyped
  <2>2. f.orphans > 0
    <3>1. f.orphans = s.orphans
      BY <1>1 DEF NodeTyped, Fields, Finalize, Reset
    <3> QED
      BY <1>3, <3>1 DEF OrphanFire
  <2>3. node' = [node EXCEPT ![n] = t] /\ aged' \subseteq aged /\ UNCHANGED <<up, net, ticked, sent>>
    BY <1>3 DEF OrphanFire
  <2> HIDE DEF f
  <2>4. NodeTyped(t) /\ t.chain = s.chain
    BY <2>1, <2>2 DEF NodeTyped, Fields
  <2> HIDE DEF t
  <2> QED
    BY <1>1, <2>3, <2>4, OneNodeStep
<1>4. CASE Settle(n)
  <2>1. PICK v \in s.settling :
          node' = [node EXCEPT ![n] =
                     [(IF v.ok THEN PushAccounts(s, v.keys) ELSE FetchAccounts(s, v.keys))
                        EXCEPT !.settling = @ \ {v}]]
    BY <1>4 DEF Settle
  <2> DEFINE a == IF v.ok THEN PushAccounts(s, v.keys) ELSE FetchAccounts(s, v.keys)
             t == [a EXCEPT !.settling = @ \ {v}]
  <2>2. NodeTyped(a) /\ a.chain = s.chain
    BY <1>1, PushTyped, FetchTyped, OperationsKeep DEF Keeps
  <2>3. node' = [node EXCEPT ![n] = t] /\ aged' \subseteq aged /\ UNCHANGED <<up, net, ticked, sent>>
    BY <1>4, <2>1 DEF Settle
  <2> HIDE DEF a
  <2>4. NodeTyped(t) /\ t.chain = s.chain
    BY <2>2 DEF NodeTyped, Fields
  <2> HIDE DEF t
  <2> QED
    BY <1>1, <2>3, <2>4, OneNodeStep
<1>5. CASE Store(n)
  <2>1. PICK b \in s.storing : node' = [node EXCEPT ![n] = [Stored(s, b) EXCEPT !.storing = @ \ {b}]]
    BY <1>5 DEF Store
  <2> DEFINE k == Stored(s, b)
             t == [k EXCEPT !.storing = @ \ {b}]
  <2>2. NodeTyped(k) /\ IsFiniteSet(DOMAIN k.chain)
    BY <1>1, StoredTyped, StoredFinite
  <2>3. node' = [node EXCEPT ![n] = t] /\ aged' \subseteq aged /\ UNCHANGED <<up, net, ticked, sent>>
    BY <1>5, <2>1 DEF Store
  <2> HIDE DEF k
  <2>4. NodeTyped(t) /\ t.chain = k.chain
    BY <2>2 DEF NodeTyped, Fields
  <2> HIDE DEF t
  <2> QED
    BY <1>5, <2>2, <2>3, <2>4, OneNodeStep
<1>6. CASE SyncBlock(n)
  <2>1. PICK p \in Nodes : node' = [node EXCEPT ![n] = Synced(s, node[p].chain[s.sync.next])]
    BY <1>6 DEF SyncBlock
  <2> DEFINE t == Synced(s, node[p].chain[s.sync.next])
  <2>2. NodeTyped(t) /\ IsFiniteSet(DOMAIN t.chain)
    BY <1>1, SyncedTyped, SyncedFinite
  <2>3. node' = [node EXCEPT ![n] = t] /\ aged' \subseteq aged /\ UNCHANGED <<up, net, ticked, sent>>
    BY <1>6, <2>1 DEF SyncBlock
  <2> HIDE DEF t
  <2> QED
    BY <1>6, <2>2, <2>3, OneNodeStep
<1>7. CASE SyncTimeout(n)
  <2>1. NodeTyped(EndSync(s)) /\ EndSync(s).chain = s.chain
    BY <1>1, EndSyncTyped, OperationsKeep DEF Keeps
  <2>2. /\ node' = [node EXCEPT ![n] = EndSync(s)] /\ aged' \subseteq aged
        /\ UNCHANGED <<up, net, ticked, sent>>
    BY <1>7 DEF SyncTimeout
  <2> QED
    BY <1>1, <2>1, <2>2, OneNodeStep
<1> QED
  BY <1>2, <1>3, <1>4, <1>5, <1>6, <1>7

\* New transactions, crashes, restarts and intervals keep everything typed.
LEMMA EnvironmentTyped ==
  ASSUME Typed,
         \/ \E n \in Nodes : Crash(n) \/ Restart(n)
         \/ \E t \in Txs : NewTx(t)
         \/ NewInterval \/ UNCHANGED vars
  PROVE  Typed' /\ Kept
<1>1. ASSUME NEW n \in Nodes, Crash(n) PROVE Typed' /\ Kept
  <2>1. NodesTyped' /\ ChainsFinite' /\ NetTyped'
    BY <1>1 DEF Crash, Typed, NodesTyped, ChainsFinite, NetTyped
  <2>2. SetsTyped'
    BY <1>1 DEF Crash, Typed, SetsTyped
  <2>3. Kept
    BY <1>1 DEF Crash, Kept
  <2> QED
    BY <2>1, <2>2, <2>3 DEF Typed
<1>2. ASSUME NEW n \in Nodes, Restart(n) PROVE Typed' /\ Kept
  <2> DEFINE s == node[n]
             joined(p) == [node[p] EXCEPT !.peers = @ \cup {n}]
  <2>1. node' = [p \in Nodes |-> IF p = n THEN Restarted(n) ELSE IF p \in up THEN joined(p) ELSE node[p]]
    BY <1>2 DEF Restart
  <2>2. NodeTyped(Restarted(n)) /\ Restarted(n).chain = s.chain
    <3>1. NodeTyped(s) /\ IsFiniteSet(DOMAIN s.chain) /\ up \subseteq Nodes
      BY DEF Typed, NodesTyped, ChainsFinite, SetsTyped
    <3> QED
      BY <3>1, RestartedTyped DEF Restarted, NodeInit
  <2>3. \A p \in Nodes : NodeTyped(joined(p)) /\ joined(p).chain = node[p].chain
    <3>1. ASSUME NEW p \in Nodes PROVE NodeTyped(joined(p)) /\ joined(p).chain = node[p].chain
      <4>1. NodeTyped(node[p])
        BY DEF Typed, NodesTyped
      <4> QED
        BY <4>1 DEF NodeTyped, Fields
    <3> QED
      BY <3>1
  <2> HIDE DEF joined
  <2>4. NodesTyped' /\ ChainsFinite'
    BY <2>1, <2>2, <2>3 DEF Typed, NodesTyped, ChainsFinite
  <2>5. NetTyped' /\ SetsTyped'
    BY <1>2 DEF Restart, Typed, NetTyped, SetsTyped
  <2>6. Kept
    BY <2>1, <2>2, <2>3 DEF Kept
  <2> QED
    BY <2>4, <2>5, <2>6 DEF Typed
<1>3. ASSUME NEW t \in Txs, NewTx(t) PROVE Typed' /\ Kept
  <2> DEFINE has(p) == [node[p] EXCEPT !.pool = @ \cup {t}]
  <2>1. node' = [p \in Nodes |-> has(p)]
    BY <1>3 DEF NewTx
  <2>2. \A p \in Nodes : NodeTyped(has(p)) /\ has(p).chain = node[p].chain
    <3>1. ASSUME NEW p \in Nodes PROVE NodeTyped(has(p)) /\ has(p).chain = node[p].chain
      <4>1. NodeTyped(node[p])
        BY DEF Typed, NodesTyped
      <4> QED
        BY <4>1 DEF NodeTyped, Fields
    <3> QED
      BY <3>1
  <2> HIDE DEF has
  <2>3. NodesTyped' /\ ChainsFinite'
    BY <2>1, <2>2 DEF Typed, NodesTyped, ChainsFinite
  <2>4. NetTyped' /\ SetsTyped'
    BY <1>3 DEF NewTx, Typed, NetTyped, SetsTyped
  <2>5. Kept
    BY <2>1, <2>2 DEF Kept
  <2> QED
    BY <2>3, <2>4, <2>5 DEF Typed
<1>4. CASE NewInterval
  BY <1>4 DEF NewInterval, Kept, Typed, NodesTyped, ChainsFinite, NetTyped, SetsTyped
<1>5. CASE UNCHANGED vars
  BY <1>5 DEF vars, Kept, Typed, NodesTyped, ChainsFinite, NetTyped, SetsTyped
<1> QED
  BY <1>1, <1>2, <1>3, <1>4, <1>5

\* The nodes start well typed.
LEMMA InitTyped == Init => Typed
<1> SUFFICES ASSUME Init PROVE Typed
  OBVIOUS
<1>1. NodesTyped
  BY NodeInitTyped DEF Init, NodesTyped
<1>2. ChainsFinite
  <2>1. \A n \in Nodes : DOMAIN NodeInit(n).chain = {}
    BY DEF NodeInit
  <2> QED
    BY <2>1, FS_EmptySet DEF Init, ChainsFinite
<1>3. SetsTyped
  BY DEF Init, SetsTyped
<1>4. NetTyped
  BY BodiesSent DEF Init, NetTyped, Quiet
<1> QED
  BY <1>1, <1>2, <1>3, <1>4 DEF Typed

\* Every step keeps everything typed.
LEMMA NextTyped == Typed /\ [Next]_vars => Typed'
BY TicksTyped, LocalTyped, DeliverTyped, EnvironmentTyped DEF Next

\* The types hold in every reachable state.
LEMMA TypedInvariant == Spec => []Typed
BY InitTyped, NextTyped, PTL DEF Spec

\* The records of all nodes keep their types whatever messages, timers,
\* crashes and restarts do to them, and decideCommittee and reset() set and
\* clear the producer and the aggregator together.
THEOREM TypeCorrect == Spec => []TypeOK
<1>1. Typed => TypeOK
  <2> SUFFICES ASSUME Typed PROVE TypeOK
    OBVIOUS
  <2>1. ASSUME NEW n \in Nodes
        PROVE  LET s == node[n]
               IN  /\ s.validators \cup s.unready \cup s.bad \cup s.peers \subseteq Nodes
                   /\ s.producer \in Nodes \cup {None} /\ s.aggregator \in Nodes \cup {None}
                   /\ (s.producer = None) = (s.aggregator = None)
                   /\ s.tick \in 0 .. 3 /\ s.fin \in {"none", "live", "dead"}
                   /\ s.orphans \in Nat /\ s.voted \in Nat /\ s.votedOk \in 0 .. s.voted
                   /\ s.mem \in [Txs -> {"absent", "new", "paid"}]
                   /\ s.sto \in [Txs -> {"absent", "new", "paid"}]
                   /\ s.pool \subseteq Txs /\ s.height \in Nat
    <3>1. NodeTyped(node[n])
      BY DEF Typed, NodesTyped
    <3> QED
      BY <3>1, NoneIsNoNode DEF NodeTyped, Balances
  <2>2. up \subseteq Nodes /\ ticked \subseteq up /\ aged \subseteq up /\ sent \subseteq Txs
    BY DEF Typed, SetsTyped
  <2> QED
    BY <2>1, <2>2 DEF TypeOK
<1> QED
  BY <1>1, TypedInvariant, PTL
-----------------------------------------------------------------------------
\* The chain and its counters, as ChainIsLinked says it of one node.
Below(s, h) == IF h = 1 THEN Nil ELSE Hash(s.chain[h - 1])
Linked(s) ==
  /\ DOMAIN s.chain = 1 .. (s.height - 1)
  /\ \A h \in DOMAIN s.chain : s.chain[h].height = h /\ s.chain[h].prev = Below(s, h)
  /\ s.prev = Below(s, s.height)

\* What is pending fits on the chain: the block of a running round, and the
\* one block that waits to be stored.
Fits(s, b) == b.height = s.height /\ b.prev = s.prev
Pending(s) ==
  /\ s.blk # Nil => Waiting(s) /\ Fits(s, s.blk)
  /\ \A b \in s.storing : Fits(s, b)
  /\ \A b, c \in s.storing : b = c
  /\ s.storing # {} => s.blk = Nil

NodeOK(s) == NodeTyped(s) /\ s.height > 0 /\ Linked(s) /\ Pending(s)

\* A node whose chain and pending blocks are as they were stays linked.
LEMMA KeepsOK == ASSUME NEW s, NEW t, NodeOK(s), Keeps(s, t), NodeTyped(t) PROVE NodeOK(t)
<1>1. Linked(t)
  BY DEF NodeOK, Keeps, Linked, Below
<1>2. Pending(t)
  BY DEF NodeOK, Keeps, Pending, Fits, Waiting
<1> QED
  BY <1>1, <1>2 DEF NodeOK, Keeps

\* reset drops the pending block and keeps the chain.
LEMMA ResetOK == ASSUME NEW s, NodeOK(s) PROVE NodeOK(Reset(s))
<1>1. /\ Reset(s).chain = s.chain /\ Reset(s).height = s.height /\ Reset(s).prev = s.prev
      /\ Reset(s).blk = Nil /\ Reset(s).storing = s.storing
  BY DEF NodeOK, NodeTyped, Fields, Reset
<1>2. NodeTyped(Reset(s))
  BY ResetTyped DEF NodeOK
<1> HIDE DEF Reset
<1> QED
  BY <1>1, <1>2 DEF NodeOK, Linked, Below, Pending, Fits

\* A new timer concerns neither chain nor pending block.
LEMMA StartTimerOK == ASSUME NEW s, NodeOK(s) PROVE NodeOK(StartTimer(s)) /\ StartTimer(s).fin = "live"
<1> DEFINE t == StartTimer(s)
<1>1. /\ t.chain = s.chain /\ t.height = s.height /\ t.prev = s.prev
      /\ t.blk = s.blk /\ t.storing = s.storing /\ t.fin = "live"
  BY DEF NodeOK, NodeTyped, Fields, StartTimer
<1>2. NodeTyped(t)
  BY StartTimerTyped DEF NodeOK
<1> HIDE DEF t
<1>3. NodeOK(t)
  BY <1>1, <1>2 DEF NodeOK, Linked, Below, Pending, Fits, Waiting
<1> QED
  BY <1>1, <1>3 DEF t

\* A verdict: the round's block is handed over only when none is waiting to be
\* stored, and a rejection hands over none.
LEMMA FinalizeOK ==
  ASSUME NEW s, NodeOK(s), NEW ok, s.storing = {} \/ ok = FALSE
  PROVE  NodeOK(Finalize(s, ok)) /\ Finalize(s, ok).chain = s.chain
<1> DEFINE accounts == IF s.acct = Nil THEN {} ELSE {[keys |-> s.acct.keys, ok |-> ok]}
           block == IF s.blk = Nil \/ ~ok THEN {} ELSE {s.blk}
           t == [s EXCEPT !.settling = @ \cup accounts, !.storing = @ \cup block]
           r == Reset(t)
<1>1. Finalize(s, ok) = IF s.fin # "live" THEN s ELSE r
  BY DEF Finalize
<1>2. block = {} \/ (s.storing = {} /\ s.blk # Nil /\ block = {s.blk})
  OBVIOUS
<1> HIDE DEF accounts, block
<1>3. NodeTyped(r)
  <2>1. NodeTyped(t)
    BY DEF NodeOK, NodeTyped, Fields
  <2> QED
    BY <2>1, ResetTyped
<1>4. /\ r.chain = s.chain /\ r.height = s.height /\ r.prev = s.prev
      /\ r.blk = Nil /\ r.storing = s.storing \cup block
  BY DEF NodeOK, NodeTyped, Fields, Reset
<1> HIDE DEF r
<1>5. NodeOK(r)
  BY <1>2, <1>3, <1>4 DEF NodeOK, Linked, Below, Pending, Fits
<1> QED
  BY <1>1, <1>4, <1>5

\* Put and Increment of a block that fits.
LEMMA StoredLinks ==
  ASSUME NEW s, NodeOK(s), NEW b, Fits(s, b)
  PROVE  /\ NodeTyped(Stored(s, b)) /\ Linked(Stored(s, b))
         /\ Stored(s, b).height > 0
         /\ Stored(s, b).blk = s.blk /\ Stored(s, b).storing = s.storing
<1> DEFINE t == Stored(s, b)
           c == [h \in DOMAIN s.chain \cup {b.height} |-> IF h = b.height THEN b ELSE s.chain[h]]
<1>1. t.chain = c /\ t.height = s.height + 1 /\ t.prev = Hash(b) /\ t.blk = s.blk /\ t.storing = s.storing
  BY DEF NodeOK, NodeTyped, Fields, Stored
<1>2. NodeTyped(t)
  BY StoredTyped DEF NodeOK
<1>3. s.height \in Nat \ {0} /\ b.height = s.height /\ b.prev = Below(s, s.height)
  BY DEF NodeOK, NodeTyped, Fits, Linked
<1>4. DOMAIN c = 1 .. s.height /\ c[s.height] = b /\ \A h \in 1 .. s.height - 1 : c[h] = s.chain[h]
  BY <1>3 DEF NodeOK, Linked
<1> HIDE DEF t, c
<1>5. \A h \in 1 .. s.height : Below(t, h) = Below(s, h)
  BY <1>1, <1>3, <1>4 DEF Below
<1>6. Below(t, s.height + 1) = Hash(b)
  BY <1>1, <1>3, <1>4 DEF Below
<1>7. Linked(t)
  BY <1>1, <1>3, <1>4, <1>5, <1>6 DEF NodeOK, Linked
<1> QED
  BY <1>1, <1>2, <1>3, <1>7 DEF t

-----------------------------------------------------------------------------
\* Every node's chain is linked and what is pending fits on it.
ChainsOK == \A n \in Nodes : NodeOK(node[n])

\* A step that changes one node's record.
LEMMA OneNodeOK ==
  ASSUME Typed, ChainsOK, NEW n \in Nodes, NEW s, NodeOK(s), node' = [node EXCEPT ![n] = s]
  PROVE  ChainsOK'
BY DEF Typed, NodesTyped, ChainsOK

\* A handler that leaves its node linked leaves all linked.
LEMMA HandleOK ==
  ASSUME Typed, ChainsOK, NEW m \in Messages, NEW s, NodeOK(s), NEW msgs, Handle(m, s, msgs)
  PROVE  ChainsOK'
<1>1. m.to \in Nodes
  BY MessageEnds DEF Typed
<1> QED
  BY <1>1, OneNodeOK DEF Handle

\* Empty chains are linked.
LEMMA InitOK == Init => ChainsOK
<1> SUFFICES ASSUME Init, NEW n \in Nodes PROVE NodeOK(node[n])
  BY DEF ChainsOK
<1>1. node[n] = NodeInit(n)
  BY DEF Init
<1>2. NodeTyped(NodeInit(n))
  BY NodeInitTyped
<1>3. Linked(NodeInit(n)) /\ Pending(NodeInit(n)) /\ NodeInit(n).height > 0
  BY DEF NodeInit, Linked, Below, Pending
<1> QED
  BY <1>1, <1>2, <1>3 DEF NodeOK

\* A tick keeps the chains linked; a proposed block fits its own chain.
LEMMA TicksOK == ASSUME Prompt, Typed, ChainsOK, NEW n \in Nodes, Ticks(n) PROVE ChainsOK'
<1> DEFINE s == node[n]
           d == Decided(n)
<1>1. NodeOK(s) /\ NodeTyped(s)
  BY DEF ChainsOK, NodeOK
<1>2. s.storing = {}
  <2>1. Tick(n)
    BY DEF Ticks, TickPaused, TickGossip, TickIdle, TickDecide, TickPropose
  <2> QED
    BY <2>1 DEF Tick, Free, Settled
<1>3. NodeTyped(d) /\ NodeOK(d) /\ Keeps(s, d)
  BY <1>1, DecidedTyped, KeepsOK
<1>4. ASSUME NEW r, NodeOK(r) PROVE NodeOK(Advance(r))
  BY <1>4, AdvanceTyped, OperationsKeep, KeepsOK DEF NodeOK
<1>5. CASE TickPaused(n)
  BY <1>1, <1>5, OneNodeOK DEF TickPaused, Becomes
<1>6. CASE TickGossip(n) \/ TickIdle(n)
  BY <1>1, <1>4, <1>6, OneNodeOK DEF TickGossip, TickIdle, Becomes
<1>7. CASE TickDecide(n)
  BY <1>3, <1>4, <1>7, OneNodeOK DEF TickDecide, Becomes
<1>8. CASE TickPropose(n)
  <2>1. PICK txs : LET b == NewBlock(n, d, txs)
                   IN  Becomes(n, Advance(StartTimer(Proposed(d, b, txs))), <<Start(d), Propose(b)>>)
    BY <1>8 DEF TickPropose
  <2> DEFINE b == NewBlock(n, d, txs)
             t == Proposed(d, b, txs)
             r == StartTimer(t)
  <2>2. Fits(d, b)
    BY DEF NewBlock, Fits
  <2>3. /\ NodeTyped(t) /\ t.chain = d.chain /\ t.height = d.height /\ t.prev = d.prev
        /\ t.blk = b /\ t.storing = {}
    BY <1>2, <1>3, ProposedTyped DEF Keeps
  <2>4. Becomes(n, Advance(r), <<Start(d), Propose(b)>>)
    BY <2>1
  <2> HIDE DEF t, d, b
  <2>5. /\ NodeTyped(r) /\ r.chain = d.chain /\ r.height = d.height /\ r.prev = d.prev
        /\ r.blk = b /\ r.storing = {} /\ r.fin = "live"
    BY <2>3, StartTimerTyped, StartTimerKeeps
  <2> HIDE DEF r
  <2>6. NodeOK(r)
    BY <1>3, <2>2, <2>5 DEF NodeOK, Linked, Below, Pending, Fits, Waiting
  <2> QED
    BY <1>4, <2>4, <2>6, OneNodeOK DEF Becomes
<1> QED
  BY <1>5, <1>6, <1>7, <1>8 DEF Ticks

\* A verdict concerns the pending block, which fits.
LEMMA AggregateOK ==
  ASSUME Typed, ChainsOK, NEW m \in Messages, NEW s, NodeOK(s), s.storing = {}, NEW ok,
         Aggregate(m, m.to, s, ok)
  PROVE  ChainsOK'
<1> DEFINE c == Count(s, ok)
           f == Finalize(c, Majority(c))
<1>1. NodeTyped(c) /\ Keeps(s, c)
  BY CountTyped, OperationsKeep DEF NodeOK
<1>2. NodeOK(c) /\ c.storing = {}
  BY <1>1, KeepsOK DEF Keeps
<1>3. Handle(m, f, <<Finality(Majority(c))>>) \/ Handle(m, c, <<>>)
  BY DEF Aggregate
<1> HIDE DEF c
<1>4. NodeOK(f)
  BY <1>2, FinalizeOK
<1> HIDE DEF f
<1> QED
  BY <1>2, <1>3, <1>4, HandleOK

\* Every handler keeps the chains linked.
LEMMA DeliverOK == ASSUME Prompt, Typed, ChainsOK, NEW m \in Messages, Deliver(m) PROVE ChainsOK'
<1> DEFINE s == node[m.to]
<1>1. m.to \in Nodes /\ m.from \in Nodes /\ BodyOK(m.body)
  BY MessageEnds, TakenTyped DEF Typed
<1>2. NodeOK(s) /\ NodeTyped(s)
  BY <1>1 DEF ChainsOK, NodeOK
<1>3. NodeOK(AddBad(s, m.from))
  BY <1>1, <1>2, AddBadTyped, OperationsKeep, KeepsOK
<1>4. ~DialFail(m) /\ ~Lose(m) => s.storing = {}
  BY DEF Deliver, HandleGossip, HandleStart, HandlePropose, HandleVote, HandleFinalize, Arrives,
         Free, Settled
<1>5. CASE HandleGossip(m)
  <2>1. Handle(m, s, <<>>) \/ Handle(m, Heard(s, m.from, m.body), <<>>)
    BY <1>5 DEF HandleGossip
  <2>2. NodeOK(Heard(s, m.from, m.body))
    <3>1. m.body.height \in Nat /\ s.height \in Nat
      BY <1>1, <1>2, <1>5 DEF HandleGossip, Arrives, BodyOK, NodeTyped
    <3> QED
      BY <1>1, <1>2, <3>1, HeardTyped, KeepsOK
  <2> QED
    BY <1>2, <2>1, <2>2, HandleOK
<1>6. CASE HandleStart(m)
  <2>1. Handle(m, s, <<>>) \/ Handle(m, AddBad(s, m.from), <<>>)
    BY <1>6 DEF HandleStart
  <2> QED
    BY <1>2, <1>3, <2>1, HandleOK
<1>7. CASE HandlePropose(m) /\ s.storing = {}
  <2> DEFINE b == m.body.block
             ok == VoteOf(s, b)
             j == Judged(s, b)
             v == StartTimer(j)
  <2>1. /\ NodeTyped(j) /\ j.chain = s.chain /\ j.height = s.height /\ j.prev = s.prev
        /\ j.blk = (IF ok THEN b ELSE s.blk) /\ j.storing = {}
    BY <1>2, <1>7, JudgedTyped
  <2>2. ok => Fits(s, b)
    BY DEF VoteOf, CheckBlockInfo, Fits
  <2>3. \/ Handle(m, s, <<>>) \/ Handle(m, AddBad(s, m.from), <<>>)
        \/ Aggregate(m, m.to, v, ok)
        \/ m.from = s.producer /\ Handle(m, IF ok THEN v ELSE AddBad(v, s.producer), <<Vote(ok)>>)
    BY <1>7 DEF HandlePropose
  <2> HIDE DEF j, b, ok
  <2>4. /\ NodeTyped(v) /\ v.chain = s.chain /\ v.height = s.height /\ v.prev = s.prev
        /\ v.blk = (IF ok THEN b ELSE s.blk) /\ v.storing = {} /\ v.fin = "live"
    BY <2>1, StartTimerTyped, StartTimerKeeps
  <2> HIDE DEF v
  <2>5. NodeOK(v)
    BY <1>2, <2>2, <2>4 DEF NodeOK, Linked, Below, Pending, Fits, Waiting
  <2>6. NodeOK(AddBad(v, m.from))
    BY <1>1, <2>4, <2>5, AddBadTyped, OperationsKeep, KeepsOK
  <2>7. CASE Aggregate(m, m.to, v, ok)
    BY <2>4, <2>5, <2>7, AggregateOK
  <2> QED
    BY <1>2, <1>3, <2>3, <2>5, <2>6, <2>7, HandleOK
<1>8. CASE HandleVote(m) /\ s.storing = {}
  <2>1. Aggregate(m, m.to, s, m.body.ok) \/ Handle(m, s, <<>>)
    BY <1>8 DEF HandleVote
  <2> QED
    BY <1>2, <1>8, <2>1, AggregateOK, HandleOK
<1>9. CASE HandleFinalize(m) /\ s.storing = {}
  <2>1. Handle(m, Finalize(s, m.body.ok), <<>>) \/ Handle(m, AddBad(s, m.from), <<>>)
    BY <1>9 DEF HandleFinalize
  <2>2. NodeOK(Finalize(s, m.body.ok))
    BY <1>2, <1>9, FinalizeOK
  <2> QED
    BY <1>3, <2>1, <2>2, HandleOK
<1>10. CASE DialFail(m)
  <2> DEFINE p == m.from
             o == Orphan(node[p])
             q == Reset(node[p])
             r == [q EXCEPT !.orphans = o, !.unready = @ \ {m.to}, !.peers = @ \ {m.to}]
  <2>1. node' = [node EXCEPT ![p] = r]
    BY <1>10 DEF DialFail
  <2>2. NodeOK(q) /\ NodeTyped(q) /\ o \in Nat
    BY <1>1, ResetOK DEF ChainsOK, NodeOK, Orphan, NodeTyped
  <2> HIDE DEF q, o, p
  <2>3. NodeTyped(r) /\ Keeps(q, r)
    BY <2>2 DEF NodeTyped, Fields, Keeps
  <2>4. NodeOK(r)
    BY <2>2, <2>3, KeepsOK
  <2>5. p \in Nodes
    BY <1>1 DEF p
  <2> HIDE DEF r
  <2> QED
    BY <2>1, <2>4, <2>5, OneNodeOK
<1>11. CASE Lose(m)
  BY <1>11 DEF Lose, ChainsOK
<1> QED
  BY <1>4, <1>5, <1>6, <1>7, <1>8, <1>9, <1>10, <1>11 DEF Deliver

\* sync(): the block that follows the chain is stored, any other is not.
LEMMA SyncedOK ==
  ASSUME NEW s, NodeOK(s), s.blk = Nil, s.storing = {}, NEW b
  PROVE  NodeOK(Synced(s, b))
<1> DEFINE e == Execute(s, b.txs)
           p == PushAccounts(e, Executed(s, b.txs))
           k == Stored(p, b)
           next == IF s.sync.next = s.sync.target THEN Nil ELSE [s.sync EXCEPT !.next = @ + 1]
           r == [k EXCEPT !.sync = next, !.pool = s.pool]
<1>1. NodeTyped(s) /\ NodeTyped(e) /\ Keeps(s, e) /\ NodeOK(e)
  BY ExecuteTyped, OperationsKeep, KeepsOK DEF NodeOK
<1>2. NodeTyped(p) /\ Keeps(e, p) /\ NodeOK(p)
  BY <1>1, PushTyped, OperationsKeep, KeepsOK
<1>3. \/ Synced(s, b) \in {EndSync(s), EndSync(e)}
      \/ Synced(s, b) = r /\ CheckBlockInfo(s, b)
  BY DEF Synced
<1>4. NodeOK(EndSync(s)) /\ NodeOK(EndSync(e))
  BY <1>1, EndSyncTyped, OperationsKeep, KeepsOK
<1> HIDE DEF e, p
<1>5. CASE Synced(s, b) = r /\ CheckBlockInfo(s, b)
  <2>1. Fits(p, b) /\ p.blk = Nil /\ p.storing = {}
    BY <1>1, <1>2, <1>5 DEF Keeps, CheckBlockInfo, Fits
  <2>2. NodeTyped(k) /\ Linked(k) /\ k.height > 0 /\ k.blk = Nil /\ k.storing = {}
    BY <1>2, <2>1, StoredLinks
  <2> HIDE DEF k, next
  <2>3. NodeOK(k)
    BY <2>2 DEF NodeOK, Pending
  <2>4. NodeTyped(r) /\ Keeps(k, r)
    <3>1. s.pool \subseteq Txs
      BY <1>1 DEF NodeTyped
    <3> QED
      BY <2>2, <3>1 DEF NodeTyped, Fields, Keeps
  <2> QED
    BY <1>5, <2>3, <2>4, KeepsOK
<1> QED
  BY <1>3, <1>4, <1>5

\* Storing the final block and syncing keep the chains linked, since they do
\* not happen to a node at once.
LEMMA LocalOK ==
  ASSUME Typed, ChainsOK, SyncExcludesRound, NEW n \in Nodes,
         \/ TimerFire(n) \/ OrphanFire(n) \/ Settle(n) \/ Store(n) \/ SyncBlock(n) \/ SyncTimeout(n)
  PROVE  ChainsOK'
<1> DEFINE s == node[n]
<1>1. NodeOK(s) /\ NodeTyped(s)
  BY DEF ChainsOK, NodeOK
<1>2. CASE TimerFire(n)
  <2> DEFINE t == [s EXCEPT !.fin = "dead"]
  <2>1. /\ NodeTyped(t) /\ t.chain = s.chain /\ t.height = s.height /\ t.prev = s.prev
        /\ t.blk = s.blk /\ t.storing = s.storing /\ t.fin = "dead"
    BY <1>1 DEF NodeTyped, Fields
  <2>2. node' = [node EXCEPT ![n] = t]
    BY <1>2 DEF TimerFire
  <2> HIDE DEF t
  <2>3. NodeOK(t)
    BY <1>1, <2>1 DEF NodeOK, Linked, Below, Pending, Fits, Waiting
  <2> QED
    BY <2>2, <2>3, OneNodeOK
<1>3. CASE OrphanFire(n)
  <2> DEFINE f == Finalize(s, FALSE)
             t == [f EXCEPT !.orphans = @ - 1]
  <2>1. NodeOK(f)
    BY <1>1, FinalizeOK
  <2>2. f.orphans > 0
    <3>1. f.orphans = s.orphans
      BY <1>1 DEF NodeTyped, Fields, Finalize, Reset
    <3> QED
      BY <1>3, <3>1 DEF OrphanFire
  <2>3. node' = [node EXCEPT ![n] = t]
    BY <1>3 DEF OrphanFire
  <2> HIDE DEF f
  <2>4. NodeTyped(t) /\ Keeps(f, t)
    BY <2>1, <2>2 DEF NodeOK, NodeTyped, Fields, Keeps
  <2> HIDE DEF t
  <2> QED
    BY <2>1, <2>3, <2>4, KeepsOK, OneNodeOK
<1>4. CASE Settle(n)
  <2>1. PICK v \in s.settling :
          node' = [node EXCEPT ![n] =
                     [(IF v.ok THEN PushAccounts(s, v.keys) ELSE FetchAccounts(s, v.keys))
                        EXCEPT !.settling = @ \ {v}]]
    BY <1>4 DEF Settle
  <2> DEFINE a == IF v.ok THEN PushAccounts(s, v.keys) ELSE FetchAccounts(s, v.keys)
             t == [a EXCEPT !.settling = @ \ {v}]
  <2>2. NodeTyped(a) /\ Keeps(s, a)
    BY <1>1, PushTyped, FetchTyped, OperationsKeep
  <2>3. node' = [node EXCEPT ![n] = t]
    BY <2>1
  <2> HIDE DEF a
  <2>4. NodeTyped(t) /\ Keeps(s, t)
    BY <2>2 DEF NodeTyped, Fields, Keeps
  <2> HIDE DEF t
  <2> QED
    BY <1>1, <2>3, <2>4, KeepsOK, OneNodeOK
<1>5. CASE Store(n)
  <2>1. PICK b \in s.storing : node' = [node EXCEPT ![n] = [Stored(s, b) EXCEPT !.storing = @ \ {b}]]
    BY <1>5 DEF Store
  <2> DEFINE k == Stored(s, b)
             t == [k EXCEPT !.storing = @ \ {b}]
  <2>2. Fits(s, b) /\ s.blk = Nil /\ s.storing = {b}
    BY <1>1, <2>1 DEF NodeOK, Pending
  <2>3. NodeTyped(k) /\ Linked(k) /\ k.height > 0 /\ k.blk = Nil /\ k.storing = {b}
    BY <1>1, <2>2, StoredLinks
  <2>4. node' = [node EXCEPT ![n] = t]
    BY <2>1
  <2> HIDE DEF k
  <2>5. /\ NodeTyped(t) /\ t.chain = k.chain /\ t.height = k.height /\ t.prev = k.prev
        /\ t.blk = Nil /\ t.storing = {}
    BY <2>3 DEF NodeTyped, Fields
  <2> HIDE DEF t
  <2>6. NodeOK(t)
    BY <2>3, <2>5 DEF NodeOK, Linked, Below, Pending
  <2> QED
    BY <2>4, <2>6, OneNodeOK
<1>6. CASE SyncBlock(n)
  <2>1. PICK p \in Nodes : node' = [node EXCEPT ![n] = Synced(s, node[p].chain[s.sync.next])]
    BY <1>6 DEF SyncBlock
  <2>2. s.blk = Nil /\ s.storing = {}
    BY <1>1, <1>6 DEF SyncBlock, SyncExcludesRound, Settled, NodeOK, Pending
  <2> DEFINE t == Synced(s, node[p].chain[s.sync.next])
  <2>3. NodeOK(t)
    BY <1>1, <2>2, SyncedOK
  <2> HIDE DEF t
  <2> QED
    BY <2>1, <2>3, OneNodeOK DEF t
<1>7. CASE SyncTimeout(n)
  BY <1>1, <1>7, EndSyncTyped, OperationsKeep, KeepsOK, OneNodeOK DEF SyncTimeout
<1> QED
  BY <1>2, <1>3, <1>4, <1>5, <1>6, <1>7

\* Blockchain.Init finds height and hash of the latest block again.
LEMMA RestartedOK ==
  ASSUME NEW n \in Nodes, NodeOK(node[n]), NodeTyped(Restarted(n)) PROVE NodeOK(Restarted(n))
<1> DEFINE s == node[n]
           height == 1 + Cardinality(DOMAIN s.chain)
           t == Restarted(n)
<1>1. s.height \in Nat \ {0} /\ DOMAIN s.chain = 1 .. (s.height - 1)
  BY DEF NodeOK, NodeTyped, Linked
<1>2. height = s.height
  <2>1. ASSUME NEW k \in Nat \ {0} PROVE Cardinality(1 .. (k - 1)) = k - 1
    BY FS_Interval
  <2> QED
    BY <1>1, <2>1
<1>3. /\ t.chain = s.chain /\ t.height = height /\ t.blk = Nil /\ t.storing = {}
      /\ t.prev = IF height = 1 THEN Nil ELSE Hash(s.chain[height - 1])
  BY DEF Restarted, NodeInit
<1> HIDE DEF height, t
<1>4. t.prev = s.prev
  BY <1>2, <1>3 DEF NodeOK, Linked, Below
<1>5. NodeOK(t)
  BY <1>1, <1>2, <1>3, <1>4 DEF NodeOK, Linked, Below, Pending, t
<1> QED
  BY <1>5 DEF t

\* Crashes and restarts keep what is stored.
LEMMA EnvironmentOK ==
  ASSUME Typed, ChainsOK,
         \/ \E n \in Nodes : Crash(n) \/ Restart(n)
         \/ \E t \in Txs : NewTx(t)
         \/ NewInterval \/ UNCHANGED vars
  PROVE  ChainsOK'
<1>1. CASE node' = node
  BY <1>1 DEF ChainsOK
<1>2. ASSUME NEW n \in Nodes, Restart(n) PROVE ChainsOK'
  <2> DEFINE joined(p) == [node[p] EXCEPT !.peers = @ \cup {n}]
  <2>1. node' = [p \in Nodes |-> IF p = n THEN Restarted(n) ELSE IF p \in up THEN joined(p) ELSE node[p]]
    BY <1>2 DEF Restart
  <2>2. NodeOK(Restarted(n))
    <3>1. NodeTyped(node[n]) /\ IsFiniteSet(DOMAIN node[n].chain) /\ up \subseteq Nodes
      BY DEF Typed, NodesTyped, ChainsFinite, SetsTyped
    <3> QED
      BY <3>1, RestartedTyped, RestartedOK DEF ChainsOK
  <2>3. \A p \in Nodes : NodeOK(joined(p))
    <3>1. ASSUME NEW p \in Nodes PROVE NodeOK(joined(p))
      <4>1. NodeTyped(node[p]) /\ NodeOK(node[p])
        BY DEF Typed, NodesTyped, ChainsOK
      <4>2. NodeTyped(joined(p)) /\ Keeps(node[p], joined(p))
        BY <4>1 DEF NodeTyped, Fields, Keeps
      <4> HIDE DEF joined
      <4> QED
        BY <4>1, <4>2, KeepsOK
    <3> QED
      BY <3>1
  <2> HIDE DEF joined
  <2> QED
    BY <2>1, <2>2, <2>3 DEF ChainsOK
<1>3. ASSUME NEW t \in Txs, NewTx(t) PROVE ChainsOK'
  <2> DEFINE has(p) == [node[p] EXCEPT !.pool = @ \cup {t}]
  <2>1. node' = [p \in Nodes |-> has(p)]
    BY <1>3 DEF NewTx
  <2>2. ASSUME NEW p \in Nodes PROVE NodeOK(has(p))
    <3>1. NodeTyped(node[p]) /\ NodeOK(node[p])
      BY DEF Typed, NodesTyped, ChainsOK
    <3>2. NodeTyped(has(p)) /\ Keeps(node[p], has(p))
      BY <3>1 DEF NodeTyped, Fields, Keeps
    <3> HIDE DEF has
    <3> QED
      BY <3>1, <3>2, KeepsOK
  <2> HIDE DEF has
  <2> QED
    BY <2>1, <2>2 DEF ChainsOK
<1> QED
  BY <1>1, <1>2, <1>3 DEF Crash, NewInterval, vars

\* Every step keeps the chains linked.
LEMMA NextOK == ASSUME Prompt PROVE Typed /\ ChainsOK /\ SyncExcludesRound /\ [Next]_vars => ChainsOK'
BY TicksOK, LocalOK, DeliverOK, EnvironmentOK DEF Next

\* Whatever messages, timers, crashes and restarts do: as long as a verdict is
\* stored before the node's next step and no node is in a round while it
\* catches up, the storage of every node holds exactly the blocks below
\* NextHeight, each linked to the one before it, and a restart finds height
\* and hash again. Finality and sync() cannot count or link a block twice.
THEOREM LinkedChains == ASSUME Prompt PROVE Spec /\ []SyncExcludesRound => []ChainIsLinked
<1>1. ChainsOK => ChainIsLinked
  <2> SUFFICES ASSUME ChainsOK, NEW n \in Nodes
               PROVE  LET s == node[n]
                          below(h) == IF h = 1 THEN Nil ELSE Hash(s.chain[h - 1])
                      IN  /\ DOMAIN s.chain = 1 .. (s.height - 1)
                          /\ \A h \in DOMAIN s.chain : s.chain[h].height = h /\ s.chain[h].prev = below(h)
                          /\ s.prev = below(s.height)
    BY DEF ChainIsLinked
  <2> QED
    BY DEF ChainsOK, NodeOK, Linked, Below
<1>2. Typed /\ ChainsOK /\ SyncExcludesRound /\ [Next]_vars => ChainsOK'
  BY NextOK
<1> QED
  BY <1>1, <1>2, InitOK, TypedInvariant, PTL DEF Spec

-----------------------------------------------------------------------------
\* A block that fits is added to the storage of node n, and nothing else.
Extended(s, b) == [h \in DOMAIN s.chain \cup {b.height} |-> IF h = b.height THEN b ELSE s.chain[h]]
Added(n) ==
  /\ \E b : Fits(node[n], b) /\ node'[n].chain = Extended(node[n], b)
  /\ \A p \in Nodes \ {n} : node'[p].chain = node[p].chain
Adds == Kept \/ \E n \in Nodes : Added(n)

\* A block from a peer is added at the end of the chain, or nothing is.
LEMMA SyncedAdds ==
  ASSUME NEW s, NodeTyped(s), NEW b
  PROVE  \/ Synced(s, b).chain = s.chain
         \/ Fits(s, b) /\ Synced(s, b).chain = Extended(s, b)
<1> DEFINE e == Execute(s, b.txs)
           p == PushAccounts(e, Executed(s, b.txs))
           k == Stored(p, b)
           next == IF s.sync.next = s.sync.target THEN Nil ELSE [s.sync EXCEPT !.next = @ + 1]
           r == [k EXCEPT !.sync = next, !.pool = s.pool]
<1>1. NodeTyped(e) /\ e.chain = s.chain
  BY ExecuteTyped, OperationsKeep DEF Keeps
<1>2. NodeTyped(p) /\ p.chain = s.chain
  BY <1>1, PushTyped, OperationsKeep DEF Keeps
<1>3. \/ Synced(s, b) \in {EndSync(s), EndSync(e)}
      \/ Synced(s, b) = r /\ CheckBlockInfo(s, b)
  BY DEF Synced
<1>4. EndSync(s).chain = s.chain /\ EndSync(e).chain = s.chain
  BY <1>1, OperationsKeep DEF Keeps
<1> HIDE DEF e, p, next
<1>5. NodeTyped(k) /\ k.chain = Extended(s, b)
  BY <1>2, StoredTyped DEF NodeTyped, Fields, Stored, Extended
<1> HIDE DEF k
<1>6. r.chain = Extended(s, b)
  BY <1>5 DEF NodeTyped, Fields
<1> QED
  BY <1>3, <1>4, <1>6 DEF CheckBlockInfo, Fits

\* Only waitForFinality and sync() touch the storage, and both by one block
\* that follows the chain.
LEMMA NextAdds == Typed /\ ChainsOK /\ [Next]_vars => Adds
<1> SUFFICES ASSUME Typed, ChainsOK, [Next]_vars PROVE Adds
  OBVIOUS
<1>1. ASSUME NEW n \in Nodes, Store(n) PROVE Adds
  <2> DEFINE s == node[n]
  <2>1. NodeOK(s) /\ NodeTyped(s)
    BY DEF ChainsOK, NodeOK
  <2>2. PICK b \in s.storing : node' = [node EXCEPT ![n] = [Stored(s, b) EXCEPT !.storing = @ \ {b}]]
    BY <1>1 DEF Store
  <2> DEFINE k == Stored(s, b)
             t == [k EXCEPT !.storing = @ \ {b}]
  <2>3. Fits(s, b)
    BY <2>1, <2>2 DEF NodeOK, Pending
  <2>4. NodeTyped(k) /\ k.chain = Extended(s, b)
    BY <2>1, StoredTyped DEF NodeTyped, Fields, Stored, Extended
  <2>5. node' = [node EXCEPT ![n] = t]
    BY <2>2
  <2> HIDE DEF k
  <2>6. t.chain = Extended(s, b)
    BY <2>4 DEF NodeTyped, Fields
  <2> HIDE DEF t
  <2>7. Added(n)
    BY <2>3, <2>5, <2>6 DEF Added, Typed, NodesTyped
  <2> QED
    BY <2>7 DEF Adds
<1>2. ASSUME NEW n \in Nodes, SyncBlock(n) PROVE Adds
  <2> DEFINE s == node[n]
  <2>1. PICK p \in Nodes : node' = [node EXCEPT ![n] = Synced(s, node[p].chain[s.sync.next])]
    BY <1>2 DEF SyncBlock
  <2> DEFINE b == node[p].chain[s.sync.next]
             t == Synced(s, b)
  <2>2. t.chain = s.chain \/ (Fits(s, b) /\ t.chain = Extended(s, b))
    BY SyncedAdds DEF Typed, NodesTyped
  <2>3. node' = [node EXCEPT ![n] = t]
    BY <2>1
  <2> HIDE DEF t, b
  <2>4. CASE t.chain = s.chain
    BY <2>3, <2>4 DEF Adds, Kept, Typed, NodesTyped
  <2>5. CASE Fits(s, b) /\ t.chain = Extended(s, b)
    BY <2>3, <2>5 DEF Adds, Added, Typed, NodesTyped
  <2> QED
    BY <2>2, <2>4, <2>5
<1> QED
  BY <1>1, <1>2, TicksTyped, LocalTyped, DeliverTyped, EnvironmentTyped DEF Next, Adds

\* What a node has stored it keeps, whatever round, sync or restart comes
\* next, and it stores one block at a time.
Appends ==
  \A n \in Nodes : /\ \A h \in DOMAIN node[n].chain : node'[n].chain[h] = node[n].chain[h]
                   /\ DOMAIN node'[n].chain \in {DOMAIN node[n].chain, 1 .. node[n].height}
\* Storage only ever grows at its end, by one block that is linked to the
\* last one (Put in waitForFinality and sync).
THEOREM StorageAppends == ASSUME Prompt PROVE Spec /\ []SyncExcludesRound => [][Appends]_vars
<1>1. ChainsOK /\ Adds => Appends
  <2> SUFFICES ASSUME ChainsOK, Adds, NEW n \in Nodes
               PROVE  /\ \A h \in DOMAIN node[n].chain : node'[n].chain[h] = node[n].chain[h]
                      /\ DOMAIN node'[n].chain \in {DOMAIN node[n].chain, 1 .. node[n].height}
    BY DEF Appends
  <2>1. CASE node'[n].chain = node[n].chain
    BY <2>1
  <2>2. ASSUME NEW b, Fits(node[n], b), node'[n].chain = Extended(node[n], b)
        PROVE  /\ \A h \in DOMAIN node[n].chain : node'[n].chain[h] = node[n].chain[h]
               /\ DOMAIN node'[n].chain = 1 .. node[n].height
    <3>1. NodeOK(node[n])
      BY DEF ChainsOK
    <3>2. /\ node[n].height \in Nat \ {0} /\ b.height = node[n].height
          /\ DOMAIN node[n].chain = 1 .. (node[n].height - 1)
      BY <2>2, <3>1 DEF NodeOK, NodeTyped, Linked, Fits
    <3> QED
      BY <2>2, <3>2 DEF Extended
  <2> QED
    BY <2>1, <2>2 DEF Adds, Kept, Added
<1>2. Typed /\ ChainsOK /\ [Next]_vars => [Appends]_vars
  BY <1>1, NextAdds
<1>3. Typed /\ ChainsOK /\ SyncExcludesRound /\ [Next]_vars => ChainsOK'
  BY NextOK
<1> QED
  BY <1>2, <1>3, InitOK, TypedInvariant, PTL DEF Spec

-----------------------------------------------------------------------------
\* The longest of finitely many chains exists: a least set of nodes without
\* one would, after taking a node away, have one.
LEMMA LongestExists ==
  ASSUME NEW len \in [Nodes -> Nat]
  PROVE  \E n \in Nodes : \A p \in Nodes : len[p] <= len[n]
<1> DEFINE HasMax(A) == \E n \in A : \A p \in A : len[p] <= len[n]
           T == {A \in SUBSET Nodes : A # {} /\ ~HasMax(A)}
<1> SUFFICES ASSUME Nodes \in T PROVE FALSE
  BY ConsensusAssumption
<1>1. IsWellFoundedOn(StrictSubsetOrdering(Nodes), FiniteSubsetsOf(Nodes))
  BY FS_StrictSubsetOrderingWellFounded
<1>2. T \subseteq FiniteSubsetsOf(Nodes)
  BY FS_Subset, ConsensusAssumption DEF FiniteSubsetsOf
<1>3. T # {}
  OBVIOUS
<1> HIDE DEF T
<1>4. PICK A \in T : \A B \in T : ~(<<B, A>> \in StrictSubsetOrdering(Nodes))
  BY <1>1, <1>2, <1>3, WFMin
<1>5. A \in SUBSET Nodes /\ A # {} /\ ~HasMax(A)
  BY DEF T
<1>6. PICK x \in A : TRUE
  BY <1>5
<1> DEFINE B == A \ {x}
<1>7. <<B, A>> \in StrictSubsetOrdering(Nodes)
  BY <1>5, <1>6 DEF StrictSubsetOrdering
<1>8. B = {} \/ HasMax(B)
  BY <1>4, <1>5, <1>7 DEF T
<1>9. CASE B = {}
  BY <1>5, <1>6, <1>9
<1>10. CASE HasMax(B)
  <2>1. PICK y \in B : \A p \in B : len[p] <= len[y]
    BY <1>10
  <2>2. len[x] \in Nat /\ \A p \in A : len[p] \in Nat
    BY <1>5, <1>6
  <2>3. CASE len[x] <= len[y]
    BY <1>5, <2>1, <2>3
  <2>4. CASE len[y] <= len[x]
    BY <1>5, <1>6, <2>1, <2>2, <2>4
  <2> QED
    BY <2>1, <2>2, <2>3, <2>4
<1> QED
  BY <1>8, <1>9, <1>10

\* How many blocks a node has stored, and what HashesOf makes of them.
Stock(n) == node[n].height - 1
IsLongest(n) == n \in Nodes /\ \A p \in Nodes : Stock(p) <= Stock(n)

\* The number of stored blocks is the height of the last one.
LEMMA StockIsLength ==
  ASSUME ChainsOK, NEW n \in Nodes
  PROVE  /\ Stock(n) \in Nat /\ DOMAIN node[n].chain = 1 .. Stock(n)
         /\ Cardinality(DOMAIN node[n].chain) = Stock(n)
         /\ DOMAIN HashesOf(n) = 1 .. Stock(n) /\ Len(HashesOf(n)) = Stock(n)
         /\ HashesOf(n) \in Seq({Hash(node[n].chain[h]) : h \in DOMAIN node[n].chain})
         /\ \A h \in 1 .. Stock(n) : HashesOf(n)[h] = Hash(node[n].chain[h])
<1>1. Stock(n) \in Nat /\ DOMAIN node[n].chain = 1 .. Stock(n)
  BY DEF ChainsOK, NodeOK, NodeTyped, Linked, Stock
<1>2. ASSUME NEW k \in Nat PROVE Cardinality(1 .. k) = k
  BY FS_Interval
<1>3. Cardinality(DOMAIN node[n].chain) = Stock(n)
  BY <1>1, <1>2
<1>4. HashesOf(n) = [h \in 1 .. Stock(n) |-> Hash(node[n].chain[h])]
  BY <1>1 DEF HashesOf
<1>5. HashesOf(n) \in Seq({Hash(node[n].chain[h]) : h \in 1 .. Stock(n)}) /\ Len(HashesOf(n)) = Stock(n)
  BY <1>1, <1>4
<1> QED
  BY <1>1, <1>3, <1>4, <1>5

\* The ledger is the chain of any node that has the longest one.
LEMMA LongestIsLongest == ASSUME ChainsOK PROVE IsLongest(Longest)
<1> DEFINE len == [n \in Nodes |-> Stock(n)]
<1>1. len \in [Nodes -> Nat]
  BY StockIsLength
<1>2. PICK n \in Nodes : \A p \in Nodes : len[p] <= len[n]
  BY <1>1, LongestExists
<1>3. \A p \in Nodes : Cardinality(DOMAIN node[p].chain) <= Cardinality(DOMAIN node[n].chain)
  BY <1>2, StockIsLength
<1>4. /\ Longest \in Nodes
      /\ \A p \in Nodes : Cardinality(DOMAIN node[p].chain) <= Cardinality(DOMAIN node[Longest].chain)
  BY <1>3 DEF Longest
<1> QED
  BY <1>4, StockIsLength DEF IsLongest

\* The ledger is the chain of every node that has as many blocks.
LEMMA LedgerIs ==
  ASSUME ChainsOK, Agreement, NEW n, IsLongest(n)
  PROVE  HashesOf(Longest) = HashesOf(n)
<1>1. Longest \in Nodes /\ n \in Nodes /\ Stock(n) = Stock(Longest)
  <2>1. IsLongest(Longest)
    BY LongestIsLongest
  <2> DEFINE l == Longest
  <2> HIDE DEF l
  <2>2. l \in Nodes /\ n \in Nodes /\ Stock(l) \in Nat /\ Stock(n) \in Nat
    BY <2>1, StockIsLength DEF IsLongest, l
  <2>3. Stock(n) <= Stock(l) /\ Stock(l) <= Stock(n)
    BY <2>1 DEF IsLongest, l
  <2>4. Stock(n) = Stock(l)
    BY <2>2, <2>3
  <2> QED
    BY <2>2, <2>4 DEF l
<1>2. \A h \in 1 .. Stock(n) : Hash(node[n].chain[h]) = Hash(node[Longest].chain[h])
  BY <1>1, StockIsLength DEF Agreement
<1> QED
  BY <1>1, <1>2, StockIsLength DEF HashesOf

\* The same before and after a step.
LengthsAndLedger ==
  ChainsOK /\ Agreement =>
    /\ \A n \in Nodes :
         /\ Stock(n) \in Nat /\ DOMAIN node[n].chain = 1 .. Stock(n)
         /\ Cardinality(DOMAIN node[n].chain) = Stock(n)
         /\ HashesOf(n) = [h \in 1 .. Stock(n) |-> Hash(node[n].chain[h])]
    /\ \A n \in Nodes : IsLongest(n) => HashesOf(Longest) = HashesOf(n)
    /\ \E n \in Nodes : IsLongest(n)

\* This holds of the present state.
LEMMA LedgerNow == LengthsAndLedger
BY StockIsLength, LedgerIs, LongestIsLongest DEF LengthsAndLedger, IsLongest, HashesOf

\* And of the next one.
LEMMA LedgerThen == LengthsAndLedger'
BY LedgerNow, PTL

\* A step that leaves the storage alone leaves the ledger alone.
LEMMA KeptStutters ==
  ASSUME ChainsOK, ChainsOK', Agreement, Agreement', Kept
  PROVE  /\ HashesOf(Longest)' = HashesOf(Longest)
         /\ \A p \in Nodes : HashesOf(p)' = HashesOf(p)
<1>1. \A p \in Nodes : HashesOf(p)' = HashesOf(p)
  BY DEF Kept, HashesOf
<1>2. \A p \in Nodes : Stock(p)' = Stock(p)
  BY LedgerNow, LedgerThen DEF LengthsAndLedger, Kept
<1>3. PICK l \in Nodes : IsLongest(l)
  BY LedgerNow DEF LengthsAndLedger
<1>4. IsLongest(l)'
  BY <1>2, <1>3 DEF IsLongest
<1>5. HashesOf(Longest) = HashesOf(l)
  BY <1>3, LedgerNow DEF LengthsAndLedger
<1>6. HashesOf(Longest)' = HashesOf(l)'
  BY <1>4, LedgerThen DEF LengthsAndLedger
<1> QED
  BY <1>1, <1>5, <1>6

\* One more hash, as a function and as an appended sequence.
LEMMA AppendIsFunction ==
  ASSUME NEW S, NEW q \in Seq(S), NEW x \in S, NEW k, Len(q) = k
  PROVE  Append(q, x) = [h \in 1 .. (k + 1) |-> IF h = k + 1 THEN x ELSE q[h]]
<1> DEFINE r == [h \in 1 .. (k + 1) |-> IF h = k + 1 THEN x ELSE q[h]]
<1>1. k \in Nat
  OBVIOUS
<1>2. r \in Seq(S) /\ Len(r) = k + 1
  BY <1>1
<1>3. Append(q, x) \in Seq(S) /\ Len(Append(q, x)) = k + 1
  OBVIOUS
<1>4. \A h \in 1 .. (k + 1) : Append(q, x)[h] = r[h]
  BY <1>1
<1> QED
  BY <1>2, <1>3, <1>4, SeqEqual

\* A node that adds a block makes the ledger longer when it has all of it, and
\* follows the ledger when it has not.
LEMMA AddedSteps ==
  ASSUME Typed, ChainsOK, ChainsOK', Agreement, Agreement', NEW n \in Nodes, Added(n)
  PROVE  OneLedger!Commit(n) \/ OneLedger!Follow(n)
<1> DEFINE k == Stock(n)
           old == HashesOf(n)
<1>1. PICK b : Fits(node[n], b) /\ node'[n].chain = Extended(node[n], b)
  BY DEF Added
<1>2. k \in Nat /\ DOMAIN node[n].chain = 1 .. k /\ b.height = k + 1 /\ b.prev = Below(node[n], k + 1)
  BY <1>1, LedgerNow DEF LengthsAndLedger, ChainsOK, NodeOK, NodeTyped, Linked, Fits, Stock
<1>3. DOMAIN node'[n].chain = 1 .. (k + 1) /\ node'[n].chain[k + 1] = b
      /\ \A h \in 1 .. k : node'[n].chain[h] = node[n].chain[h]
  BY <1>1, <1>2 DEF Extended
<1>4. Stock(n)' = k + 1
  <2>1. ASSUME NEW i \in Nat PROVE Cardinality(1 .. i) = i
    BY FS_Interval
  <2>2. Cardinality(DOMAIN node'[n].chain) = k + 1
    BY <1>2, <1>3, <2>1
  <2> QED
    BY <2>2, LedgerThen DEF LengthsAndLedger
<1>5. \A p \in Nodes \ {n} : Stock(p)' = Stock(p) /\ HashesOf(p)' = HashesOf(p)
  BY LedgerNow, LedgerThen DEF LengthsAndLedger, Added, HashesOf
<1>6. old = [h \in 1 .. k |-> Hash(node[n].chain[h])]
  BY LedgerNow DEF LengthsAndLedger
<1>7. HashesOf(n)' = [h \in 1 .. (k + 1) |-> IF h = k + 1 THEN Hash(b) ELSE old[h]]
  BY <1>2, <1>3, <1>6 DEF HashesOf
<1> DEFINE S == {Hash(node[n].chain[h]) : h \in 1 .. k} \cup {Hash(b)}
<1> HIDE DEF k, old
<1>8. old \in Seq(S) /\ Hash(b) \in S /\ Len(old) = k
  BY <1>2, <1>6
<1> HIDE DEF S
<1>9. HashesOf(n)' = Append(old, Hash(b))
  BY <1>7, <1>8, AppendIsFunction
<1>10. PICK l \in Nodes : IsLongest(l)
  BY LedgerNow DEF LengthsAndLedger
<1>11. HashesOf(Longest) = HashesOf(l)
  BY <1>10, LedgerNow DEF LengthsAndLedger
<1>12. \A p \in Nodes : Stock(p) \in Nat /\ Stock(p)' \in Nat
  BY LedgerNow, LedgerThen DEF LengthsAndLedger
<1>13. CASE IsLongest(n)
  <2>1. HashesOf(Longest) = old
    BY <1>13, LedgerNow DEF LengthsAndLedger, old
  <2>2. IsLongest(n)'
    BY <1>4, <1>5, <1>12, <1>13 DEF IsLongest, k
  <2>3. HashesOf(Longest)' = HashesOf(n)'
    BY <2>2, LedgerThen DEF LengthsAndLedger
  <2>4. /\ Len(HashesOf(Longest)') = k + 1 /\ Len(HashesOf(Longest)) = k
        /\ HashesOf(Longest)'[k + 1] = Hash(b)
    BY <1>2, <1>8, <1>9, <2>1, <2>3
  <2>5. Hash(b).prev = IF HashesOf(Longest) = <<>> THEN Nil ELSE HashesOf(Longest)[Len(HashesOf(Longest))]
    <3>1. Hash(b).prev = IF k = 0 THEN Nil ELSE Hash(node[n].chain[k])
      BY <1>2 DEF Hash, Below
    <3>2. k # 0 => old[k] = Hash(node[n].chain[k])
      BY <1>2, <1>6
    <3>3. old = <<>> <=> k = 0
      BY <1>8
    <3> QED
      BY <2>1, <2>4, <3>1, <3>2, <3>3
  <2>6. OneLedger!Tip = IF HashesOf(Longest) = <<>> THEN Nil ELSE HashesOf(Longest)[Len(HashesOf(Longest))]
    BY DEF OneLedger!Tip
  <2>7. [p \in Nodes |-> HashesOf(p)]' = [[p \in Nodes |-> HashesOf(p)] EXCEPT ![n] = HashesOf(Longest)']
    BY <1>5, <2>3
  <2>8. HashesOf(Longest)' = Append(HashesOf(Longest), HashesOf(Longest)'[k + 1])
    BY <1>9, <2>1, <2>3, <2>4
  <2> QED
    BY <2>1, <2>4, <2>5, <2>6, <2>7, <2>8 DEF OneLedger!Commit, old
<1>14. CASE ~IsLongest(n)
  <2>1. k < Stock(l) /\ l # n /\ Stock(l) \in Nat
    <3>1. PICK p \in Nodes : ~(Stock(p) <= Stock(n))
      BY <1>14 DEF IsLongest
    <3> QED
      BY <1>10, <1>12, <3>1 DEF IsLongest, k
  <2>2. IsLongest(l)'
    BY <1>2, <1>4, <1>5, <1>10, <1>12, <2>1 DEF IsLongest
  <2>3. HashesOf(Longest)' = HashesOf(l)' /\ HashesOf(l)' = HashesOf(l)
    BY <1>5, <2>1, <2>2, LedgerThen DEF LengthsAndLedger
  <2>4. node'[l].chain = node[l].chain /\ DOMAIN node[l].chain = 1 .. Stock(l)
    BY <2>1, LedgerNow DEF LengthsAndLedger, Added
  <2>5. Hash(b) = Hash(node[l].chain[k + 1])
    BY <1>2, <1>3, <2>1, <2>4 DEF Agreement
  <2>6. HashesOf(l) = [h \in 1 .. Stock(l) |-> Hash(node[l].chain[h])]
    BY LedgerNow DEF LengthsAndLedger
  <2>7. Len(HashesOf(l)) = Stock(l) /\ HashesOf(l)[k + 1] = Hash(b)
    BY <1>2, <2>1, <2>5, <2>6
  <2>8. [p \in Nodes |-> HashesOf(p)]' =
          [[p \in Nodes |-> HashesOf(p)] EXCEPT ![n] = Append(old, HashesOf(Longest)[Len(old) + 1])]
    BY <1>5, <1>8, <1>9, <1>11, <2>7
  <2> QED
    BY <1>8, <1>11, <2>1, <2>3, <2>7, <2>8 DEF OneLedger!Follow, old
<1> QED
  BY <1>13, <1>14

\* A stored block is a new block of the ledger or a copy of one.
LEMMA StepImplements ==
  Typed /\ ChainsOK /\ ChainsOK' /\ Agreement /\ Agreement' /\ [Next]_vars
    => [OneLedger!Next]_(OneLedger!vars)
<1> SUFFICES ASSUME Typed, ChainsOK, ChainsOK', Agreement, Agreement', [Next]_vars
             PROVE  [OneLedger!Next]_(OneLedger!vars)
  OBVIOUS
<1>1. Adds
  BY NextAdds
<1>2. CASE Kept
  <2>1. /\ HashesOf(Longest)' = HashesOf(Longest)
        /\ \A p \in Nodes : HashesOf(p)' = HashesOf(p)
    BY <1>2, KeptStutters
  <2>2. [p \in Nodes |-> HashesOf(p)]' = [p \in Nodes |-> HashesOf(p)]
    BY <2>1
  <2> QED
    BY <2>1, <2>2 DEF OneLedger!vars
<1>3. ASSUME NEW n \in Nodes, Added(n) PROVE OneLedger!Next
  BY <1>3, AddedSteps DEF OneLedger!Next
<1> QED
  BY <1>1, <1>2, <1>3 DEF Adds

\* Empty storages are an empty ledger with empty copies.
LEMMA InitImplements == Init /\ ChainsOK => OneLedger!Init
<1> SUFFICES ASSUME Init, ChainsOK PROVE OneLedger!Init
  OBVIOUS
<1>1. \A n \in Nodes : HashesOf(n) = <<>>
  <2>1. \A n \in Nodes : node[n].chain = <<>>
    BY DEF Init, NodeInit
  <2> QED
    BY <2>1 DEF HashesOf
<1>2. Longest \in Nodes
  BY LongestIsLongest DEF IsLongest
<1> QED
  BY <1>1, <1>2 DEF OneLedger!Init

\* The committee protocol and sync implement one ledger wherever no two nodes
\* hold different blocks at one height: no store, sync, crash or restart does
\* anything else to a storage than adding the next block of the ledger.
THEOREM AgreementGivesLedger ==
  ASSUME Prompt PROVE Spec /\ []SyncExcludesRound /\ []Agreement => ImplementsLedger
<1>1. Typed /\ ChainsOK /\ SyncExcludesRound /\ [Next]_vars => ChainsOK'
  BY NextOK
<1> QED
  BY <1>1, InitOK, InitImplements, StepImplements, TypedInvariant, PTL
  DEF Spec, ImplementsLedger, OneLedger!Spec

-----------------------------------------------------------------------------
LP == INSTANCE LedgerProofs WITH
  ledger <- HashesOf(Longest), copy <- [n \in Nodes |-> HashesOf(n)], Nothing <- Nil

\* And the other way round: nodes that implement one ledger never disagree.
THEOREM LedgerGivesAgreement == ImplementsLedger => []Agreement
<1>1. LP!Inv => Agreement
  <2> SUFFICES ASSUME LP!Inv, NEW n \in Nodes, NEW p \in Nodes,
                      NEW h \in DOMAIN node[n].chain \cap DOMAIN node[p].chain
               PROVE  Hash(node[n].chain[h]) = Hash(node[p].chain[h])
    BY DEF Agreement
  <2> DEFINE copy == [x \in Nodes |-> HashesOf(x)]
             ledger == HashesOf(Longest)
  <2>1. PICK S : copy \in [Nodes -> Seq(S)]
    BY DEF LP!Inv, LP!Typed
  <2>2. \A x \in {n, p} : h \in 1 .. Len(copy[x])
    BY <2>1 DEF HashesOf
  <2>3. \A x \in {n, p} : copy[x][h] = ledger[h]
    BY <2>2 DEF LP!Inv, LP!CopiesAreBeginnings
  <2> QED
    BY <2>3 DEF HashesOf
<1>2. ImplementsLedger => LP!Spec
  BY DEF ImplementsLedger, OneLedger!Spec, LP!Spec, OneLedger!Init, LP!Init, OneLedger!Next, LP!Next,
         OneLedger!Commit, LP!Commit, OneLedger!Follow, LP!Follow, OneLedger!vars, LP!vars,
         OneLedger!Tip, LP!Tip
<1> QED
  BY <1>1, <1>2, LP!Invariance, PTL
=============================================================================
