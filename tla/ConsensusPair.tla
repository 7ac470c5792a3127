---------------------------- MODULE ConsensusPair ----------------------------
(***************************************************************************)
(* The committee protocol of two nodes on the timing that it is written    *)
(* for. Whatever transactions come, whatever fits into a message and       *)
(* however far the chain goes, the two nodes run the rounds together:      *)
(* between two rounds they have the same books (Calm), then one has        *)
(* proposed a block that the other will find right (Open), then the        *)
(* verdict is on its way to the proposer (Closing). Every safety property  *)
(* of Consensus follows from this phase invariant.                         *)
(***************************************************************************)
EXTENDS ConsensusProofs

-----------------------------------------------------------------------------
\* Two nodes on the timing the code is written for: messages arrive in order,
\* verdicts are settled before the next step, tickers fire together, and no
\* process dies.
InStep == Cardinality(Nodes) = 2 /\ Ordered /\ Prompt /\ Lockstep /\ MaxCrashes = 0
\* n and its peer o are the two nodes.
Pair(n, o) == n \in Nodes /\ o \in Nodes /\ n # o /\ Nodes = {n, o}

\* Every node has one peer.
LEMMA PeerExists == ASSUME InStep, NEW n \in Nodes PROVE \E o \in Nodes : Pair(n, o)
<1>1. IsFiniteSet(Nodes \ {n}) /\ Cardinality(Nodes \ {n}) = 1
  BY ConsensusAssumption, FS_RemoveElement DEF InStep
<1>2. PICK o : Nodes \ {n} = {o}
  BY <1>1, FS_Singleton
<1> QED
  BY <1>2 DEF Pair

\* The messages of a link that holds at most two.
LEMMA ShortQueues ==
  /\ \A b : <<>> \o <<b>> = <<b>> /\ RemoveAt(<<b>>, 1) = <<>> /\ <<b>> \o <<>> = <<b>>
  /\ <<>> \o <<>> = <<>>
  /\ \A b, c : <<b>> \o <<c>> = <<b, c>> /\ <<>> \o <<b, c>> = <<b, c>>
               /\ RemoveAt(<<b, c>>, 1) = <<c>> /\ <<b, c>> \o <<>> = <<b, c>>
<1>1. ASSUME NEW b PROVE <<>> \o <<b>> = <<b>> /\ <<b>> \o <<>> = <<b>>
  OBVIOUS
<1>2. ASSUME NEW b PROVE RemoveAt(<<b>>, 1) = <<>>
  BY DEF RemoveAt
<1>3. ASSUME NEW b, NEW c PROVE <<b>> \o <<c>> = <<b, c>>
  <2> DEFINE S == {b, c}
             q == <<b>>
             r == <<c>>
             w == <<b, c>>
  <2>1. q \in Seq(S) /\ r \in Seq(S) /\ w \in Seq(S)
    OBVIOUS
  <2>2. Len(q) = 1 /\ Len(r) = 1 /\ Len(w) = 2 /\ q[1] = b /\ r[1] = c /\ w[1] = b /\ w[2] = c
    OBVIOUS
  <2> HIDE DEF S, q, r, w
  <2>3. q \o r \in Seq(S) /\ Len(q \o r) = 2 /\ (q \o r)[1] = b /\ (q \o r)[2] = c
    BY <2>1, <2>2, ConcatProperties
  <2>4. \A i \in 1 .. 2 : (q \o r)[i] = w[i]
    BY <2>2, <2>3
  <2>5. q \o r = w
    BY <2>1, <2>2, <2>3, <2>4, SeqEqual
  <2> QED
    BY <2>5 DEF q, r, w
<1>4. ASSUME NEW b, NEW c PROVE <<>> \o <<b, c>> = <<b, c>> /\ <<b, c>> \o <<>> = <<b, c>>
  OBVIOUS
<1>5. ASSUME NEW b, NEW c PROVE RemoveAt(<<b, c>>, 1) = <<c>>
  <2> DEFINE S == {b, c}
             w == <<b, c>>
             r == <<c>>
             q == SubSeq(w, 2, 2)
  <2>1. w \in Seq(S) /\ Len(w) = 2 /\ w[2] = c /\ r \in Seq(S) /\ Len(r) = 1 /\ r[1] = c
    OBVIOUS
  <2> HIDE DEF w, S, r
  <2>2. q \in Seq(S) /\ Len(q) = 1 /\ q[1] = c
    BY <2>1
  <2>3. q = r
    BY <2>1, <2>2, SeqEqual
  <2>4. SubSeq(w, 1, 0) = <<>>
    BY <2>1
  <2>5. RemoveAt(w, 1) = <<>> \o q
    BY <2>1, <2>4 DEF RemoveAt
  <2>6. <<>> \o q = q
    BY <2>2
  <2> QED
    BY <2>3, <2>5, <2>6 DEF w, r
<1> QED
  BY <1>1, <1>2, <1>3, <1>4, <1>5

\* Two nodes hold different roles.
LEMMA RolesDiffer ==
  ASSUME InStep, NEW h \in Nat
  PROVE  /\ Nth(Nodes, h % 2) \in Nodes /\ Nth(Nodes, ((h % 2) + 1) % 2) \in Nodes
         /\ Nth(Nodes, h % 2) # Nth(Nodes, ((h % 2) + 1) % 2)
<1> DEFINE i == h % 2
           j == ((h % 2) + 1) % 2
<1>1. i \in 0 .. 1 /\ j \in 0 .. 1 /\ i # j
  OBVIOUS
<1> HIDE DEF i, j
<1>2. IsFiniteSet(Nodes) /\ Nodes \in SUBSET Nat /\ Cardinality(Nodes) = 2
  BY ConsensusAssumption DEF InStep
<1>3. i \in 0 .. Cardinality(Nodes) - 1 /\ j \in 0 .. Cardinality(Nodes) - 1
  BY <1>1, <1>2
<1>4. Nth(Nodes, i) \in Nodes /\ Cardinality({m \in Nodes : m < Nth(Nodes, i)}) = i
  BY <1>2, <1>3, NthExists
<1>5. Nth(Nodes, j) \in Nodes /\ Cardinality({m \in Nodes : m < Nth(Nodes, j)}) = j
  BY <1>2, <1>3, NthExists
<1> QED
  BY <1>1, <1>4, <1>5 DEF i, j

\* In order, only the first message of a link can arrive.
LEMMA FirstArrives ==
  ASSUME NetTyped, Ordered, NEW m \in Messages
  PROVE  /\ m.place = 1 /\ m.body = net[<<m.from, m.to>>][1]
         /\ net[<<m.from, m.to>>] # <<>>
<1> DEFINE Places(link) == IF Ordered THEN 1 .. Min({1, Len(net[link])}) ELSE DOMAIN net[link]
           On(link) == {[from |-> link[1], to |-> link[2], place |-> i, body |-> net[link][i]] :
                          i \in Places(link)}
<1>1. Messages = UNION {On(link) : link \in Nodes \X Nodes}
  BY DEF Messages
<1> HIDE DEF Places
<1>2. PICK link \in Nodes \X Nodes : m \in On(link)
  <2> HIDE DEF On
  <2> QED
    BY <1>1
<1>3. PICK i \in Places(link) :
        m = [from |-> link[1], to |-> link[2], place |-> i, body |-> net[link][i]]
  BY <1>2
<1>4. m.place \in 1 .. Min({1, Len(net[link])}) /\ link = <<m.from, m.to>>
  BY <1>3 DEF Places
<1>5. m.place \in DOMAIN net[link] /\ m.body = net[link][m.place]
  BY <1>4, MessageEnds
<1>6. PICK S : net[link] \in Seq(S)
  BY DEF NetTyped, Bodied
<1> DEFINE k == Len(net[link])
<1>7. k \in Nat /\ m.place \in 1 .. k
  BY <1>5, <1>6
<1>8. Min({1, k}) = 1
  <2>1. k >= 1 /\ 1 \in {1, k} /\ \A x \in {1, k} : 1 <= x
    BY <1>7
  <2> HIDE DEF k
  <2>2. Min({1, k}) \in {1, k} /\ \A x \in {1, k} : Min({1, k}) <= x
    BY <2>1 DEF Min
  <2> QED
    BY <1>7, <2>1, <2>2
<1>9. m.place = 1
  BY <1>4, <1>8
<1>10. net[link] # <<>>
  BY <1>5, <1>9
<1> QED
  BY <1>4, <1>5, <1>9, <1>10

-----------------------------------------------------------------------------
\* The messages on their way from x to y.
Link(x, y) == net[<<x, y>>]
\* The peers that Broadcast of n reaches are o alone.
Reaches(n, o) == Pair(n, o) /\ node[n].peers = Nodes \ {n}

\* The links of a pair, and the one that what n sends is put on.
LEMMA LinksOfPair ==
  ASSUME NEW n, NEW o, Reaches(n, o)
  PROVE  /\ o \in node[n].peers /\ n \notin node[n].peers /\ n # o
         /\ <<n, o>> \in Nodes \X Nodes /\ <<o, n>> \in Nodes \X Nodes
         /\ <<n, n>> \in Nodes \X Nodes /\ <<o, o>> \in Nodes \X Nodes
BY DEF Reaches, Pair

\* A tick of node n.
LEMMA BecomesPair ==
  ASSUME Typed, NEW n, NEW o, Reaches(n, o), NEW s, NEW msgs,
         Becomes(n, s, msgs)
  PROVE  /\ node'[n] = s /\ node'[o] = node[o]
         /\ Link(n, o)' = Link(n, o) \o msgs /\ Link(o, n)' = Link(o, n)
         /\ Link(n, n)' = Link(n, n) /\ Link(o, o)' = Link(o, o)
         /\ aged' \subseteq aged /\ (n \in aged' => s.fin = "live" /\ node[n].fin = "live")
<1>1. node'[n] = s /\ node'[o] = node[o]
  BY DEF Becomes, Typed, NodesTyped, Reaches, Pair
<1>2. /\ net'[<<n, o>>] = net[<<n, o>>] \o msgs /\ net'[<<o, n>>] = net[<<o, n>>]
      /\ net'[<<n, n>>] = net[<<n, n>>] /\ net'[<<o, o>>] = net[<<o, o>>]
  BY LinksOfPair DEF Becomes, Broadcast
<1>3. aged' \subseteq aged /\ (n \in aged' => s.fin = "live" /\ node[n].fin = "live")
  BY DEF Becomes
<1> QED
  BY <1>1, <1>2, <1>3 DEF Link

\* A handler of node n, for the message that its peer o sent first.
LEMMA HandlePair ==
  ASSUME Typed, NEW n, NEW o, Reaches(n, o), Ordered,
         NEW m \in Messages, m.from = o, m.to = n, NEW s, NEW msgs, Handle(m, s, msgs)
  PROVE  /\ node'[n] = s /\ node'[o] = node[o]
         /\ Link(n, o)' = Link(n, o) \o msgs /\ Link(o, n)' = RemoveAt(Link(o, n), 1)
         /\ Link(n, n)' = Link(n, n) /\ Link(o, o)' = Link(o, o)
         /\ aged' \subseteq aged /\ (n \in aged' => s.fin = "live" /\ node[n].fin = "live")
         /\ UNCHANGED <<up, crashes, ticked, sent>>
<1>1. node'[n] = s /\ node'[o] = node[o]
  BY DEF Handle, Typed, NodesTyped, Reaches, Pair
<1>2. m.place = 1
  BY FirstArrives DEF Typed
<1>3. /\ Taken(m)[<<n, o>>] = net[<<n, o>>] /\ Taken(m)[<<o, n>>] = RemoveAt(net[<<o, n>>], 1)
      /\ Taken(m)[<<n, n>>] = net[<<n, n>>] /\ Taken(m)[<<o, o>>] = net[<<o, o>>]
  BY <1>2 DEF Taken, Typed, NetTyped, Reaches, Pair
<1>4. net' = Broadcast(Taken(m), n, msgs)
  BY DEF Handle
<1>5. /\ net'[<<n, o>>] = Taken(m)[<<n, o>>] \o msgs /\ net'[<<o, n>>] = Taken(m)[<<o, n>>]
      /\ net'[<<n, n>>] = Taken(m)[<<n, n>>] /\ net'[<<o, o>>] = Taken(m)[<<o, o>>]
  <2> DEFINE w == Taken(m)
  <2> HIDE DEF w
  <2>1. net' = Broadcast(w, n, msgs)
    BY <1>4 DEF w
  <2>2. /\ net'[<<n, o>>] = w[<<n, o>>] \o msgs /\ net'[<<o, n>>] = w[<<o, n>>]
        /\ net'[<<n, n>>] = w[<<n, n>>] /\ net'[<<o, o>>] = w[<<o, o>>]
    BY <2>1, LinksOfPair DEF Broadcast
  <2> QED
    BY <2>2 DEF w
<1>6. aged' \subseteq aged /\ (n \in aged' => s.fin = "live" /\ node[n].fin = "live")
  BY DEF Handle
<1>7. UNCHANGED <<up, crashes, ticked, sent>>
  BY DEF Handle
<1> QED
  BY <1>1, <1>3, <1>5, <1>6, <1>7 DEF Link

-----------------------------------------------------------------------------
\* What a node has stored once the verdicts it has received are carried out,
\* and what the verdict it waits for would make of it.
After(s, keys, blocks) ==
  [mem |-> s.mem, sto |-> [t \in Txs |-> IF t \in keys THEN s.mem[t] ELSE s.sto[t]],
   chain |-> IF blocks = {} THEN s.chain ELSE Extended(s, CHOOSE b \in blocks : TRUE),
   height |-> IF blocks = {} THEN s.height ELSE s.height + 1]
Due(s) == After(s, UNION {v.keys : v \in s.settling}, s.storing)
Final(s) == After(s, s.acct.keys, {s.blk})

\* Accounts in storage are those of the last block, and those in memory.
TipPaid(d) ==
  d.height > 1 => \A t \in Txs : d.sto[t] = "paid" <=> d.chain[d.height - 1].state[t] = "paid"
MemPaid(d) == \A t \in Txs : d.mem[t] = "paid" <=> d.sto[t] = "paid"

\* The roles that two nodes take in turn.
Seated(s) ==
  /\ s.producer = Nth(Nodes, s.height % 2)
  /\ s.aggregator = Nth(Nodes, ((s.height % 2) + 1) % 2)

\* A node by itself: it has nothing against its peer and no reason to catch
\* up; it waits only for the verdict on a block of its own.
Clean(n, s) ==
  /\ s.bad = {} /\ s.sync = Nil /\ s.orphans = 0 /\ s.voted = 0 /\ s.votedOk = 0
  /\ s.peers = Nodes \ {n}
Own(n, s) ==
  /\ Clean(n, s)
  /\ s.validators # {} => Nodes \ {n} \subseteq s.validators
  /\ Ready(s) => s.validators = Nodes /\ Seated(s)
  /\ Waiting(s) => Ready(s) /\ s.producer = n /\ Settled(s)
  /\ ~Waiting(s) => s.acct = Nil /\ s.blk = Nil /\ MemPaid(Due(s))
  /\ ~Settled(s) => s.validators = {}
  /\ \A v \in s.settling : v.ok
  /\ TipPaid(Due(s))

\* t has the books, the round, the committee of s.
Books(s, t) ==
  /\ t.mem = s.mem /\ t.sto = s.sto /\ t.chain = s.chain /\ t.height = s.height
  /\ t.settling = s.settling /\ t.storing = s.storing
Round(s, t) ==
  /\ t.fin = s.fin /\ t.acct = s.acct /\ t.blk = s.blk /\ t.voted = s.voted /\ t.votedOk = s.votedOk
  /\ t.orphans = s.orphans /\ t.bad = s.bad /\ t.sync = s.sync /\ t.peers = s.peers
Office(s, t) ==
  /\ t.validators = s.validators /\ t.unready = s.unready
  /\ t.producer = s.producer /\ t.aggregator = s.aggregator

\* Nothing that the peer could notice distinguishes t from s.
Undisturbed(s, t) ==
  /\ Round(s, t) /\ Office(s, t) /\ Due(t) = Due(s)
  /\ Settled(s) => Books(s, t)
  /\ t.settling \subseteq s.settling

\* What is due depends on the books only.
LEMMA BooksDue == ASSUME NEW s, NEW t, Books(s, t) PROVE Due(t) = Due(s)
<1> DEFINE k == UNION {v.keys : v \in s.settling}
<1>1. k = UNION {v.keys : v \in t.settling}
  BY DEF Books
<1> HIDE DEF k
<1>2. Due(s) = After(s, k, s.storing)
  BY DEF Due, k
<1>3. Due(t) = After(t, k, s.storing)
  BY <1>1 DEF Due, Books
<1>4. \A b : Extended(t, b) = Extended(s, b)
  BY DEF Extended, Books
<1> QED
  BY <1>2, <1>3, <1>4 DEF After, Books

\* Nothing is due on a settled node but what it has.
LEMMA SettledDue ==
  ASSUME NEW s, NodeTyped(s), Settled(s)
  PROVE  /\ Due(s).mem = s.mem /\ Due(s).sto = s.sto /\ Due(s).chain = s.chain
         /\ Due(s).height = s.height
<1>1. UNION {v.keys : v \in s.settling} = {} /\ s.storing = {}
  BY DEF Settled
<1>2. Due(s) = After(s, {}, {})
  BY <1>1 DEF Due
<1>3. [t \in Txs |-> s.sto[t]] = s.sto
  BY DEF NodeTyped, Balances
<1> QED
  BY <1>2, <1>3 DEF After

\* An undisturbed node is as good as it was.
LEMMA UndisturbedOwn ==
  ASSUME NEW n \in Nodes, NEW s, NEW t, Own(n, s), Undisturbed(s, t) PROVE Own(n, t)
<1>1. Clean(n, t)
  BY DEF Own, Clean, Undisturbed, Round
<1>2. Waiting(t) = Waiting(s) /\ Ready(t) = Ready(s)
  BY DEF Waiting, Ready, Undisturbed, Round, Office
<1>3. t.validators = s.validators /\ t.acct = s.acct /\ t.blk = s.blk /\ t.producer = s.producer
  BY DEF Undisturbed, Round, Office
<1>4. Settled(s) => Settled(t)
  BY DEF Undisturbed, Books, Settled
<1>5. Ready(t) => t.validators = Nodes /\ Seated(t)
  <2> SUFFICES ASSUME Ready(t) PROVE t.validators = Nodes /\ Seated(t)
    OBVIOUS
  <2>1. s.validators = Nodes /\ Seated(s)
    BY <1>2 DEF Own
  <2>2. Settled(s)
    BY <2>1 DEF Own
  <2> QED
    BY <2>1, <2>2 DEF Undisturbed, Books, Office, Seated
<1>6. \A v \in t.settling : v.ok
  BY DEF Own, Undisturbed
<1>7. TipPaid(Due(t)) /\ (~Waiting(t) => MemPaid(Due(t)))
  BY <1>2 DEF Own, Undisturbed
<1> QED
  BY <1>1, <1>2, <1>3, <1>4, <1>5, <1>6, <1>7 DEF Own

-----------------------------------------------------------------------------
\* A queue of one message and one of two.
One(q) == q = <<q[1]>>
Two(q) == q = <<q[1], q[2]>>

\* Gossip of s that r may act on, a start message that r agrees with, and
\* what a waiting r passes over.
Current(s, r, g) ==
  g.type = "gossip" /\ ~g.syncing /\ g.height = Due(r).height /\ (g.ready => Ready(s))
Expected(r, g) ==
  g.type = "start" /\ Ready(r) /\ g.producer = r.producer /\ g.aggregator = r.aggregator
Harmless(r, g) == g.type = "gossip" \/ Expected(r, g)

\* Between two rounds: both nodes have, or are about to have, the same books,
\* and whoever believes its peer ready is right.
CalmLink(x, y) ==
  \/ Link(x, y) = <<>>
  \/ /\ x \in ticked /\ One(Link(x, y))
     /\ Current(node[x], node[y], Link(x, y)[1]) \/ Expected(node[y], Link(x, y)[1])
Trusts(x, y) == y \in node[x].validators /\ y \notin node[x].unready => Ready(node[y])
Calm(x, y) ==
  /\ ~Waiting(node[x]) /\ ~Waiting(node[y]) /\ Due(node[x]) = Due(node[y])
  /\ Trusts(x, y) /\ Trusts(y, x) /\ CalmLink(x, y) /\ CalmLink(y, x)

\* The block that s has proposed, as r will find it.
Drafted(s, r) ==
  /\ s.sto = r.sto /\ s.chain = r.chain /\ s.height = r.height
  /\ s.blk # Nil /\ s.mem = Execute(r, s.blk.txs).mem /\ s.blk.state = s.mem
  /\ s.acct = [keys |-> Executed(r, s.blk.txs)]

\* p has proposed: the proposal is on its way to q, or was too large for it.
Proposal(p, q) ==
  \/ Link(p, q) = <<>>
  \/ /\ node[p].fin = "live" /\ p \notin aged
     /\ \/ Link(p, q) = <<Propose(node[p].blk)>>
        \/ /\ Two(Link(p, q)) /\ Expected(node[q], Link(p, q)[1])
           /\ Link(p, q)[2] = Propose(node[p].blk)
Open(p, q) ==
  /\ Waiting(node[p]) /\ ~Waiting(node[q]) /\ Ready(node[q]) /\ Drafted(node[p], node[q])
  /\ Proposal(p, q)
  /\ \/ Link(q, p) = <<>>
     \/ q \in ticked /\ One(Link(q, p)) /\ Harmless(node[p], Link(q, p)[1])

\* q has accepted p's block: the verdict is on its way to p, before or after
\* what q's ticker sends.
Late(s, g) == g.type = "gossip" /\ ~g.syncing /\ ~g.ready /\ g.height = Due(s).height
Verdict(p, q) ==
  \/ Link(q, p) = <<Finality(TRUE)>>
  \/ /\ q \in ticked /\ Two(Link(q, p))
     /\ \/ Harmless(node[p], Link(q, p)[1]) /\ Link(q, p)[2] = Finality(TRUE)
        \/ Link(q, p)[1] = Finality(TRUE) /\ Late(node[q], Link(q, p)[2])
Closing(p, q) ==
  /\ node[p].fin = "live" /\ p \notin aged /\ ~Waiting(node[q]) /\ node[q].validators = {}
  /\ node[p].acct # Nil /\ node[p].blk # Nil /\ Final(node[p]) = Due(node[q])
  /\ Link(p, q) = <<>> /\ Verdict(p, q)

Phase(p, q) == Calm(p, q) \/ Open(p, q) \/ Closing(p, q)
PairInv ==
  /\ up = Nodes /\ crashes = 0
  /\ \A n \in Nodes : Own(n, node[n]) /\ Link(n, n) = <<>>
  /\ \E p, q \in Nodes : Pair(p, q) /\ Phase(p, q)

\* A state in which each node is undisturbed, the queues are as they were, no
\* ticker has been rewound and no timer has aged is in the phase it was in.
LEMMA UndisturbedPhase ==
  ASSUME NEW p, NEW q, Pair(p, q), Own(p, node[p]), Own(q, node[q]), Phase(p, q),
         Undisturbed(node[p], node'[p]), Undisturbed(node[q], node'[q]),
         Link(p, q)' = Link(p, q), Link(q, p)' = Link(q, p), ticked \subseteq ticked', aged' \subseteq aged
  PROVE  Phase(p, q)'
<1>1. ASSUME NEW x \in {p, q}
      PROVE  /\ Waiting(node'[x]) = Waiting(node[x]) /\ Ready(node'[x]) = Ready(node[x])
             /\ Due(node'[x]) = Due(node[x]) /\ Round(node[x], node'[x]) /\ Office(node[x], node'[x])
             /\ Settled(node[x]) => Books(node[x], node'[x])
  BY DEF Undisturbed, Waiting, Ready, Round, Office
<1>2. \A x, y \in {p, q} : \A g :
        /\ Current(node[x], node[y], g) => Current(node'[x], node'[y], g)
        /\ Expected(node[y], g) => Expected(node'[y], g)
        /\ Harmless(node[y], g) => Harmless(node'[y], g)
        /\ Late(node[y], g) => Late(node'[y], g)
  BY <1>1 DEF Current, Expected, Harmless, Late, Office
<1>3. CASE Calm(p, q)
  <2>1. Trusts(p, q)' /\ Trusts(q, p)'
    BY <1>1, <1>3 DEF Calm, Trusts, Office
  <2>2. CalmLink(p, q)' /\ CalmLink(q, p)'
    BY <1>2, <1>3 DEF Calm, CalmLink
  <2> QED
    BY <1>1, <1>3, <2>1, <2>2 DEF Calm, Phase
<1>4. CASE Open(p, q)
  <2>1. Settled(node[p]) /\ Settled(node[q])
    <3>1. node[q].validators # {}
      BY <1>4 DEF Open, Own, Pair
    <3> QED
      BY <1>4, <3>1 DEF Open, Own
  <2>2. Drafted(node'[p], node'[q])
    <3>1. \A txs : /\ Execute(node'[q], txs).mem = Execute(node[q], txs).mem
                   /\ Executed(node'[q], txs) = Executed(node[q], txs)
      BY <1>1, <2>1 DEF Books, Execute, Executed
    <3> QED
      BY <1>1, <1>4, <2>1, <3>1 DEF Open, Drafted, Books, Round
  <2>3. Proposal(p, q)'
    BY <1>1, <1>2, <1>4 DEF Open, Proposal, Round
  <2> QED
    BY <1>1, <1>2, <1>4, <2>2, <2>3 DEF Open, Phase
<1>5. CASE Closing(p, q)
  <2>1. Settled(node[p])
    BY <1>5 DEF Closing, Own, Waiting
  <2>2. Final(node'[p]) = Final(node[p])
    <3>1. \A b : Extended(node'[p], b) = Extended(node[p], b)
      BY <1>1, <2>1 DEF Books, Extended
    <3> QED
      BY <1>1, <2>1, <3>1 DEF Final, After, Books, Round
  <2>3. Verdict(p, q)'
    BY <1>2, <1>5 DEF Closing, Verdict
  <2> QED
    BY <1>1, <1>5, <2>2, <2>3 DEF Closing, Phase, Round, Office
<1> QED
  BY <1>3, <1>4, <1>5 DEF Phase

-----------------------------------------------------------------------------
\* A step that nobody could notice.
LEMMA UnnoticedStep ==
  ASSUME PairInv, UNCHANGED <<up, crashes>>, \A n \in Nodes : Undisturbed(node[n], node'[n]),
         \A x, y \in Nodes : Link(x, y)' = Link(x, y), ticked \subseteq ticked', aged' \subseteq aged
  PROVE  PairInv'
<1>1. PICK p \in Nodes, q \in Nodes : Pair(p, q) /\ Phase(p, q)
  BY DEF PairInv
<1>2. \A n \in Nodes : Own(n, node'[n])
  BY UndisturbedOwn DEF PairInv
<1>3. Phase(p, q)'
  BY <1>1, UndisturbedPhase DEF PairInv
<1> QED
  BY <1>1, <1>2, <1>3 DEF PairInv

\* waitForFinality of the executer carries out what was due.
LEMMA SettleUndisturbed ==
  ASSUME NEW s, NodeTyped(s), NEW v \in s.settling
  PROVE  Undisturbed(s, [PushAccounts(s, v.keys) EXCEPT !.settling = @ \ {v}])
<1> DEFINE sto == [x \in Txs |-> IF x \in v.keys THEN s.mem[x] ELSE s.sto[x]]
           t == [PushAccounts(s, v.keys) EXCEPT !.settling = @ \ {v}]
           K == UNION {w.keys : w \in s.settling}
           L == UNION {w.keys : w \in s.settling \ {v}}
<1>1. PushAccounts(s, v.keys) = [s EXCEPT !.sto = sto]
  BY DEF PushAccounts
<1> HIDE DEF sto
<1>2. /\ Round(s, t) /\ Office(s, t) /\ t.mem = s.mem /\ t.sto = sto /\ t.chain = s.chain
      /\ t.height = s.height /\ t.storing = s.storing /\ t.settling = s.settling \ {v}
  BY <1>1 DEF NodeTyped, Fields, Round, Office
<1> HIDE DEF t
<1>3. K = L \cup v.keys
  OBVIOUS
<1>4. UNION {w.keys : w \in t.settling} = L
  BY <1>2
<1> HIDE DEF K, L
<1>5. [x \in Txs |-> IF x \in L THEN t.mem[x] ELSE t.sto[x]] =
        [x \in Txs |-> IF x \in K THEN s.mem[x] ELSE s.sto[x]]
  BY <1>2, <1>3 DEF sto
<1>6. \A b : Extended(t, b) = Extended(s, b)
  BY <1>2 DEF Extended
<1>7. Due(s) = After(s, K, s.storing) /\ Due(t) = After(t, L, s.storing)
  BY <1>2, <1>4 DEF Due, K
<1>8. Due(t) = Due(s)
  BY <1>2, <1>5, <1>6, <1>7 DEF After
<1>9. ~Settled(s)
  BY DEF Settled
<1> QED
  BY <1>2, <1>8, <1>9 DEF Undisturbed, t

\* So does waitForFinality of the sync service.
LEMMA StoreUndisturbed ==
  ASSUME NEW s, NodeTyped(s), Pending(s), NEW b \in s.storing
  PROVE  Undisturbed(s, [Stored(s, b) EXCEPT !.storing = @ \ {b}])
<1> DEFINE t == [Stored(s, b) EXCEPT !.storing = @ \ {b}]
           K == UNION {w.keys : w \in s.settling}
<1>1. s.storing = {b}
  BY DEF Pending
<1>2. NodeTyped(Stored(s, b))
  BY StoredTyped
<1>3. LET k == Stored(s, b)
      IN  /\ Round(s, k) /\ Office(s, k) /\ k.mem = s.mem /\ k.sto = s.sto /\ k.chain = Extended(s, b)
          /\ k.height = s.height + 1 /\ k.storing = {b} /\ k.settling = s.settling
  BY <1>1 DEF NodeTyped, Fields, Stored, Extended, Round, Office
<1>4. /\ Round(s, t) /\ Office(s, t) /\ t.mem = s.mem /\ t.sto = s.sto /\ t.chain = Extended(s, b)
      /\ t.height = s.height + 1 /\ t.storing = {} /\ t.settling = s.settling
  BY <1>2, <1>3 DEF NodeTyped, Fields, Round, Office
<1> HIDE DEF t, K
<1>5. Due(s) = After(s, K, {b}) /\ Due(t) = After(t, K, {})
  BY <1>1, <1>4 DEF Due, K
<1>6. (CHOOSE c \in {b} : TRUE) = b
  OBVIOUS
<1>7. Due(t) = Due(s)
  BY <1>4, <1>5, <1>6 DEF After
<1>8. ~Settled(s)
  BY DEF Settled
<1> QED
  BY <1>4, <1>7, <1>8 DEF Undisturbed, t

\* Only the tick counter or the mempool has changed.
LEMMA TickUndisturbed ==
  ASSUME NEW s, NodeTyped(s)
  PROVE  /\ Undisturbed(s, s) /\ Undisturbed(s, Advance(s))
         /\ \A t, r : r = [s EXCEPT !.pool = @ \cup {t}] => Undisturbed(s, r)
<1>1. Books(s, s) /\ Round(s, s) /\ Office(s, s)
  BY DEF Books, Round, Office
<1>2. Books(s, Advance(s)) /\ Round(s, Advance(s)) /\ Office(s, Advance(s))
  BY DEF Advance, Books, Round, Office, NodeTyped, Fields
<1>3. ASSUME NEW t
      PROVE  LET r == [s EXCEPT !.pool = @ \cup {t}] IN Books(s, r) /\ Round(s, r) /\ Office(s, r)
  BY DEF Books, Round, Office, NodeTyped, Fields
<1>4. ASSUME NEW r, Books(s, r), Round(s, r), Office(s, r) PROVE Undisturbed(s, r)
  BY <1>4, BooksDue DEF Undisturbed, Books
<1> QED
  BY <1>1, <1>2, <1>3, <1>4

-----------------------------------------------------------------------------
\* The invariant of the pair, and what every step of a node may assume: its
\* types, its linked chain, its peer and its phase, seen from either side.
Steady == Typed /\ ChainsOK /\ PairInv

\* A node and its peer.
LEMMA NodeAndPeer ==
  ASSUME InStep, Steady, NEW n \in Nodes
  PROVE  /\ NodeTyped(node[n]) /\ NodeOK(node[n]) /\ Own(n, node[n]) /\ Link(n, n) = <<>>
         /\ \E o \in Nodes : Pair(n, o) /\ Reaches(n, o) /\ (Phase(n, o) \/ Phase(o, n))
<1>1. NodeTyped(node[n]) /\ NodeOK(node[n]) /\ Own(n, node[n]) /\ Link(n, n) = <<>>
  BY DEF Steady, Typed, NodesTyped, ChainsOK, PairInv
<1>2. PICK p \in Nodes, q \in Nodes : Pair(p, q) /\ Phase(p, q)
  BY DEF Steady, PairInv
<1>3. n = p \/ n = q
  BY <1>2 DEF Pair
<1>4. Pair(q, p)
  BY <1>2 DEF Pair
<1>5. \A o : Pair(n, o) => Reaches(n, o)
  BY <1>1 DEF Own, Clean, Reaches
<1> QED
  BY <1>1, <1>2, <1>3, <1>4, <1>5

\* The goroutines that wait for finality do what both nodes count on.
LEMMA SettleStorePair ==
  ASSUME InStep, Steady, NEW n \in Nodes, Settle(n) \/ Store(n) PROVE PairInv'
<1> DEFINE s == node[n]
<1>1. NodeTyped(s) /\ Pending(s) /\ Own(n, s)
  BY NodeAndPeer DEF NodeOK
<1>2. \A p \in Nodes : NodeTyped(node[p]) /\ DOMAIN node = Nodes
  BY DEF Steady, Typed, NodesTyped
<1>3. ASSUME NEW t, node' = [node EXCEPT ![n] = t], Undisturbed(s, t)
      PROVE  \A p \in Nodes : Undisturbed(node[p], node'[p])
  BY <1>2, <1>3, TickUndisturbed
<1>4. \E t : node' = [node EXCEPT ![n] = t] /\ Undisturbed(s, t)
  <2>1. CASE Settle(n)
    <3>1. PICK v \in s.settling :
            node' = [node EXCEPT ![n] =
                      [(IF v.ok THEN PushAccounts(s, v.keys) ELSE FetchAccounts(s, v.keys))
                         EXCEPT !.settling = @ \ {v}]]
      BY <2>1 DEF Settle
    <3>2. v.ok
      BY <1>1 DEF Own
    <3>3. node' = [node EXCEPT ![n] = [PushAccounts(s, v.keys) EXCEPT !.settling = @ \ {v}]]
      BY <3>1, <3>2
    <3> QED
      BY <1>1, <3>3, SettleUndisturbed
  <2>2. CASE Store(n)
    <3>1. PICK b \in s.storing : node' = [node EXCEPT ![n] = [Stored(s, b) EXCEPT !.storing = @ \ {b}]]
      BY <2>2 DEF Store
    <3> QED
      BY <1>1, <3>1, StoreUndisturbed
  <2> QED
    BY <2>1, <2>2
<1>5. UNCHANGED <<up, crashes, net, ticked, aged>>
  BY DEF Settle, Store
<1>6. \A x, y \in Nodes : Link(x, y)' = Link(x, y)
  BY <1>5 DEF Link
<1> QED
  BY <1>3, <1>4, <1>5, <1>6, UnnoticedStep DEF Steady

\* A new transaction is only a matter of the mempools.
LEMMA NewTxPair == ASSUME InStep, Steady, NEW t \in Txs, NewTx(t) PROVE PairInv'
<1>1. \A n \in Nodes : NodeTyped(node[n])
  BY DEF Steady, Typed, NodesTyped
<1>2. \A n \in Nodes : node'[n] = [node[n] EXCEPT !.pool = @ \cup {t}]
  BY DEF NewTx
<1>3. \A n \in Nodes : Undisturbed(node[n], node'[n])
  BY <1>1, <1>2, TickUndisturbed
<1>4. UNCHANGED <<up, crashes, net, ticked, aged>>
  BY DEF NewTx
<1>5. \A x, y \in Nodes : Link(x, y)' = Link(x, y)
  BY <1>4 DEF Link
<1> QED
  BY <1>3, <1>4, <1>5, UnnoticedStep DEF Steady

\* A queue of a typed network and nothing more.
LEMMA NothingSent ==
  ASSUME Typed, NEW x \in Nodes, NEW y \in Nodes PROVE Link(x, y) \o <<>> = Link(x, y)
<1>1. PICK S : net[<<x, y>>] \in Seq(S)
  BY DEF Typed, NetTyped, Bodied
<1> QED
  BY <1>1, ConcatEmptySeq DEF Link

\* A tick on which nothing is sent or decided.
LEMMA TickQuietPair ==
  ASSUME InStep, Steady, NEW n \in Nodes, TickPaused(n) \/ TickIdle(n) PROVE PairInv'
<1> DEFINE s == node[n]
<1>1. PICK o \in Nodes : Pair(n, o) /\ Reaches(n, o)
  BY NodeAndPeer
<1>2. NodeTyped(s) /\ NodeTyped(node[o]) /\ Typed
  BY NodeAndPeer DEF Steady
<1> DEFINE nothing == <<>>
<1>3. PICK t \in {s, Advance(s)} : Becomes(n, t, nothing)
  BY DEF TickPaused, TickIdle
<1> HIDE DEF nothing
<1>4. /\ node'[n] = t /\ node'[o] = node[o] /\ aged' \subseteq aged
      /\ Link(n, o)' = Link(n, o) \o nothing /\ Link(o, n)' = Link(o, n)
      /\ Link(n, n)' = Link(n, n) /\ Link(o, o)' = Link(o, o)
  BY <1>1, <1>2, <1>3, BecomesPair
<1>5. \A x \in Nodes : Undisturbed(node[x], node'[x])
  BY <1>1, <1>2, <1>4, TickUndisturbed DEF Pair
<1>6. \A x, y \in Nodes : Link(x, y)' = Link(x, y)
  <2>1. Link(n, o)' = Link(n, o)
    BY <1>2, <1>4, NothingSent DEF nothing
  <2> QED
    BY <1>1, <1>4, <2>1 DEF Pair
<1>7. UNCHANGED <<up, crashes>> /\ ticked \subseteq ticked'
  BY DEF TickPaused, TickIdle, Tick
<1> QED
  BY <1>4, <1>5, <1>6, <1>7, UnnoticedStep DEF Steady

\* An interval ends only with empty queues, so not before a verdict arrives.
LEMMA NewIntervalPair == ASSUME InStep, Steady, NewInterval PROVE PairInv'
<1>1. PICK p \in Nodes, q \in Nodes : Pair(p, q) /\ Phase(p, q)
  BY DEF Steady, PairInv
<1>2. UNCHANGED <<node, up, crashes, net>> /\ net = Quiet
  BY DEF NewInterval
<1>3. \A x, y \in Nodes : Link(x, y) = <<>> /\ Link(x, y)' = <<>>
  BY <1>2 DEF Quiet, Link
<1>4. Phase(p, q)'
  <2>1. CASE Calm(p, q)
    BY <1>1, <1>2, <1>3, <2>1 DEF Phase, Calm, CalmLink, Trusts
  <2>2. CASE Open(p, q)
    BY <1>1, <1>2, <1>3, <2>2 DEF Phase, Open, Proposal
  <2>3. ~Closing(p, q)
    <3>1. Link(q, p) = <<>>
      BY <1>1, <1>3
    <3> QED
      BY <3>1 DEF Closing, Verdict, Two
  <2> QED
    BY <1>1, <2>1, <2>2, <2>3 DEF Phase
<1> QED
  BY <1>1, <1>2, <1>4 DEF Steady, PairInv, Link

\* The timer fires only on a block that the peer could not read.
LEMMA TimerFirePair == ASSUME InStep, Steady, NEW n \in Nodes, TimerFire(n) PROVE PairInv'
<1> DEFINE s == node[n]
           t == [s EXCEPT !.fin = "dead"]
<1>1. PICK o \in Nodes : Pair(n, o) /\ Reaches(n, o) /\ (Phase(n, o) \/ Phase(o, n))
  BY NodeAndPeer
<1>2. s.fin = "live" /\ n \in aged /\ node' = [node EXCEPT ![n] = t]
      /\ aged' \subseteq aged /\ UNCHANGED <<up, crashes, net, ticked>>
  BY DEF TimerFire, InStep
<1>3. Waiting(s)
  BY <1>2 DEF Waiting
<1>4. Open(n, o) /\ Link(n, o) = <<>>
  <2>1. ~Calm(n, o) /\ ~Calm(o, n)
    BY <1>3 DEF Calm
  <2>2. ~Closing(n, o) /\ ~Closing(o, n) /\ ~Open(o, n)
    BY <1>2, <1>3 DEF Closing, Open
  <2>3. Open(n, o)
    BY <1>1, <2>1, <2>2 DEF Phase
  <2> QED
    BY <1>2, <2>3 DEF Open, Proposal
<1>5. NodeTyped(s) /\ Own(n, s) /\ Own(o, node[o])
  BY NodeAndPeer
<1>6. /\ Books(s, t) /\ Office(s, t) /\ t.fin = "dead" /\ t.acct = s.acct /\ t.blk = s.blk
      /\ t.voted = s.voted /\ t.votedOk = s.votedOk /\ t.orphans = s.orphans /\ t.bad = s.bad
      /\ t.sync = s.sync /\ t.peers = s.peers
  BY <1>5 DEF NodeTyped, Fields, Books, Office
<1>7. node'[n] = t /\ node'[o] = node[o]
  BY <1>1, <1>2 DEF Steady, Typed, NodesTyped, Pair
<1> HIDE DEF t
<1>8. Due(t) = Due(s) /\ Waiting(t) /\ (Ready(t) <=> Ready(s)) /\ (Settled(t) <=> Settled(s))
  BY <1>6, BooksDue DEF Waiting, Ready, Settled, Office, Books
<1>9. Own(n, t)
  <2>1. Clean(n, t)
    BY <1>5, <1>6 DEF Own, Clean
  <2>2. Seated(s) => Seated(t)
    BY <1>6 DEF Seated, Office, Books
  <2> QED
    BY <1>3, <1>5, <1>6, <1>8, <2>1, <2>2 DEF Own, Office, Books
<1>10. Open(n, o)'
  <2>1. Drafted(t, node[o])
    BY <1>4, <1>6 DEF Open, Drafted, Books
  <2>2. \A g : Harmless(s, g) => Harmless(t, g)
    BY <1>6, <1>8 DEF Harmless, Expected, Office
  <2>3. Link(n, o)' = <<>> /\ Link(o, n)' = Link(o, n)
    BY <1>2, <1>4 DEF Link
  <2> QED
    BY <1>2, <1>4, <1>7, <1>8, <2>1, <2>2, <2>3 DEF Open, Proposal
<1> QED
  BY <1>1, <1>2, <1>5, <1>7, <1>9, <1>10 DEF Steady, PairInv, Phase, Pair, Link

-----------------------------------------------------------------------------
\* When a ticker has something to do, its node waits for nothing and has sent
\* nothing in this interval but a verdict.
LEMMA TickPhases ==
  ASSUME InStep, Steady, NEW n, NEW o, Pair(n, o), Phase(n, o) \/ Phase(o, n),
         Tick(n), ~Paused(node[n])
  PROVE  /\ ~Waiting(node[n]) /\ Settled(node[n]) /\ UNCHANGED <<up, crashes>>
         /\ ticked' = ticked \cup {n}
         /\ \/ Calm(n, o) /\ Link(n, o) = <<>>
            \/ Open(o, n) /\ Link(n, o) = <<>>
            \/ Closing(o, n) /\ Link(n, o) = <<Finality(TRUE)>>
<1>1. /\ ~Waiting(node[n]) /\ Settled(node[n]) /\ UNCHANGED <<up, crashes>>
      /\ ticked' = ticked \cup {n} /\ n \notin ticked
  BY DEF Tick, Free, Paused, InStep
<1>2. ~Open(n, o) /\ ~Closing(n, o)
  BY <1>1 DEF Open, Closing, Waiting
<1>3. Calm(n, o) \/ Open(o, n) \/ Closing(o, n)
  BY <1>2 DEF Phase, Calm
<1> QED
  BY <1>1, <1>3 DEF Calm, CalmLink, Open, Closing, Verdict

\* A step of node n that leaves both nodes in good order and in some phase.
LEMMA StepPair ==
  ASSUME Steady, NEW n, NEW o, Pair(n, o), Own(n, node'[n]), node'[o] = node[o],
         Link(n, n)' = Link(n, n), Link(o, o)' = Link(o, o), UNCHANGED <<up, crashes>>,
         Phase(n, o)' \/ Phase(o, n)'
  PROVE  PairInv'
<1>1. Own(o, node'[o]) /\ Link(n, n) = <<>> /\ Link(o, o) = <<>>
  BY DEF Steady, PairInv, Pair
<1>2. \A x \in Nodes : Own(x, node'[x]) /\ Link(x, x)' = <<>>
  BY <1>1 DEF Pair
<1>3. \E p, q \in Nodes : Pair(p, q) /\ Phase(p, q)'
  BY DEF Pair
<1> QED
  BY <1>2, <1>3 DEF Steady, PairInv

\* The peer of an undisturbed node sees it as it was.
LEMMA SeenAlike ==
  ASSUME NEW s, NEW t, Undisturbed(s, t)
  PROVE  /\ Waiting(t) = Waiting(s) /\ Ready(t) = Ready(s) /\ Due(t) = Due(s)
         /\ t.validators = s.validators /\ t.unready = s.unready
         /\ t.producer = s.producer /\ t.aggregator = s.aggregator
         /\ \A r, g : /\ Current(r, s, g) <=> Current(r, t, g)
                      /\ Current(s, r, g) <=> Current(t, r, g)
         /\ \A g : (Expected(s, g) <=> Expected(t, g)) /\ (Harmless(s, g) <=> Harmless(t, g))
<1>1. Waiting(t) = Waiting(s) /\ Ready(t) = Ready(s) /\ Due(t) = Due(s)
  BY DEF Undisturbed, Round, Office, Waiting, Ready
<1> QED
  BY <1>1 DEF Undisturbed, Office, Current, Expected, Harmless

\* Gossip carries a height that is, or will be, that of the peer.
LEMMA TickGossipPair == ASSUME InStep, Steady, NEW n \in Nodes, TickGossip(n) PROVE PairInv'
<1> DEFINE s == node[n]
           t == Advance(s)
           g == Gossip(s)
           msgs == <<g>>
<1>1. PICK o \in Nodes : Pair(n, o) /\ Reaches(n, o) /\ (Phase(n, o) \/ Phase(o, n))
  BY NodeAndPeer
<1>2. NodeTyped(s) /\ Own(n, s) /\ Own(o, node[o]) /\ Typed
  BY NodeAndPeer DEF Steady
<1>3. Tick(n) /\ ~Paused(s) /\ Becomes(n, t, msgs)
  BY DEF TickGossip
<1>4. /\ ~Waiting(s) /\ Settled(s) /\ UNCHANGED <<up, crashes>> /\ ticked' = ticked \cup {n}
      /\ \/ Calm(n, o) /\ Link(n, o) = <<>>
         \/ Open(o, n) /\ Link(n, o) = <<>>
         \/ Closing(o, n) /\ Link(n, o) = <<Finality(TRUE)>>
  BY <1>1, <1>3, TickPhases
<1>5. Undisturbed(s, t) /\ Own(n, t)
  BY <1>2, TickUndisturbed, UndisturbedOwn
<1>6. g.type = "gossip" /\ ~g.syncing /\ g.height = Due(t).height /\ (g.ready <=> Ready(s))
  <2>1. g.type = "gossip" /\ ~g.syncing /\ g.height = s.height /\ (g.ready <=> Ready(s))
    BY <1>2 DEF Gossip, Syncing, Own, Clean
  <2>2. Due(t).height = s.height
    BY <1>2, <1>4, <1>5, SettledDue, SeenAlike
  <2> QED
    BY <2>1, <2>2
<1> HIDE DEF msgs
<1>7. /\ node'[n] = t /\ node'[o] = node[o] /\ aged' \subseteq aged
      /\ Link(n, o)' = Link(n, o) \o msgs /\ Link(o, n)' = Link(o, n)
      /\ Link(n, n)' = Link(n, n) /\ Link(o, o)' = Link(o, o)
  BY <1>1, <1>2, <1>3, BecomesPair
<1> HIDE DEF t, g
<1>8. CASE Calm(n, o) /\ Link(n, o) = <<>>
  <2>1. Link(n, o)' = <<g>> /\ n \in ticked'
    BY <1>4, <1>7, <1>8, ShortQueues DEF msgs
  <2>2. Current(t, node[o], g)
    BY <1>5, <1>6, <1>8, SeenAlike DEF Current, Calm
  <2>3. CalmLink(n, o)'
    BY <1>7, <2>1, <2>2 DEF CalmLink, One
  <2>4. CalmLink(o, n)'
    BY <1>4, <1>5, <1>7, <1>8, SeenAlike DEF CalmLink, Calm
  <2>5. Trusts(n, o)' /\ Trusts(o, n)'
    BY <1>5, <1>7, <1>8, SeenAlike DEF Trusts, Calm
  <2>6. Calm(n, o)'
    BY <1>5, <1>7, <1>8, <2>3, <2>4, <2>5, SeenAlike DEF Calm
  <2> QED
    BY <1>1, <1>4, <1>5, <1>7, <2>6, StepPair DEF Phase
<1>9. CASE Open(o, n) /\ Link(n, o) = <<>>
  <2>1. Link(n, o)' = <<g>> /\ n \in ticked'
    BY <1>4, <1>7, <1>9, ShortQueues DEF msgs
  <2>2. Drafted(node[o], t)
    <3>1. Books(s, t)
      BY <1>4, <1>5 DEF Undisturbed
    <3>2. \A txs : Execute(t, txs).mem = Execute(s, txs).mem /\ Executed(t, txs) = Executed(s, txs)
      BY <1>2, <3>1 DEF Books, Execute, Executed, NodeTyped, Fields
    <3> QED
      BY <1>9, <3>1, <3>2 DEF Open, Drafted, Books
  <2>3. Proposal(o, n)'
    BY <1>5, <1>7, <1>9, SeenAlike DEF Open, Proposal
  <2>4. Harmless(node[o], g)
    BY <1>6 DEF Harmless
  <2>5. Open(o, n)'
    BY <1>5, <1>7, <1>9, <2>1, <2>2, <2>3, <2>4, SeenAlike DEF Open, One
  <2> QED
    BY <1>1, <1>4, <1>5, <1>7, <2>5, StepPair DEF Phase
<1>10. CASE Closing(o, n) /\ Link(n, o) = <<Finality(TRUE)>>
  <2>1. Link(n, o)' = <<Finality(TRUE), g>> /\ n \in ticked'
    BY <1>4, <1>7, <1>10, ShortQueues DEF msgs
  <2>2. ~Ready(s)
    BY <1>2, <1>10 DEF Own, Closing
  <2>3. Late(t, g)
    BY <1>6, <2>2 DEF Late
  <2>4. Verdict(o, n)'
    BY <1>7, <2>1, <2>3 DEF Verdict, Two
  <2>5. Closing(o, n)'
    BY <1>5, <1>7, <1>10, <2>4, SeenAlike DEF Closing
  <2> QED
    BY <1>1, <1>4, <1>5, <1>7, <2>5, StepPair DEF Phase
<1> QED
  BY <1>4, <1>8, <1>9, <1>10

-----------------------------------------------------------------------------
\* A node that has decided its committee has nothing left to settle.
LEMMA ReadyIsSettled ==
  ASSUME NEW n \in Nodes, NEW s, Own(n, s), Ready(s)
  PROVE  Settled(s) /\ Seated(s) /\ s.validators = Nodes
BY DEF Own

\* Once both nodes are validators, the height alone decides the committee.
LEMMA DecidedPair ==
  ASSUME InStep, Steady, NEW n, NEW o, Pair(n, o), node[n].validators # {}
  PROVE  LET s == node[n]
             d == Decided(n)
         IN  /\ NodeTyped(d) /\ d.validators = Nodes /\ Ready(d) /\ Seated(d)
             /\ Books(s, d) /\ Round(s, d) /\ d.unready = s.unready /\ d.prev = s.prev
<1> DEFINE s == node[n]
           v == [s EXCEPT !.validators = @ \cup {n}]
           d == Decided(n)
<1>1. n \in Nodes /\ NodeTyped(s) /\ Own(n, s)
  BY NodeAndPeer DEF Pair
<1>2. s.validators \cup {n} = Nodes
  BY <1>1 DEF Own, NodeTyped
<1>3. /\ v.validators = Nodes /\ Books(s, v) /\ Round(s, v) /\ v.unready = s.unready
      /\ v.prev = s.prev /\ NodeTyped(v)
  BY <1>1, <1>2 DEF NodeTyped, Fields, Books, Round
<1>4. d = DecideCommittee(v)
  BY DEF Decided
<1> HIDE DEF v, d
<1> DEFINE a == Nth(Nodes, v.height % 2)
           b == Nth(Nodes, ((v.height % 2) + 1) % 2)
<1>5. d = [v EXCEPT !.producer = a, !.aggregator = b]
  BY <1>3, <1>4 DEF DecideCommittee, InStep
<1>6. a \in Nodes /\ b \in Nodes /\ NodeTyped(d)
  <2>1. v.height \in Nat /\ v.validators # {}
    BY <1>1, <1>3 DEF NodeTyped
  <2> QED
    BY <1>3, <1>4, <2>1, RolesDiffer, DecideTyped
<1> HIDE DEF a, b
<1>7. /\ d.validators = Nodes /\ Books(s, d) /\ Round(s, d) /\ d.unready = s.unready /\ d.prev = s.prev
      /\ d.producer = a /\ d.aggregator = b /\ d.height = v.height
  BY <1>3, <1>5 DEF NodeTyped, Fields, Books, Round
<1>8. Ready(d) /\ Seated(d)
  BY <1>6, <1>7, NoneIsNoNode DEF Ready, Seated, a, b
<1> QED
  BY <1>6, <1>7, <1>8 DEF d

\* t is s with its committee decided, perhaps once more.
Redecided(s, t) ==
  /\ Books(s, t) /\ Round(s, t) /\ t.unready = s.unready /\ t.validators = Nodes
  /\ Ready(t) /\ Seated(t)

\* A committee that is decided again is the same one.
LEMMA SeenRedecided ==
  ASSUME NEW n \in Nodes, NEW s, NEW t, Own(n, s), Redecided(s, t), ~Waiting(s), Settled(s)
  PROVE  /\ Own(n, t) /\ ~Waiting(t) /\ Due(t) = Due(s)
         /\ \A r, g : /\ Current(r, s, g) => Current(r, t, g)
                      /\ Current(s, r, g) => Current(t, r, g)
         /\ \A g : (Expected(s, g) => Expected(t, g)) /\ (Harmless(s, g) => Harmless(t, g))
<1>1. Due(t) = Due(s)
  BY BooksDue DEF Redecided
<1>2. ~Waiting(t) /\ Settled(t)
  BY DEF Redecided, Round, Books, Waiting, Settled
<1>3. Clean(n, t)
  BY DEF Redecided, Round, Own, Clean
<1>4. t.acct = Nil /\ t.blk = Nil /\ MemPaid(Due(t)) /\ TipPaid(Due(t)) /\ t.settling = s.settling
  BY <1>1 DEF Own, Redecided, Round, Books
<1>5. Own(n, t)
  BY <1>2, <1>3, <1>4 DEF Own, Redecided
<1>6. Ready(s) => t.producer = s.producer /\ t.aggregator = s.aggregator
  <2>1. Ready(s) => Seated(s)
    BY DEF Own
  <2> QED
    BY <2>1 DEF Redecided, Seated, Books
<1> QED
  BY <1>1, <1>2, <1>5, <1>6 DEF Current, Expected, Harmless, Redecided

\* Tick 2 of a node that has heard from its peer: the start message is what
\* the peer expects.
LEMMA DecidePhases ==
  ASSUME InStep, Steady, NEW n, NEW o, Pair(n, o), Phase(n, o) \/ Phase(o, n),
         Tick(n), ~Paused(node[n]), node[n].tick = 2
  PROVE  /\ NodeTyped(Decided(n)) /\ Redecided(node[n], Decided(n)) /\ Decided(n).prev = node[n].prev
         /\ \/ /\ Calm(n, o) /\ Link(n, o) = <<>>
               /\ Starts(n) => /\ Expected(node[o], Start(Decided(n))) /\ Ready(node[o])
                               /\ Settled(node[o]) /\ node[o].height = node[n].height
            \/ /\ Open(o, n) /\ Link(n, o) = <<>> /\ Expected(node[o], Start(Decided(n)))
               /\ Decided(n).producer = o
<1> DEFINE s == node[n]
           d == Decided(n)
           r == node[o]
<1>1. /\ ~Waiting(s) /\ Settled(s)
      /\ \/ Calm(n, o) /\ Link(n, o) = <<>>
         \/ Open(o, n) /\ Link(n, o) = <<>>
         \/ Closing(o, n) /\ Link(n, o) = <<Finality(TRUE)>>
  BY TickPhases
<1>2. s.validators # {}
  BY DEF Paused
<1>3. /\ NodeTyped(s) /\ Own(n, s) /\ NodeTyped(r) /\ Own(o, r) /\ o \in Nodes /\ n \in Nodes
  BY NodeAndPeer DEF Pair
<1>4. NodeTyped(d) /\ Redecided(s, d) /\ d.prev = s.prev
  BY <1>2, DecidedPair DEF Redecided
<1> HIDE DEF d
<1>5. ASSUME Ready(r), r.height = s.height
      PROVE  Expected(r, Start(d)) /\ d.producer = r.producer
  <2>1. Seated(r) /\ Seated(d) /\ d.height = r.height
    BY <1>3, <1>4, <1>5, ReadyIsSettled DEF Redecided, Books
  <2>2. d.producer = r.producer /\ d.aggregator = r.aggregator
    BY <2>1 DEF Seated
  <2> QED
    BY <1>5, <2>2 DEF Expected, Start
<1>6. CASE Calm(n, o) /\ Link(n, o) = <<>>
  <2> SUFFICES ASSUME Starts(n)
               PROVE  Expected(r, Start(d)) /\ Ready(r) /\ Settled(r) /\ r.height = s.height
    BY <1>4, <1>6 DEF d
  <2>1. o \in s.validators /\ o \notin s.unready
    BY <1>2, <1>3 DEF Own, Starts, AllPeerReady, Pair
  <2>2. Ready(r)
    BY <1>6, <2>1 DEF Calm, Trusts
  <2>3. Settled(r)
    BY <1>3, <2>2, ReadyIsSettled
  <2>4. r.height = s.height
    BY <1>1, <1>3, <1>6, <2>3, SettledDue DEF Calm
  <2> QED
    BY <1>5, <2>2, <2>3, <2>4
<1>7. CASE Open(o, n) /\ Link(n, o) = <<>>
  <2>1. Ready(r) /\ r.producer = o /\ r.height = s.height
    BY <1>3, <1>7 DEF Own, Open, Drafted
  <2> QED
    BY <1>4, <1>5, <1>7, <2>1 DEF d
<1>8. ~Closing(o, n)
  BY <1>2 DEF Closing
<1> QED
  BY <1>1, <1>6, <1>7, <1>8

\* Deciding the committee, with or without a start message.
LEMMA TickDecidePair == ASSUME InStep, Steady, NEW n \in Nodes, TickDecide(n) PROVE PairInv'
<1> DEFINE s == node[n]
           d == Decided(n)
           t == Advance(d)
           msgs == IF Starts(n) THEN <<Start(d)>> ELSE <<>>
<1>1. PICK o \in Nodes : Pair(n, o) /\ Reaches(n, o) /\ (Phase(n, o) \/ Phase(o, n))
  BY NodeAndPeer
<1>2. NodeTyped(s) /\ Own(n, s) /\ Own(o, node[o]) /\ Typed
  BY NodeAndPeer DEF Steady
<1>3. Tick(n) /\ ~Paused(s) /\ s.tick = 2 /\ Becomes(n, t, msgs)
  BY DEF TickDecide
<1>4. ~Waiting(s) /\ Settled(s) /\ UNCHANGED <<up, crashes>> /\ ticked' = ticked \cup {n}
  BY <1>1, <1>3, TickPhases
<1>5. /\ NodeTyped(d) /\ Redecided(s, d)
      /\ \/ /\ Calm(n, o) /\ Link(n, o) = <<>>
            /\ Starts(n) => Expected(node[o], Start(d))
         \/ /\ Open(o, n) /\ Link(n, o) = <<>> /\ Expected(node[o], Start(d))
  BY <1>1, <1>3, DecidePhases
<1> HIDE DEF msgs
<1>6. /\ node'[n] = t /\ node'[o] = node[o] /\ aged' \subseteq aged
      /\ Link(n, o)' = Link(n, o) \o msgs /\ Link(o, n)' = Link(o, n)
      /\ Link(n, n)' = Link(n, n) /\ Link(o, o)' = Link(o, o)
  BY <1>1, <1>2, <1>3, BecomesPair
<1> HIDE DEF d
<1>7. Redecided(s, t)
  BY <1>5 DEF Redecided, Advance, NodeTyped, Fields, Books, Round, Ready, Seated
<1> HIDE DEF t
<1>8. Own(n, t) /\ ~Waiting(t) /\ Due(t) = Due(s)
  BY <1>2, <1>4, <1>7, SeenRedecided
<1>9. /\ \A g : Current(node[o], s, g) => Current(node[o], t, g)
      /\ \A g : (Expected(s, g) => Expected(t, g)) /\ (Harmless(s, g) => Harmless(t, g))
  BY <1>2, <1>4, <1>7, SeenRedecided
<1>10. Link(n, o)' = <<>> \/ (One(Link(n, o)') /\ Link(n, o)'[1] = Start(d) /\ Starts(n))
  <2>1. Link(n, o)' = <<>> \/ (Link(n, o)' = <<Start(d)>> /\ Starts(n))
    BY <1>5, <1>6, ShortQueues DEF msgs
  <2> QED
    BY <2>1 DEF One
<1>11. CASE Calm(n, o) /\ (Starts(n) => Expected(node[o], Start(d)))
  <2>1. CalmLink(n, o)'
    BY <1>4, <1>6, <1>10, <1>11 DEF CalmLink
  <2>2. CalmLink(o, n)'
    BY <1>4, <1>6, <1>9, <1>11 DEF CalmLink, Calm
  <2>3. Trusts(n, o)' /\ Trusts(o, n)'
    <3>1. o \in s.validators
      BY <1>1, <1>2, <1>3 DEF Own, Paused, Pair
    <3> QED
      BY <1>6, <1>7, <1>11, <3>1 DEF Trusts, Calm, Redecided
  <2>4. Calm(n, o)'
    BY <1>6, <1>8, <1>11, <2>1, <2>2, <2>3 DEF Calm
  <2> QED
    BY <1>1, <1>4, <1>6, <1>8, <2>4, StepPair DEF Phase
<1>12. CASE Open(o, n) /\ Expected(node[o], Start(d))
  <2>1. Drafted(node[o], t)
    <3>1. Books(s, t)
      BY <1>7 DEF Redecided
    <3>2. \A txs : Execute(t, txs).mem = Execute(s, txs).mem /\ Executed(t, txs) = Executed(s, txs)
      BY <1>2, <3>1 DEF Books, Execute, Executed, NodeTyped, Fields
    <3> QED
      BY <1>12, <3>1, <3>2 DEF Open, Drafted, Books
  <2>2. Proposal(o, n)'
    BY <1>6, <1>9, <1>12 DEF Open, Proposal
  <2>3. Open(o, n)'
    BY <1>4, <1>6, <1>7, <1>8, <1>10, <1>12, <2>1, <2>2 DEF Open, Harmless, Redecided
  <2> QED
    BY <1>1, <1>4, <1>6, <1>8, <2>3, StepPair DEF Phase
<1> QED
  BY <1>5, <1>11, <1>12

\* What executing does to the memory depends on memory and storage only.
LEMMA ExecuteAlike ==
  ASSUME NEW s, NEW r, NodeTyped(s), NodeTyped(r), s.mem = r.mem, s.sto = r.sto, NEW txs
  PROVE  Execute(s, txs).mem = Execute(r, txs).mem /\ Executed(s, txs) = Executed(r, txs)
BY DEF Execute, Executed, NodeTyped, Fields

\* No block and no set of executed accounts is nil.
LEMMA BlockIsSome ==
  /\ \A a, b, c, d, e : [height |-> a, by |-> b, txs |-> c, prev |-> d, state |-> e] # Nil
  /\ \A k : [keys |-> k] # Nil
<1>1. DOMAIN Nil = {"nil"}
  BY DEF Nil
<1>2. ASSUME NEW k PROVE DOMAIN [keys |-> k] = {"keys"}
  OBVIOUS
<1>3. ASSUME NEW a, NEW b, NEW c, NEW d, NEW e
      PROVE  "by" \in DOMAIN [height |-> a, by |-> b, txs |-> c, prev |-> d, state |-> e]
  OBVIOUS
<1> QED
  BY <1>1, <1>2, <1>3

\* The record of a node that has just proposed.
LEMMA ProposedRecord ==
  ASSUME NEW d, NodeTyped(d), d.fin = "none", NEW b, NEW txs
  PROVE  LET t == Advance(StartTimer(Proposed(d, b, txs)))
         IN  /\ t.mem = Execute(d, txs).mem /\ t.sto = d.sto /\ t.chain = d.chain
             /\ t.height = d.height /\ t.settling = d.settling /\ t.storing = d.storing
             /\ t.fin = "live" /\ t.blk = b /\ t.acct = [keys |-> Executed(d, txs)]
             /\ t.voted = d.voted /\ t.votedOk = d.votedOk /\ t.orphans = d.orphans
             /\ t.bad = d.bad /\ t.sync = d.sync /\ t.peers = d.peers
             /\ t.validators = d.validators /\ t.unready = d.unready
             /\ t.producer = d.producer /\ t.aggregator = d.aggregator /\ NodeTyped(t)
<1> DEFINE e == Execute(d, txs)
           keys == [keys |-> Executed(d, txs)]
           p == Proposed(d, b, txs)
           u == StartTimer(p)
           t == Advance(u)
<1>1. NodeTyped(e) /\ NodeTyped(p) /\ NodeTyped(u) /\ NodeTyped(t)
  BY ExecuteTyped, ProposedTyped, StartTimerTyped, AdvanceTyped
<1>2. /\ e.sto = d.sto /\ e.chain = d.chain
      /\ e.height = d.height /\ e.settling = d.settling /\ e.storing = d.storing /\ e.fin = "none"
      /\ e.voted = d.voted /\ e.votedOk = d.votedOk /\ e.orphans = d.orphans
      /\ e.bad = d.bad /\ e.sync = d.sync /\ e.peers = d.peers
      /\ e.validators = d.validators /\ e.unready = d.unready
      /\ e.producer = d.producer /\ e.aggregator = d.aggregator
  BY DEF Execute, NodeTyped, Fields
<1>3. p = [e EXCEPT !.blk = b, !.acct = keys]
  BY DEF Proposed
<1> HIDE DEF e, keys
<1>4. /\ p.mem = e.mem /\ p.sto = d.sto /\ p.chain = d.chain /\ p.blk = b /\ p.acct = keys
      /\ p.height = d.height /\ p.settling = d.settling /\ p.storing = d.storing /\ p.fin = "none"
      /\ p.voted = d.voted /\ p.votedOk = d.votedOk /\ p.orphans = d.orphans
      /\ p.bad = d.bad /\ p.sync = d.sync /\ p.peers = d.peers
      /\ p.validators = d.validators /\ p.unready = d.unready
      /\ p.producer = d.producer /\ p.aggregator = d.aggregator
  BY <1>1, <1>2, <1>3 DEF NodeTyped, Fields
<1>5. t = [[p EXCEPT !.orphans = p.orphans, !.fin = "live"] EXCEPT !.tick = (@ + 1) % 4]
  BY <1>4 DEF StartTimer, Orphan, Advance
<1> HIDE DEF p, u, t
<1>6. /\ t.mem = e.mem /\ t.sto = d.sto /\ t.chain = d.chain /\ t.blk = b /\ t.acct = keys
      /\ t.height = d.height /\ t.settling = d.settling /\ t.storing = d.storing /\ t.fin = "live"
      /\ t.voted = d.voted /\ t.votedOk = d.votedOk /\ t.orphans = d.orphans
      /\ t.bad = d.bad /\ t.sync = d.sync /\ t.peers = d.peers
      /\ t.validators = d.validators /\ t.unready = d.unready
      /\ t.producer = d.producer /\ t.aggregator = d.aggregator
  BY <1>1, <1>4, <1>5 DEF NodeTyped, Fields
<1> QED
  BY <1>1, <1>6 DEF t, u, p, e, keys

\* A proposal finds both nodes with the same books and the same committee.
LEMMA TickProposePair ==
  ASSUME InStep, Steady, NEW n \in Nodes, TickPropose(n)
  PROVE  PairInv' /\ \A p \in node[n].peers : Ready(node[p])
<1> DEFINE s == node[n]
           d == Decided(n)
<1>1. PICK o \in Nodes : Pair(n, o) /\ Reaches(n, o) /\ (Phase(n, o) \/ Phase(o, n))
  BY NodeAndPeer
<1> DEFINE r == node[o]
<1>2. NodeTyped(s) /\ Own(n, s) /\ NodeTyped(r) /\ Own(o, r) /\ Typed
  BY NodeAndPeer DEF Steady
<1>3. PICK txs \in Bundles(s) :
        LET b == NewBlock(n, d, txs)
        IN  Becomes(n, Advance(StartTimer(Proposed(d, b, txs))), <<Start(d), Propose(b)>>)
  BY DEF TickPropose
<1> DEFINE b == NewBlock(n, d, txs)
           t == Advance(StartTimer(Proposed(d, b, txs)))
           msgs == <<Start(d), Propose(b)>>
<1>4. Tick(n) /\ ~Paused(s) /\ s.tick = 2 /\ Starts(n) /\ d.producer = n
  BY DEF TickPropose, Proposes
<1>5. ~Waiting(s) /\ Settled(s) /\ UNCHANGED <<up, crashes>> /\ ticked' = ticked \cup {n}
  BY <1>1, <1>4, TickPhases
<1>6. /\ NodeTyped(d) /\ Redecided(s, d)
      /\ Calm(n, o) /\ Link(n, o) = <<>> /\ Expected(r, Start(d)) /\ Ready(r)
      /\ Settled(r) /\ r.height = s.height
  <2>1. n # o
    BY <1>1 DEF Pair
  <2> QED
    BY <1>1, <1>4, <2>1, DecidePhases
<1>7. Becomes(n, t, msgs)
  BY <1>3
<1> HIDE DEF msgs
<1>8. /\ node'[n] = t /\ node'[o] = node[o] /\ aged' \subseteq aged /\ n \notin aged'
      /\ Link(n, o)' = Link(n, o) \o msgs /\ Link(o, n)' = Link(o, n)
      /\ Link(n, n)' = Link(n, n) /\ Link(o, o)' = Link(o, o)
  BY <1>1, <1>2, <1>5, <1>7, BecomesPair DEF Waiting
<1> HIDE DEF d
<1>9. b # Nil /\ b.txs = txs /\ b.state = Execute(d, txs).mem
  BY BlockIsSome DEF NewBlock
<1>10. d.fin = "none"
  BY <1>5, <1>6 DEF Redecided, Round, Waiting
<1> HIDE DEF b
<1>11. /\ t.mem = Execute(d, txs).mem /\ t.sto = d.sto /\ t.chain = d.chain
       /\ t.height = d.height /\ t.settling = d.settling /\ t.storing = d.storing
       /\ t.fin = "live" /\ t.blk = b /\ t.acct = [keys |-> Executed(d, txs)]
       /\ t.voted = d.voted /\ t.votedOk = d.votedOk /\ t.orphans = d.orphans
       /\ t.bad = d.bad /\ t.sync = d.sync /\ t.peers = d.peers
       /\ t.validators = d.validators /\ t.unready = d.unready
       /\ t.producer = d.producer /\ t.aggregator = d.aggregator /\ NodeTyped(t)
  BY <1>6, <1>10, ProposedRecord
<1> HIDE DEF t
<1>12. Waiting(t) /\ Ready(t) /\ Seated(t) /\ Settled(t) /\ t.validators = Nodes
  BY <1>5, <1>6, <1>11 DEF Redecided, Books, Waiting, Ready, Seated, Settled
<1>13. t.sto = s.sto /\ t.chain = s.chain /\ t.height = s.height /\ t.settling = {}
  BY <1>5, <1>6, <1>11 DEF Redecided, Books, Settled
<1>14. Own(n, t)
  <2>1. Clean(n, t)
    BY <1>2, <1>6, <1>11 DEF Own, Clean, Redecided, Round
  <2>2. TipPaid(Due(t))
    <3>1. TipPaid(Due(s))
      BY <1>2 DEF Own
    <3> QED
      BY <1>2, <1>5, <1>11, <1>12, <1>13, <3>1, SettledDue DEF TipPaid
  <2> QED
    BY <1>4, <1>11, <1>12, <1>13, <2>1, <2>2 DEF Own, d
<1>15. r.mem = d.mem /\ r.sto = d.sto /\ r.chain = d.chain /\ r.height = d.height
  <2>1. Due(s) = Due(r) /\ Settled(s) /\ Settled(r)
    BY <1>5, <1>6 DEF Calm
  <2> QED
    BY <1>2, <1>6, <2>1, SettledDue DEF Redecided, Books
<1>16. Drafted(t, r)
  <2>1. Execute(d, txs).mem = Execute(r, txs).mem /\ Executed(d, txs) = Executed(r, txs)
    BY <1>2, <1>6, <1>15, ExecuteAlike
  <2> QED
    BY <1>9, <1>11, <1>15, <2>1 DEF Drafted
<1>17. Proposal(n, o)'
  <2>1. Link(n, o)' = <<Start(d), Propose(b)>>
    BY <1>6, <1>8, ShortQueues DEF msgs
  <2>2. Two(Link(n, o)') /\ Link(n, o)'[1] = Start(d) /\ Link(n, o)'[2] = Propose(b)
    BY <2>1 DEF Two
  <2> QED
    BY <1>6, <1>8, <1>11, <2>2 DEF Proposal
<1>18. \/ Link(o, n)' = <<>>
       \/ o \in ticked' /\ One(Link(o, n)') /\ Harmless(t, Link(o, n)'[1])
  <2>1. \A g : Current(r, s, g) \/ Expected(s, g) => Harmless(t, g)
    <3>1. \A g : Expected(s, g) => Expected(d, g)
      BY <1>2, <1>5, <1>6, SeenRedecided
    <3> QED
      BY <1>11, <1>12, <3>1 DEF Harmless, Current, Expected
  <2>2. CalmLink(o, n)
    BY <1>6 DEF Calm
  <2> QED
    BY <1>5, <1>8, <2>1, <2>2 DEF CalmLink
<1>19. Open(n, o)'
  BY <1>6, <1>8, <1>12, <1>16, <1>17, <1>18 DEF Open, Calm
<1>20. PairInv'
  BY <1>1, <1>5, <1>8, <1>14, <1>19, StepPair DEF Phase
<1>21. node[n].peers = {o}
  BY <1>1 DEF Reaches, Pair
<1> QED
  BY <1>6, <1>20, <1>21

-----------------------------------------------------------------------------
\* What can arrive, in each phase.
Arriving(n, o, body) ==
  \/ /\ Calm(n, o) /\ One(Link(o, n))
     /\ Current(node[o], node[n], body) \/ Expected(node[n], body)
  \/ Open(n, o) /\ One(Link(o, n)) /\ Harmless(node[n], body)
  \/ Open(o, n) /\ body = Propose(node[o].blk) /\ Link(o, n) = <<body>>
  \/ /\ Open(o, n) /\ Expected(node[n], body) /\ Two(Link(o, n))
     /\ Link(o, n)[2] = Propose(node[o].blk)
  \/ /\ Closing(n, o) /\ Harmless(node[n], body) /\ Two(Link(o, n))
     /\ Link(o, n)[2] = Finality(TRUE)
  \/ Closing(n, o) /\ body = Finality(TRUE) /\ Link(o, n) = <<body>>
  \/ /\ Closing(n, o) /\ body = Finality(TRUE) /\ Two(Link(o, n))
     /\ Late(node[o], Link(o, n)[2]) /\ o \in ticked

\* A message is the first on the link between the two nodes.
LEMMA ArrivalPhases ==
  ASSUME InStep, Steady, NEW m \in Messages
  PROVE  /\ Pair(m.to, m.from) /\ Reaches(m.to, m.from) /\ m.to \in up
         /\ m.body = Link(m.from, m.to)[1] /\ Arriving(m.to, m.from, m.body)
<1> DEFINE n == m.to
           o == m.from
           L == Link(o, n)
<1>1. n \in Nodes /\ o \in Nodes /\ m.body = L[1] /\ L # <<>>
  BY MessageEnds, FirstArrives DEF Link, Steady, Typed, InStep
<1>2. n # o
  BY <1>1, NodeAndPeer
<1>3. Pair(n, o) /\ Reaches(n, o) /\ (Phase(n, o) \/ Phase(o, n)) /\ n \in up
  BY <1>1, <1>2, NodeAndPeer DEF Pair, Steady, PairInv
<1>4. ASSUME NEW x PROVE <<x>>[1] = x
  OBVIOUS
<1> HIDE DEF n, o
<1>5. ASSUME Calm(n, o) PROVE Arriving(n, o, m.body)
  BY <1>1, <1>5 DEF Arriving, Calm, CalmLink
<1>6. ASSUME Open(n, o) PROVE Arriving(n, o, m.body)
  BY <1>1, <1>6 DEF Arriving, Open
<1>7. ASSUME Open(o, n) PROVE Arriving(n, o, m.body)
  BY <1>1, <1>4, <1>7 DEF Arriving, Open, Proposal
<1>8. ASSUME Closing(n, o) PROVE Arriving(n, o, m.body)
  BY <1>1, <1>4, <1>8 DEF Arriving, Closing, Verdict
<1>9. ~Closing(o, n)
  BY <1>1 DEF Closing
<1>10. Arriving(n, o, m.body)
  <2>1. Calm(o, n) => Calm(n, o)
    BY DEF Calm
  <2> QED
    BY <1>3, <1>5, <1>6, <1>7, <1>8, <1>9, <2>1 DEF Phase
<1> QED
  BY <1>1, <1>3, <1>10 DEF n, o

\* The types of the messages.
LEMMA TypesOfMessages ==
  /\ \A b : Propose(b).type = "propose" /\ Propose(b).block = b
  /\ \A ok : Finality(ok).type = "finalize" /\ Finality(ok).ok = ok
  /\ \A s, r, g : Current(s, r, g) => g.type = "gossip"
  /\ \A r, g : Expected(r, g) => g.type = "start"
  /\ \A r, g : Harmless(r, g) => g.type \in {"gossip", "start"}
BY DEF Propose, Finality, Current, Expected, Harmless

\* A message that its receiver makes nothing of.
LEMMA PassedOver ==
  ASSUME InStep, Steady, NEW m \in Messages, m.body.type # "finalize", Handle(m, node[m.to], <<>>)
  PROVE  PairInv'
<1> DEFINE n == m.to
           o == m.from
           nothing == <<>>
<1>1. Pair(n, o) /\ Reaches(n, o) /\ Arriving(n, o, m.body) /\ n \in Nodes /\ o \in Nodes
  BY ArrivalPhases DEF Pair
<1>2. Own(n, node[n]) /\ Typed /\ Ordered
  BY <1>1, NodeAndPeer DEF Steady, InStep
<1> HIDE DEF nothing
<1>3. /\ node'[n] = node[n] /\ node'[o] = node[o]
      /\ Link(n, o)' = Link(n, o) \o nothing /\ Link(o, n)' = RemoveAt(Link(o, n), 1)
      /\ Link(n, n)' = Link(n, n) /\ Link(o, o)' = Link(o, o)
      /\ aged' \subseteq aged /\ UNCHANGED <<up, crashes, ticked, sent>>
  <2>1. Handle(m, node[n], nothing)
    BY DEF nothing
  <2> QED
    BY <1>1, <1>2, <2>1, HandlePair
<1>4. Link(n, o)' = Link(n, o)
  BY <1>1, <1>2, <1>3, NothingSent DEF nothing
<1> HIDE DEF n, o
<1>5. One(Link(o, n)) => Link(o, n)' = <<>>
  BY <1>3, ShortQueues DEF One
<1>6. Two(Link(o, n)) => Link(o, n)' = <<Link(o, n)[2]>>
  BY <1>3, ShortQueues DEF Two
<1>7. CASE Calm(n, o) /\ One(Link(o, n))
  <2>1. Calm(n, o)'
    BY <1>3, <1>4, <1>5, <1>7 DEF Calm, CalmLink, Trusts
  <2> QED
    BY <1>1, <1>2, <1>3, <2>1, StepPair DEF Phase
<1>8. CASE Open(n, o) /\ One(Link(o, n))
  <2>1. Open(n, o)'
    BY <1>3, <1>4, <1>5, <1>8 DEF Open, Proposal
  <2> QED
    BY <1>1, <1>2, <1>3, <2>1, StepPair DEF Phase
<1>9. CASE Open(o, n) /\ Link(o, n)' = <<>>
  <2>1. Open(o, n)'
    BY <1>3, <1>4, <1>9 DEF Open, Proposal
  <2> QED
    BY <1>1, <1>2, <1>3, <2>1, StepPair DEF Phase
<1>10. CASE Open(o, n) /\ Two(Link(o, n)) /\ Link(o, n)[2] = Propose(node[o].blk)
  <2>1. Link(o, n)' = <<Propose(node[o].blk)>> /\ Link(o, n) # <<>>
    BY <1>6, <1>10 DEF Two
  <2>2. Proposal(o, n)'
    BY <1>3, <1>10, <2>1 DEF Open, Proposal
  <2>3. Open(o, n)'
    BY <1>3, <1>4, <1>10, <2>2 DEF Open
  <2> QED
    BY <1>1, <1>2, <1>3, <2>3, StepPair DEF Phase
<1>11. CASE Closing(n, o) /\ Two(Link(o, n)) /\ Link(o, n)[2] = Finality(TRUE)
  <2>1. Closing(n, o)'
    BY <1>3, <1>4, <1>6, <1>11 DEF Closing, Verdict
  <2> QED
    BY <1>1, <1>2, <1>3, <2>1, StepPair DEF Phase
<1>12. ASSUME NEW x, Link(o, n) = <<x>> PROVE Link(o, n)' = <<>>
  BY <1>3, <1>12, ShortQueues
<1> QED
  BY <1>1, <1>7, <1>8, <1>9, <1>10, <1>11, <1>12, TypesOfMessages DEF Arriving

\* A start message names the committee that its receiver has decided.
LEMMA HandleStartPair == ASSUME InStep, Steady, NEW m \in Messages, HandleStart(m) PROVE PairInv'
<1> DEFINE s == node[m.to]
<1>1. Arriving(m.to, m.from, m.body) /\ m.body.type = "start"
  BY ArrivalPhases DEF HandleStart, Arrives
<1>2. Expected(s, m.body)
  BY <1>1, TypesOfMessages DEF Arriving, Harmless
<1>3. Handle(m, s, <<>>)
  BY <1>2 DEF HandleStart, Expected
<1> QED
  BY <1>1, <1>3, PassedOver

\* A node that waits for nothing hears only of its own height.
LEMMA GossipHeard ==
  ASSUME InStep, Steady, NEW m \in Messages, HandleGossip(m), ~Waiting(node[m.to])
  PROVE  /\ Calm(m.to, m.from) /\ One(Link(m.from, m.to))
         /\ Current(node[m.from], node[m.to], m.body) /\ m.body.height = node[m.to].height
         /\ Settled(node[m.to]) /\ ~Ignores(node[m.to], m.from, m.body)
<1> DEFINE n == m.to
           o == m.from
           s == node[n]
           g == m.body
<1>1. Arriving(n, o, g) /\ g.type = "gossip" /\ Settled(s) /\ n \in Nodes
  BY ArrivalPhases DEF HandleGossip, Arrives, Free, InStep, Pair
<1>2. NodeTyped(s) /\ Own(n, s)
  BY <1>1, NodeAndPeer
<1>3. ~Open(n, o) /\ ~Closing(n, o)
  BY DEF Open, Closing, Waiting
<1>4. Calm(n, o) /\ One(Link(o, n)) /\ Current(node[o], s, g)
  BY <1>1, <1>3, TypesOfMessages DEF Arriving
<1>5. g.height = s.height
  BY <1>1, <1>2, <1>4, SettledDue DEF Current
<1>6. ~Ignores(s, o, g)
  BY <1>2, <1>4 DEF Ignores, Own, Clean, Syncing, Current
<1> QED
  BY <1>1, <1>4, <1>5, <1>6

\* Hearing of its own height, a node takes its peer for a validator, and for a
\* ready one only if it is.
LEMMA HandleGossipPair == ASSUME InStep, Steady, NEW m \in Messages, HandleGossip(m) PROVE PairInv'
<1> DEFINE n == m.to
           o == m.from
           s == node[n]
           r == node[o]
           g == m.body
           nothing == <<>>
<1>1. Pair(n, o) /\ Reaches(n, o) /\ n \in Nodes /\ o \in Nodes /\ g.type = "gossip"
  BY ArrivalPhases DEF Pair, HandleGossip, Arrives
<1>2. NodeTyped(s) /\ Own(n, s) /\ Typed /\ Ordered
  BY <1>1, NodeAndPeer DEF Steady, InStep
<1>3. CASE Handle(m, s, <<>>)
  BY <1>1, <1>3, PassedOver
<1>4. CASE ~Ignores(s, o, g) /\ Handle(m, Heard(s, o, g), <<>>)
  <2> DEFINE unready == IF g.ready THEN s.unready \ {o} ELSE s.unready \cup {o}
             t == [s EXCEPT !.validators = @ \cup {o}, !.unready = unready]
  <2>1. ~Waiting(s)
    BY <1>4 DEF Ignores
  <2>2. Calm(n, o) /\ One(Link(o, n)) /\ Current(r, s, g) /\ g.height = s.height /\ Settled(s)
    BY <2>1, GossipHeard
  <2>3. Heard(s, o, g) = t
    <3>1. s.height \in Nat
      BY <1>2 DEF NodeTyped
    <3>2. ~(g.height > s.height) /\ ~(g.height < s.height) /\ g.height = s.height
      BY <2>2, <3>1
    <3> QED
      BY <3>2 DEF Heard
  <2> HIDE DEF unready
  <2>4. /\ Books(s, t) /\ Round(s, t) /\ t.producer = s.producer /\ t.aggregator = s.aggregator
        /\ t.validators = s.validators \cup {o} /\ t.unready = unready
    BY <1>2 DEF NodeTyped, Fields, Books, Round
  <2> HIDE DEF nothing, t
  <2>5. Handle(m, t, nothing)
    BY <1>4, <2>3 DEF nothing
  <2>6. /\ node'[n] = t /\ node'[o] = r
        /\ Link(n, o)' = Link(n, o) \o nothing /\ Link(o, n)' = RemoveAt(Link(o, n), 1)
        /\ Link(n, n)' = Link(n, n) /\ Link(o, o)' = Link(o, o)
        /\ aged' \subseteq aged /\ UNCHANGED <<up, crashes, ticked, sent>>
    BY <1>1, <1>2, <2>5, HandlePair
  <2>7. Link(n, o)' = Link(n, o)
    BY <1>1, <1>2, <2>6, NothingSent DEF nothing
  <2>8. Link(o, n)' = <<>>
    BY <2>2, <2>6, ShortQueues DEF One
  <2>9. Due(t) = Due(s) /\ Waiting(t) = Waiting(s) /\ Ready(t) = Ready(s) /\ Settled(t)
    BY <2>2, <2>4, BooksDue DEF Books, Round, Waiting, Ready, Settled
  <2>10. Own(n, t)
    <3>1. Clean(n, t)
      BY <1>2, <2>4 DEF Own, Clean, Round
    <3>2. Ready(t) => t.validators = Nodes /\ Seated(t)
      BY <1>1, <1>2, <2>4, <2>9 DEF Own, Seated, Books
    <3>3. Nodes \ {n} \subseteq t.validators
      BY <1>1, <2>4 DEF Pair
    <3> QED
      BY <1>2, <2>1, <2>4, <2>9, <3>1, <3>2, <3>3 DEF Own, Round, Books
  <2>11. Trusts(n, o)'
    <3>1. o \notin unready => g.ready
      BY DEF unready
    <3> QED
      BY <2>2, <2>4, <2>6, <3>1 DEF Trusts, Current
  <2>12. Trusts(o, n)'
    BY <2>2, <2>6, <2>9 DEF Trusts, Calm
  <2>13. CalmLink(n, o)' /\ CalmLink(o, n)'
    BY <2>2, <2>6, <2>7, <2>8, <2>9 DEF Calm, CalmLink, Current
  <2>14. Calm(n, o)'
    BY <2>2, <2>6, <2>9, <2>11, <2>12, <2>13 DEF Calm
  <2> QED
    BY <1>1, <2>6, <2>10, <2>14, StepPair DEF Phase
<1> QED
  BY <1>3, <1>4 DEF HandleGossip

-----------------------------------------------------------------------------
\* The record of a node that has received the verdict on its block.
LEMMA FinalizedRecord ==
  ASSUME NEW s, NodeTyped(s), s.fin = "live", s.acct # Nil, s.blk # Nil, Settled(s)
  PROVE  LET t == Finalize(s, TRUE)
         IN  /\ t.validators = {} /\ ~Ready(t) /\ ~Waiting(t) /\ t.acct = Nil /\ t.blk = Nil
             /\ t.voted = 0 /\ t.votedOk = 0 /\ t.orphans = s.orphans /\ t.bad = s.bad
             /\ t.sync = s.sync /\ t.peers = s.peers /\ \A v \in t.settling : v.ok
             /\ Due(t) = Final(s)
<1> DEFINE k == s.acct.keys
           v == [keys |-> k, ok |-> TRUE]
           u == [s EXCEPT !.settling = @ \cup {v}, !.storing = @ \cup {s.blk}]
           t == Reset(u)
<1>1. Finalize(s, TRUE) = t
  BY DEF Finalize
<1>2. v.keys = k /\ v.ok
  OBVIOUS
<1> HIDE DEF v
<1>3. /\ u.settling = {v} /\ u.storing = {s.blk} /\ u.orphans = s.orphans /\ u.bad = s.bad
      /\ u.sync = s.sync /\ u.peers = s.peers
      /\ u.mem = s.mem /\ u.sto = s.sto /\ u.chain = s.chain /\ u.height = s.height /\ NodeTyped(u)
  BY DEF NodeTyped, Fields, Settled
<1> HIDE DEF u
<1>4. /\ t.settling = {v} /\ t.storing = {s.blk} /\ t.orphans = s.orphans /\ t.bad = s.bad
      /\ t.sync = s.sync /\ t.peers = s.peers
      /\ t.mem = s.mem /\ t.sto = s.sto /\ t.chain = s.chain /\ t.height = s.height
      /\ t.validators = {} /\ t.producer = None /\ t.fin = "none" /\ t.acct = Nil /\ t.blk = Nil
      /\ t.voted = 0 /\ t.votedOk = 0
  BY <1>3 DEF Reset, NodeTyped, Fields
<1> HIDE DEF t
<1>5. ~Ready(t) /\ ~Waiting(t) /\ \A w \in t.settling : w.ok
  BY <1>2, <1>4 DEF Ready, Waiting
<1>6. UNION {w.keys : w \in t.settling} = k
  BY <1>2, <1>4
<1> HIDE DEF k
<1>7. Due(t) = After(t, k, {s.blk}) /\ Final(s) = After(s, k, {s.blk})
  BY <1>4, <1>6 DEF Due, Final, k
<1>8. \A b : Extended(t, b) = Extended(s, b)
  BY <1>4 DEF Extended
<1>9. Due(t) = Final(s)
  BY <1>4, <1>7, <1>8 DEF After
<1> QED
  BY <1>1, <1>4, <1>5, <1>9

\* Nothing against the peer, whatever votes are counted.
Unblamed(n, s) == s.bad = {} /\ s.sync = Nil /\ s.orphans = 0 /\ s.peers = Nodes \ {n}

\* A node whose verdict has arrived is in good order, once what is due is.
LEMMA FinalizedOwn ==
  ASSUME NEW n, NEW s, NodeTyped(s), s.fin = "live", s.acct # Nil, s.blk # Nil, Settled(s),
         Unblamed(n, s), TipPaid(Final(s)), MemPaid(Final(s))
  PROVE  Own(n, Finalize(s, TRUE))
<1> DEFINE t == Finalize(s, TRUE)
<1>1. /\ t.validators = {} /\ ~Ready(t) /\ ~Waiting(t) /\ t.acct = Nil /\ t.blk = Nil
      /\ t.voted = 0 /\ t.votedOk = 0 /\ t.orphans = s.orphans /\ t.bad = s.bad
      /\ t.sync = s.sync /\ t.peers = s.peers /\ \A v \in t.settling : v.ok
      /\ Due(t) = Final(s)
  BY FinalizedRecord
<1> HIDE DEF t
<1>2. Clean(n, t) /\ TipPaid(Due(t)) /\ MemPaid(Due(t))
  BY <1>1 DEF Clean, Unblamed
<1>3. Own(n, t)
  BY <1>1, <1>2 DEF Own
<1> QED
  BY <1>3 DEF t

\* The verdict makes the producer's books those of its peer.
LEMMA HandleFinalizePair ==
  ASSUME InStep, Steady, NEW m \in Messages, HandleFinalize(m) PROVE PairInv'
<1> DEFINE n == m.to
           o == m.from
           s == node[n]
           r == node[o]
           t == Finalize(s, TRUE)
           nothing == <<>>
<1>1. Pair(n, o) /\ Reaches(n, o) /\ n \in Nodes /\ o \in Nodes /\ Arriving(n, o, m.body)
      /\ m.body.type = "finalize"
  BY ArrivalPhases DEF Pair, HandleFinalize, Arrives
<1>2. NodeTyped(s) /\ Own(n, s) /\ Own(o, r) /\ Typed /\ Ordered
  BY <1>1, NodeAndPeer DEF Steady, InStep
<1>3. /\ Closing(n, o) /\ m.body = Finality(TRUE)
      /\ \/ Link(o, n) = <<m.body>>
         \/ Two(Link(o, n)) /\ Late(r, Link(o, n)[2]) /\ o \in ticked
  BY <1>1, TypesOfMessages DEF Arriving
<1>4. s.aggregator = o
  <2>1. Waiting(s)
    BY <1>3 DEF Closing, Waiting
  <2>2. Seated(s) /\ s.producer = n /\ s.height \in Nat
    BY <1>2, <2>1 DEF Own, NodeTyped
  <2>3. s.aggregator \in Nodes /\ s.aggregator # n
    BY <2>2, RolesDiffer DEF Seated
  <2> QED
    BY <1>1, <2>3 DEF Pair
<1>5. Handle(m, t, nothing)
  BY <1>3, <1>4, TypesOfMessages DEF HandleFinalize
<1>6. /\ s.fin = "live" /\ s.acct # Nil /\ s.blk # Nil /\ Settled(s) /\ Final(s) = Due(r)
      /\ ~Waiting(r) /\ r.validators = {} /\ Link(n, o) = <<>>
  BY <1>2, <1>3 DEF Closing, Own, Waiting
<1>7. /\ t.validators = {} /\ ~Ready(t) /\ ~Waiting(t) /\ Due(t) = Due(r)
  BY <1>2, <1>6, FinalizedRecord
<1>8. Own(n, t)
  <2>1. TipPaid(Due(r)) /\ MemPaid(Due(r))
    BY <1>2, <1>6 DEF Own
  <2>2. Unblamed(n, s)
    BY <1>2 DEF Own, Clean, Unblamed
  <2> QED
    BY <1>2, <1>6, <2>1, <2>2, FinalizedOwn
<1> HIDE DEF nothing, t
<1>9. /\ node'[n] = t /\ node'[o] = r
      /\ Link(n, o)' = Link(n, o) \o nothing /\ Link(o, n)' = RemoveAt(Link(o, n), 1)
      /\ Link(n, n)' = Link(n, n) /\ Link(o, o)' = Link(o, o)
      /\ aged' \subseteq aged /\ UNCHANGED <<up, crashes, ticked, sent>>
  BY <1>1, <1>2, <1>5, HandlePair
<1>10. Link(n, o)' = <<>>
  BY <1>6, <1>9, ShortQueues DEF nothing
<1>11. CalmLink(o, n)'
  <2>1. CASE Link(o, n) = <<m.body>>
    BY <1>9, <2>1, ShortQueues DEF CalmLink
  <2>2. CASE Two(Link(o, n)) /\ Late(r, Link(o, n)[2]) /\ o \in ticked
    <3> DEFINE g == Link(o, n)[2]
    <3> HIDE DEF g
    <3>1. Link(o, n)' = <<g>>
      BY <1>9, <2>2, ShortQueues DEF Two, g
    <3>2. One(Link(o, n)') /\ Link(o, n)'[1] = g
      BY <3>1 DEF One
    <3>3. Current(r, t, g)
      BY <1>7, <2>2 DEF Late, Current, g
    <3> QED
      BY <1>9, <2>2, <3>2, <3>3 DEF CalmLink
  <2> QED
    BY <1>3, <2>1, <2>2
<1>12. Calm(n, o)'
  BY <1>6, <1>7, <1>9, <1>10, <1>11 DEF Calm, CalmLink, Trusts
<1> QED
  BY <1>1, <1>8, <1>9, <1>12, StepPair DEF Phase

\* The record of a validator that has voted for a block, its vote counted.
LEMMA CountedRecord ==
  ASSUME NEW s, NodeTyped(s), s.fin = "none", s.voted = 0, s.votedOk = 0, NEW b, VoteOf(s, b)
  PROVE  LET c == Count(StartTimer(Judged(s, b)), TRUE)
         IN  /\ NodeTyped(c) /\ c.mem = Execute(s, b.txs).mem /\ c.sto = s.sto /\ c.chain = s.chain
             /\ c.height = s.height /\ c.settling = s.settling /\ c.storing = s.storing
             /\ c.fin = "live" /\ c.blk = b /\ c.acct = [keys |-> Executed(s, b.txs)]
             /\ c.voted = 1 /\ c.votedOk = 1 /\ c.orphans = s.orphans /\ c.bad = s.bad
             /\ c.sync = s.sync /\ c.peers = s.peers /\ c.validators = s.validators
<1> DEFINE e == Execute(s, b.txs)
           keys == [keys |-> Executed(s, b.txs)]
           a == [e EXCEPT !.acct = keys]
           j == [a EXCEPT !.blk = b]
           u == [j EXCEPT !.orphans = j.orphans, !.fin = "live"]
           c == [u EXCEPT !.voted = @ + 1, !.votedOk = @ + 1]
<1>1. NodeTyped(e)
  BY ExecuteTyped
<1>2. /\ e.sto = s.sto /\ e.chain = s.chain /\ e.height = s.height /\ e.settling = s.settling
      /\ e.storing = s.storing /\ e.fin = "none" /\ e.voted = 0 /\ e.votedOk = 0
      /\ e.orphans = s.orphans /\ e.bad = s.bad /\ e.sync = s.sync /\ e.peers = s.peers
      /\ e.validators = s.validators
  BY DEF Execute, NodeTyped, Fields
<1>3. Verified(s, b) = a
  BY DEF Verified, VoteOf
<1> HIDE DEF e, keys
<1>4. Judged(s, b) = j
  BY <1>3 DEF Judged
<1>5. j.fin = "none" /\ j.orphans = s.orphans /\ j.blk = b /\ j.acct = keys
      /\ j.mem = e.mem /\ j.sto = s.sto /\ j.chain = s.chain /\ j.height = s.height
      /\ j.settling = s.settling /\ j.storing = s.storing /\ j.voted = 0 /\ j.votedOk = 0
      /\ j.bad = s.bad /\ j.sync = s.sync /\ j.peers = s.peers /\ j.validators = s.validators
  BY <1>1, <1>2 DEF NodeTyped, Fields
<1>6. NodeTyped(j)
  BY <1>4, JudgedTyped
<1> HIDE DEF a, j
<1>7. StartTimer(Judged(s, b)) = u
  BY <1>4, <1>5 DEF StartTimer, Orphan
<1>8. /\ u.fin = "live" /\ u.orphans = s.orphans /\ u.blk = b /\ u.acct = keys
      /\ u.mem = e.mem /\ u.sto = s.sto /\ u.chain = s.chain /\ u.height = s.height
      /\ u.settling = s.settling /\ u.storing = s.storing /\ u.voted = 0 /\ u.votedOk = 0
      /\ u.bad = s.bad /\ u.sync = s.sync /\ u.peers = s.peers /\ u.validators = s.validators
  BY <1>5, <1>6 DEF NodeTyped, Fields
<1>9. NodeTyped(u)
  BY <1>4, <1>6, <1>7, StartTimerTyped
<1> HIDE DEF u
<1>10. Count(u, TRUE) = c /\ NodeTyped(c)
  BY <1>9, CountTyped DEF Count
<1>11. /\ c.fin = "live" /\ c.orphans = s.orphans /\ c.blk = b /\ c.acct = keys
       /\ c.mem = e.mem /\ c.sto = s.sto /\ c.chain = s.chain /\ c.height = s.height
       /\ c.settling = s.settling /\ c.storing = s.storing /\ c.voted = 1 /\ c.votedOk = 1
       /\ c.bad = s.bad /\ c.sync = s.sync /\ c.peers = s.peers /\ c.validators = s.validators
  BY <1>8, <1>9 DEF NodeTyped, Fields
<1> HIDE DEF c
<1> QED
  BY <1>7, <1>10, <1>11 DEF e, keys

\* One vote of two nodes is complete, and a majority.
LEMMA OneVoteDecides ==
  ASSUME InStep, NEW c, c.validators = Nodes, c.voted = 1, c.votedOk = 1
  PROVE  Complete(c) /\ Majority(c)
BY DEF Complete, Majority, InStep

\* Executing a block pays the accounts of its transactions and no others, so
\* what is due after the verdict is what the block's state says.
LEMMA ExecutedPays ==
  ASSUME NEW s, NodeTyped(s), MemPaid(Due(s)), Settled(s), NEW b, b.height = s.height,
         b.state = Execute(s, b.txs).mem,
         NEW c, c.mem = Execute(s, b.txs).mem, c.sto = s.sto, c.chain = s.chain, c.height = s.height,
         c.acct = [keys |-> Executed(s, b.txs)], c.blk = b
  PROVE  MemPaid(Final(c)) /\ TipPaid(Final(c))
<1> DEFINE mem == Execute(s, b.txs).mem
           K == Executed(s, b.txs)
           sto == [t \in Txs |-> IF t \in K THEN c.mem[t] ELSE c.sto[t]]
           d == Final(c)
<1>1. mem = [t \in Txs |-> IF t \notin b.txs THEN s.mem[t]
                           ELSE IF s.mem[t] = "paid" THEN Fetched(s.sto[t]) ELSE "paid"]
  BY DEF Execute, NodeTyped, Fields
<1>2. \A t \in Txs : s.mem[t] = "paid" <=> s.sto[t] = "paid"
  BY SettledDue DEF MemPaid
<1>3. c.acct.keys = K
  OBVIOUS
<1>4. (CHOOSE x \in {b} : TRUE) = b
  OBVIOUS
<1> HIDE DEF mem, K
<1>5. /\ d.mem = c.mem /\ d.sto = sto /\ d.chain = Extended(c, b) /\ d.height = s.height + 1
  BY <1>3, <1>4 DEF Final, After
<1> HIDE DEF d
<1>6. \A t \in Txs : mem[t] = "paid" <=> sto[t] = "paid"
  <2> SUFFICES ASSUME NEW t \in Txs PROVE mem[t] = "paid" <=> sto[t] = "paid"
    OBVIOUS
  <2>1. CASE t \in K
    BY <2>1 DEF mem
  <2>2. CASE t \notin K /\ t \in b.txs
    <3>1. s.mem[t] = "paid" /\ s.sto[t] = "paid"
      BY <1>2, <2>2 DEF K, Executed
    <3> QED
      BY <1>1, <2>2, <3>1 DEF Fetched
  <2>3. CASE t \notin b.txs
    <3>1. t \notin K
      BY <2>3 DEF K, Executed
    <3> QED
      BY <1>1, <1>2, <2>3, <3>1
  <2> QED
    BY <2>1, <2>2, <2>3
<1>7. MemPaid(d)
  BY <1>5, <1>6 DEF MemPaid, mem
<1>8. d.height - 1 = b.height /\ Extended(c, b)[b.height] = b
  BY <1>5 DEF Extended, NodeTyped
<1>9. TipPaid(d)
  BY <1>5, <1>6, <1>8 DEF TipPaid, mem
<1> QED
  BY <1>7, <1>9 DEF d

\* The one validator of a proposal is its aggregator, finds it right and makes
\* it final at once, unless the proposal is too large to be read.
LEMMA HandleProposePair ==
  ASSUME InStep, Steady, NEW m \in Messages, HandlePropose(m) PROVE PairInv'
<1> DEFINE n == m.to
           o == m.from
           s == node[n]
           p == node[o]
           b == p.blk
<1>1. Pair(n, o) /\ Reaches(n, o) /\ n \in Nodes /\ o \in Nodes /\ Arriving(n, o, m.body)
      /\ m.body.type = "propose"
  BY ArrivalPhases DEF Pair, HandlePropose, Arrives
<1>2. /\ NodeTyped(s) /\ NodeOK(s) /\ Own(n, s) /\ NodeTyped(p) /\ NodeOK(p) /\ Own(o, p)
      /\ Typed /\ Ordered
  BY <1>1, NodeAndPeer DEF Steady, InStep
<1>3. Open(o, n) /\ m.body = Propose(b) /\ Link(o, n) = <<Propose(b)>>
  BY <1>1, TypesOfMessages DEF Arriving
<1>4. m.body.block = b
  BY <1>3, TypesOfMessages
<1>5. CASE Handle(m, s, <<>>)
  BY <1>1, <1>5, PassedOver
<1>6. /\ Waiting(p) /\ p.producer = o /\ Ready(p) /\ Seated(p) /\ ~Waiting(s) /\ Ready(s) /\ Seated(s)
      /\ Settled(s) /\ Settled(p) /\ s.validators = Nodes /\ Drafted(p, s)
  BY <1>1, <1>2, <1>3, ReadyIsSettled DEF Own, Open
<1>7. p.fin = "live" /\ o \notin aged
  <2>1. Link(o, n) # <<>>
    BY <1>3
  <2> QED
    BY <1>3, <2>1 DEF Open, Proposal
<1>8. s.producer = o /\ s.aggregator = n
  <2>1. s.producer = p.producer /\ s.height \in Nat
    BY <1>2, <1>6 DEF Seated, Drafted, NodeTyped
  <2>2. s.aggregator \in Nodes /\ s.aggregator # s.producer
    BY <1>6, <2>1, RolesDiffer DEF Seated
  <2> QED
    BY <1>1, <1>6, <2>1, <2>2 DEF Pair
<1>9. b # Nil /\ b.height = s.height /\ b.prev = s.prev /\ b.state = Execute(s, b.txs).mem
  <2>1. b # Nil /\ b.state = Execute(s, b.txs).mem /\ p.height = s.height /\ p.chain = s.chain
    BY <1>6 DEF Drafted
  <2>2. Fits(p, b)
    BY <1>2, <2>1 DEF NodeOK, Pending
  <2>3. p.prev = s.prev
    BY <1>2, <2>1 DEF NodeOK, Linked, Below
  <2> QED
    BY <2>1, <2>2, <2>3 DEF Fits
<1>10. VoteOf(s, b) = TRUE
  BY <1>9 DEF VoteOf, CheckBlockInfo
<1> DEFINE v == StartTimer(Judged(s, b))
           c == Count(v, TRUE)
           t == Finalize(c, TRUE)
           msgs == <<Finality(TRUE)>>
<1> HIDE DEF b
<1>11. /\ NodeTyped(c) /\ c.mem = Execute(s, b.txs).mem /\ c.sto = s.sto /\ c.chain = s.chain
       /\ c.height = s.height /\ c.settling = s.settling /\ c.storing = s.storing
       /\ c.fin = "live" /\ c.blk = b /\ c.acct = [keys |-> Executed(s, b.txs)]
       /\ c.voted = 1 /\ c.votedOk = 1 /\ c.orphans = s.orphans /\ c.bad = s.bad
       /\ c.sync = s.sync /\ c.peers = s.peers /\ c.validators = s.validators
  BY <1>2, <1>6, <1>10, CountedRecord DEF Own, Clean, Waiting
<1> HIDE DEF c
<1>12. Complete(c) /\ Majority(c)
  BY <1>6, <1>11, OneVoteDecides
<1>13. Majority(c) = TRUE
  BY <1>12 DEF Majority
<1>14. CASE s.aggregator = n /\ Aggregate(m, n, v, VoteOf(s, b))
  <2>1. Aggregate(m, n, v, TRUE)
    BY <1>10, <1>14
  <2>2. Handle(m, Finalize(c, Majority(c)), <<Finality(Majority(c))>>)
    BY <1>12, <2>1 DEF Aggregate, c
  <2>3. Handle(m, t, msgs)
    BY <1>13, <2>2
  <2>4. Settled(c) /\ c.acct # Nil /\ c.blk # Nil /\ Unblamed(n, c)
    BY <1>2, <1>6, <1>9, <1>11, BlockIsSome DEF Settled, Own, Clean, Unblamed
  <2>5. MemPaid(Due(s))
    BY <1>2, <1>6 DEF Own
  <2>6. MemPaid(Final(c)) /\ TipPaid(Final(c))
    BY <1>2, <1>6, <1>9, <1>11, <2>5, ExecutedPays
  <2>7. Own(n, t)
    BY <1>11, <2>4, <2>6, FinalizedOwn
  <2>8. t.validators = {} /\ ~Waiting(t) /\ Due(t) = Final(c)
    BY <1>11, <2>4, FinalizedRecord
  <2> HIDE DEF t, msgs
  <2>9. /\ node'[n] = t /\ node'[o] = p
        /\ Link(n, o)' = Link(n, o) \o msgs /\ Link(o, n)' = RemoveAt(Link(o, n), 1)
        /\ Link(n, n)' = Link(n, n) /\ Link(o, o)' = Link(o, o)
        /\ aged' \subseteq aged /\ UNCHANGED <<up, crashes, ticked, sent>>
    BY <1>1, <1>2, <2>3, HandlePair
  <2>10. Final(c) = Final(p)
    <3>1. /\ p.mem = c.mem /\ p.sto = c.sto /\ p.chain = c.chain /\ p.height = c.height
          /\ p.acct = c.acct /\ p.blk = c.blk
      BY <1>6, <1>11 DEF Drafted, b
    <3>2. \A x : Extended(c, x) = Extended(p, x)
      BY <3>1 DEF Extended
    <3> QED
      BY <3>1, <3>2 DEF Final, After
  <2>11. Link(o, n)' = <<>>
    BY <1>3, <2>9, ShortQueues
  <2>12. Verdict(o, n)'
    <3>1. CASE Link(n, o) = <<>>
      <4>1. Link(n, o)' = <<Finality(TRUE)>>
        BY <2>9, <3>1, ShortQueues DEF msgs
      <4> QED
        BY <4>1 DEF Verdict
    <3>2. CASE n \in ticked /\ One(Link(n, o)) /\ Harmless(p, Link(n, o)[1])
      <4> DEFINE g == Link(n, o)[1]
      <4> HIDE DEF g
      <4>1. Link(n, o) = <<g>> /\ Harmless(p, g)
        BY <3>2 DEF One, g
      <4>2. Link(n, o)' = <<g, Finality(TRUE)>>
        BY <2>9, <4>1, ShortQueues DEF msgs
      <4>3. Two(Link(n, o)') /\ Link(n, o)'[1] = g /\ Link(n, o)'[2] = Finality(TRUE)
        BY <4>2 DEF Two
      <4> QED
        BY <2>9, <3>2, <4>1, <4>3 DEF Verdict
    <3> QED
      BY <1>3, <3>1, <3>2 DEF Open
  <2>13. p.acct # Nil /\ p.blk # Nil
    BY <1>6, BlockIsSome DEF Drafted
  <2>14. Closing(o, n)'
    BY <1>7, <2>8, <2>9, <2>10, <2>11, <2>12, <2>13 DEF Closing
  <2> QED
    BY <1>1, <2>7, <2>9, <2>14, StepPair DEF Phase
<1> QED
  BY <1>4, <1>5, <1>8, <1>14 DEF HandlePropose

-----------------------------------------------------------------------------
\* Nobody votes but the aggregator itself, every peer can be dialled, no timer
\* is orphaned, nobody is behind, and no process has died.
LEMMA NeverHappens ==
  ASSUME InStep, Steady
  PROVE  /\ \A m \in Messages : ~HandleVote(m) /\ ~DialFail(m) /\ ~Lose(m)
         /\ \A n \in Nodes : /\ ~OrphanFire(n) /\ ~SyncBlock(n) /\ ~SyncTimeout(n)
                             /\ ~Crash(n) /\ ~Restart(n)
<1>1. ASSUME NEW m \in Messages PROVE ~HandleVote(m) /\ ~DialFail(m) /\ ~Lose(m)
  <2>1. m.to \in up /\ Arriving(m.to, m.from, m.body)
    BY ArrivalPhases
  <2>2. m.body.type # "vote"
    <3>1. ASSUME NEW n, NEW o, NEW body, Arriving(n, o, body)
          PROVE  \/ \E s, r : Current(s, r, body)
                 \/ \E r : Expected(r, body) \/ Harmless(r, body)
                 \/ body = Finality(TRUE) \/ \E b : body = Propose(b)
      BY <3>1 DEF Arriving
    <3>2. \/ \E s, r : Current(s, r, m.body)
          \/ \E r : Expected(r, m.body) \/ Harmless(r, m.body)
          \/ m.body = Finality(TRUE) \/ \E b : m.body = Propose(b)
      BY <2>1, <3>1
    <3> QED
      BY <3>2, TypesOfMessages
  <2>3. m.from \in up
    BY MessageEnds DEF Steady, PairInv, Typed
  <2> QED
    BY <2>1, <2>2, <2>3 DEF HandleVote, Arrives, DialFail, Lose
<1>2. ASSUME NEW n \in Nodes
      PROVE  ~OrphanFire(n) /\ ~SyncBlock(n) /\ ~SyncTimeout(n) /\ ~Crash(n) /\ ~Restart(n)
  <2>1. node[n].orphans = 0 /\ node[n].sync = Nil
    BY NodeAndPeer DEF Own, Clean
  <2>2. up = Nodes /\ crashes = 0 /\ MaxCrashes = 0
    BY DEF Steady, PairInv, InStep
  <2> QED
    BY <2>1, <2>2 DEF OrphanFire, SyncBlock, SyncTimeout, Syncing, Crash, Restart
<1> QED
  BY <1>1, <1>2

\* Every step keeps the pair in step.
LEMMA NextPair == ASSUME InStep PROVE Steady /\ [Next]_vars => PairInv'
<1> SUFFICES ASSUME Steady, [Next]_vars PROVE PairInv'
  OBVIOUS
<1>1. ASSUME NEW n \in Nodes, Ticks(n) PROVE PairInv'
  BY <1>1, TickQuietPair, TickGossipPair, TickDecidePair, TickProposePair DEF Ticks
<1>2. ASSUME NEW n \in Nodes, TimerFire(n) \/ Settle(n) \/ Store(n) PROVE PairInv'
  BY <1>2, TimerFirePair, SettleStorePair
<1>3. ASSUME NEW m \in Messages, Deliver(m) PROVE PairInv'
  BY <1>3, NeverHappens, HandleGossipPair, HandleStartPair, HandleProposePair, HandleFinalizePair
  DEF Deliver
<1>4. ASSUME UNCHANGED vars PROVE PairInv'
  <2>1. \A n \in Nodes : Undisturbed(node[n], node'[n])
    BY <1>4, TickUndisturbed DEF vars, Steady, Typed, NodesTyped
  <2>2. \A x, y \in Nodes : Link(x, y)' = Link(x, y)
    BY <1>4 DEF vars, Link
  <2> QED
    BY <1>4, <2>1, <2>2, UnnoticedStep DEF vars, Steady
<1> QED
  BY <1>1, <1>2, <1>3, <1>4, NeverHappens, NewTxPair, NewIntervalPair DEF Next

\* Two new nodes are between two rounds.
LEMMA InitPair == ASSUME InStep PROVE Init => PairInv
<1> SUFFICES ASSUME Init PROVE PairInv
  OBVIOUS
<1>1. PICK p \in Nodes, q \in Nodes : Pair(p, q)
  BY PeerExists, ConsensusAssumption
<1>2. ASSUME NEW n \in Nodes
      PROVE  LET s == node[n]
             IN  /\ NodeTyped(s) /\ Settled(s) /\ ~Waiting(s) /\ ~Ready(s) /\ Clean(n, s)
                 /\ s.validators = {} /\ s.acct = Nil /\ s.blk = Nil
                 /\ s.height = 1 /\ s.chain = <<>> /\ s.settling = {} /\ s.storing = {}
                 /\ s.mem = [t \in Txs |-> "absent"] /\ s.sto = [t \in Txs |-> "absent"]
  <2>1. node[n] = NodeInit(n)
    BY DEF Init
  <2> QED
    BY <2>1, NodeInitTyped DEF NodeInit, Settled, Waiting, Ready, Clean
<1>3. \A x, y \in Nodes : Link(x, y) = <<>>
  BY DEF Init, Quiet, Link
<1>4. ASSUME NEW n \in Nodes PROVE Own(n, node[n])
  <2>1. TipPaid(Due(node[n])) /\ MemPaid(Due(node[n]))
    <3>1. /\ Due(node[n]).mem = node[n].mem /\ Due(node[n]).sto = node[n].sto
          /\ Due(node[n]).height = node[n].height
      BY <1>2, SettledDue
    <3> QED
      BY <1>2, <3>1 DEF TipPaid, MemPaid
  <2> QED
    BY <1>2, <2>1 DEF Own
<1>5. Books(node[p], node[q])
  BY <1>1, <1>2 DEF Books
<1>6. Calm(p, q)
  <2>1. Due(node[p]) = Due(node[q])
    BY <1>5, BooksDue
  <2> QED
    BY <1>1, <1>2, <1>3, <2>1 DEF Calm, CalmLink, Trusts
<1> QED
  BY <1>1, <1>3, <1>4, <1>6 DEF PairInv, Phase, Init

\* Nobody ever catches up.
LEMMA NobodySyncs == PairInv => SyncExcludesRound
BY DEF PairInv, Own, Clean, SyncExcludesRound, Syncing

\* The two nodes are typed, linked and in one of the three phases, always.
LEMMA SteadyInvariant == ASSUME InStep PROVE Spec => []Steady
<1>1. Prompt
  BY DEF InStep
<1>2. Init => Steady
  BY InitTyped, InitOK, InitPair DEF Steady
<1>3. Steady /\ [Next]_vars => Steady'
  BY <1>1, NextTyped, NextOK, NextPair, NobodySyncs DEF Steady
<1> QED
  BY <1>2, <1>3, PTL DEF Spec

-----------------------------------------------------------------------------
\* Two nodes in step never fall behind each other, so StartSync is never
\* reached, and no node catches up while it is in a round: the one condition
\* that LinkedChains and AgreementGivesLedger leave open.
THEOREM PairNeverSyncs == ASSUME InStep PROVE Spec => []SyncExcludesRound
<1>1. Steady => SyncExcludesRound
  BY NobodySyncs DEF Steady
<1> QED
  BY <1>1, SteadyInvariant, PTL

\* Hence their storages are linked chains that end at NextHeight.
THEOREM PairChainsLinked == ASSUME InStep PROVE Spec => []ChainIsLinked
<1>1. Prompt
  BY DEF InStep
<1> QED
  BY <1>1, PairNeverSyncs, LinkedChains, PTL

\* No start message, proposal or verdict of the peer ever looks wrong, so
\* neither node is put on the other's bad list (addToBadPeer). It takes
\* messages that arrive in the order of sending: a start message that arrives
\* after the verdict of its round would look wrong.
THEOREM PairStaysGood == ASSUME InStep PROVE Spec => []HonestPeersStayGood
<1>1. Steady => HonestPeersStayGood
  BY DEF Steady, PairInv, Own, Clean, HonestPeersStayGood
<1> QED
  BY <1>1, SteadyInvariant, PTL

\* A node that waits for no verdict starts its next block from the accounts it
\* has stored: what execute() changed has been stored or was never changed.
THEOREM PairMemoryIsStored == ASSUME InStep PROVE Spec => []IdleMemoryIsStored
<1>1. ASSUME Steady PROVE IdleMemoryIsStored
  <2> SUFFICES ASSUME NEW n \in Nodes, ~Waiting(node[n]), Settled(node[n])
               PROVE  \A t \in Txs : node[n].mem[t] = "paid" <=> node[n].sto[t] = "paid"
    BY DEF IdleMemoryIsStored
  <2>1. NodeTyped(node[n]) /\ MemPaid(Due(node[n]))
    BY <1>1 DEF Steady, Typed, NodesTyped, PairInv, Own
  <2> QED
    BY <2>1, SettledDue DEF MemPaid
<1> QED
  BY <1>1, SteadyInvariant, PTL

\* The last of the heights below h.
LEMMA LastHeight == ASSUME NEW k \in Nat, k > 0 PROVE Max(1 .. k) = k
<1>1. k \in 1 .. k /\ \A y \in 1 .. k : k >= y
  OBVIOUS
<1>2. Max(1 .. k) \in 1 .. k /\ \A y \in 1 .. k : Max(1 .. k) >= y
  BY <1>1 DEF Max
<1> QED
  BY <1>1, <1>2

\* The accounts pushed by the executer's waitForFinality are those of the block
\* stored by the sync service's, on both nodes and after every round.
THEOREM PairStorageMatches == ASSUME InStep PROVE Spec => []StorageMatchesTip
<1>1. ASSUME Steady PROVE StorageMatchesTip
  <2> SUFFICES ASSUME NEW n \in Nodes, Settled(node[n]), DOMAIN node[n].chain # {}
               PROVE  LET s == node[n]
                      IN \A t \in Txs : s.sto[t] = "paid" <=> s.chain[Max(DOMAIN s.chain)].state[t] = "paid"
    BY DEF StorageMatchesTip
  <2>1. NodeTyped(node[n]) /\ NodeOK(node[n]) /\ TipPaid(Due(node[n]))
    BY <1>1 DEF Steady, ChainsOK, NodeOK, PairInv, Own
  <2> DEFINE k == node[n].height - 1
  <2>2. k \in Nat /\ k > 0 /\ DOMAIN node[n].chain = 1 .. k
    BY <2>1 DEF NodeOK, NodeTyped, Linked
  <2>3. node[n].height > 1
    BY <2>1, <2>2 DEF NodeTyped
  <2>4. Max(DOMAIN node[n].chain) = node[n].height - 1
    BY <2>2, LastHeight
  <2> HIDE DEF k
  <2>5. \A t \in Txs : node[n].sto[t] = "paid" <=> node[n].chain[node[n].height - 1].state[t] = "paid"
    BY <2>1, <2>3, SettledDue DEF TipPaid
  <2> QED
    BY <2>4, <2>5
<1> QED
  BY <1>1, SteadyInvariant, PTL

\* A chain is the beginning of what is due.
LEMMA ChainOfDue ==
  ASSUME NEW s, NodeOK(s)
  PROVE  \A h \in DOMAIN s.chain : Due(s).chain[h] = s.chain[h]
<1>1. CASE s.storing = {}
  BY <1>1 DEF Due, After
<1>2. CASE s.storing # {}
  <2> DEFINE b == CHOOSE x \in s.storing : TRUE
  <2>1. b \in s.storing
    BY <1>2
  <2> HIDE DEF b
  <2>2. b.height = s.height /\ s.height \in Nat /\ DOMAIN s.chain = 1 .. (s.height - 1)
    BY <2>1 DEF NodeOK, NodeTyped, Pending, Fits, Linked
  <2>3. Due(s).chain = Extended(s, b)
    BY <1>2 DEF Due, After, b
  <2> QED
    BY <2>2, <2>3 DEF Extended
<1> QED
  BY <1>1, <1>2

\* And of what the awaited verdict would make of it.
LEMMA ChainOfFinal ==
  ASSUME NEW s, NodeOK(s), s.blk # Nil
  PROVE  \A h \in DOMAIN s.chain : Final(s).chain[h] = s.chain[h]
<1>1. (CHOOSE x \in {s.blk} : TRUE) = s.blk
  OBVIOUS
<1>2. Final(s).chain = Extended(s, s.blk)
  BY <1>1 DEF Final, After
<1>3. s.blk.height = s.height /\ s.height \in Nat /\ DOMAIN s.chain = 1 .. (s.height - 1)
  BY DEF NodeOK, NodeTyped, Pending, Fits, Linked
<1> QED
  BY <1>2, <1>3 DEF Extended

\* The two nodes never store different blocks at one height, also while the
\* verdict has been carried out on one of them only, or has not been received.
THEOREM PairAgrees == ASSUME InStep PROVE Spec => []Agreement
<1>1. ASSUME Steady PROVE Agreement
  <2>1. PICK p \in Nodes, q \in Nodes : Pair(p, q) /\ Phase(p, q)
    BY <1>1 DEF Steady, PairInv
  <2>2. NodeOK(node[p]) /\ NodeOK(node[q])
    BY <1>1 DEF Steady, ChainsOK
  <2> DEFINE Same == \A h \in DOMAIN node[p].chain \cap DOMAIN node[q].chain :
                       node[p].chain[h] = node[q].chain[h]
  <2>3. ASSUME Calm(p, q) PROVE Same
    BY <2>2, <2>3, ChainOfDue DEF Calm
  <2>4. ASSUME Open(p, q) PROVE Same
    BY <2>4 DEF Open, Drafted
  <2>5. ASSUME Closing(p, q) PROVE Same
    BY <2>2, <2>5, ChainOfDue, ChainOfFinal DEF Closing
  <2>6. Same
    BY <2>1, <2>3, <2>4, <2>5 DEF Phase
  <2> QED
    BY <2>1, <2>6 DEF Agreement, Pair
<1> QED
  BY <1>1, SteadyInvariant, PTL

\* Two nodes in step implement one ledger: every store of either node appends
\* the next block of the ledger or copies one that the peer has appended.
THEOREM PairImplementsLedger == ASSUME InStep PROVE Spec => ImplementsLedger
<1>1. Prompt
  BY DEF InStep
<1> QED
  BY <1>1, PairNeverSyncs, PairAgrees, AgreementGivesLedger, PTL

\* "need to wait all peers are ready" (loop): what a proposer believes of its
\* peer from gossip sent earlier (isPeerReady) is true when it proposes.
THEOREM PairProposesWhenReady == ASSUME InStep PROVE Spec => AllPeersReady
<1> DEFINE A == \A n \in Nodes : TickPropose(n) => \A p \in node[n].peers : Ready(node[p])
<1>1. Steady => A
  BY TickProposePair
<1>2. Steady => [A]_vars
  BY <1>1
<1> QED
  BY <1>2, SteadyInvariant, PTL DEF AllPeersReady

\* "this is from new node" (handleGossip): neither node ever hears of a lower
\* height while it waits for no verdict.
THEOREM PairIsNeverBehind == ASSUME InStep PROVE Spec => OnlyNewNodesAreBehind
<1> DEFINE A == \A m \in Messages :
                  HandleGossip(m) /\ ~Waiting(node[m.to]) => m.body.height >= node[m.to].height
<1>1. Steady => A
  <2> SUFFICES ASSUME Steady, NEW m \in Messages, HandleGossip(m), ~Waiting(node[m.to])
               PROVE  m.body.height >= node[m.to].height
    OBVIOUS
  <2>1. m.body.height = node[m.to].height
    BY GossipHeard
  <2>2. m.to \in Nodes
    BY ArrivalPhases DEF Pair
  <2>3. node[m.to].height \in Nat
    BY <2>2 DEF Steady, Typed, NodesTyped, NodeTyped
  <2> QED
    BY <2>1, <2>3
<1>2. Steady => [A]_vars
  BY <1>1
<1> QED
  BY <1>2, SteadyInvariant, PTL DEF OnlyNewNodesAreBehind
=============================================================================
