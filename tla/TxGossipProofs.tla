--------------------------- MODULE TxGossipProofs ---------------------------
(***************************************************************************)
(* Theorems about discovery and the flooding of transactions, for any set  *)
(* of nodes, whichever of them run, however often they die, and with or    *)
(* without late removals of peers.                                         *)
(***************************************************************************)
EXTENDS TxGossip, TLAPS, FiniteSetTheorems, SequenceTheorems

\* The state of P2pService: no node is a peer of its own.
PeersTyped ==
  /\ up \subseteq Nodes /\ crashes \in 0 .. MaxCrashes /\ failed \subseteq Nodes \X Nodes
  /\ peers \in [Nodes -> SUBSET Nodes] /\ \A n \in Nodes : n \notin peers[n]

\* The state of the mempools: only what a client has sent.
PoolsTyped ==
  /\ asked \subseteq Txs /\ reach \in [Txs -> SUBSET Nodes]
  /\ pool \in [Nodes -> SUBSET asked] /\ queue \in [Nodes -> SUBSET asked]

\* A message: what each kind of body holds. The origins of a transaction are
\* different nodes, and the last of them has sent it.
GoodBody(from, body, txs) ==
  /\ body.type = "welcome" => body.known \subseteq Nodes
  /\ body.type = "tx" =>
       /\ body.tx \in txs /\ body.origins \in Seq(Nodes)
       /\ IsInjective(body.origins) /\ Last(body.origins) = from
GoodMessage(m, txs) ==
  m.from \in Nodes /\ m.to \in Nodes \ {m.from} /\ GoodBody(m.from, m.body, txs)

\* A bag of such messages.
GoodBag(B, txs) == \A m \in DOMAIN B : B[m] \in Nat \ {0} /\ GoodMessage(m, txs)

Inv == PeersTyped /\ PoolsTyped /\ GoodBag(wire, asked)

-----------------------------------------------------------------------------
\* Union and difference of bags: what is in the result comes from the parts.
LEMMA SumOfBags ==
  ASSUME NEW txs, NEW B, NEW C, GoodBag(B, txs), GoodBag(C, txs)
  PROVE  GoodBag(B (+) C, txs)
<1>1. DOMAIN (B (+) C) = DOMAIN B \cup DOMAIN C
  BY DEF (+)
<1>2. ASSUME NEW m \in DOMAIN B \cup DOMAIN C
      PROVE  (B (+) C)[m] \in Nat \ {0}
  <2>1. (B (+) C)[m] = (IF m \in DOMAIN B THEN B[m] ELSE 0) + (IF m \in DOMAIN C THEN C[m] ELSE 0)
    BY DEF (+)
  <2> QED
    BY <2>1 DEF GoodBag
<1> QED
  BY <1>1, <1>2 DEF GoodBag

\* Taking messages off the wire adds none.
LEMMA DifferenceOfBags ==
  ASSUME NEW txs, NEW B, NEW S, GoodBag(B, txs) PROVE GoodBag(B (-) SetToBag(S), txs)
<1> DEFINE D == [e \in DOMAIN B |-> IF e \in DOMAIN SetToBag(S) THEN B[e] - SetToBag(S)[e] ELSE B[e]]
<1>1. B (-) SetToBag(S) = [e \in {d \in DOMAIN D : D[d] > 0} |-> D[e]]
  BY DEF (-)
<1>2. \A e \in DOMAIN B : D[e] \in Int
  BY DEF GoodBag, SetToBag
<1> QED
  BY <1>1, <1>2 DEF GoodBag

\* A part of a bag, as it is left by a crash or by the refusal of copies.
LEMMA PartOfBag ==
  ASSUME NEW txs, NEW B, NEW S, S \subseteq DOMAIN B, GoodBag(B, txs)
  PROVE  GoodBag([m \in S |-> B[m]], txs)
BY DEF GoodBag

\* One message to each of a set of other nodes.
LEMMA GoodSends ==
  ASSUME NEW n \in Nodes, NEW to \in SUBSET (Nodes \ {n}), NEW body, NEW txs,
         GoodBody(n, body, txs)
  PROVE  GoodBag(Sends(n, to, body), txs)
BY DEF GoodBag, GoodMessage, Sends, Message, SetToBag

\* Broadcast with exceptions: every copy counts at least once.
LEMMA GoodBroadcast ==
  ASSUME PeersTyped, NEW n \in Nodes, NEW body, NEW txs, GoodBody(n, body, txs),
         NEW except \in Seq(Nodes)
  PROVE  GoodBag(Broadcast(n, body, except), txs)
<1> DEFINE to == {p \in peers[n] : \E e \in Range(except) : e # p}
           rest(m) == {i \in DOMAIN except : except[i] # m.to}
<1>1. Broadcast(n, body, except) = [m \in {Message(n, p, body) : p \in to} |-> Cardinality(rest(m))]
  BY DEF Broadcast
<1>2. ASSUME NEW p \in to
      PROVE  GoodMessage(Message(n, p, body), txs) /\ Cardinality(rest(Message(n, p, body))) \in Nat \ {0}
  <2>1. GoodMessage(Message(n, p, body), txs)
    BY DEF PeersTyped, GoodMessage, Message
  <2>2. PICK i \in DOMAIN except : except[i] # p
    BY DEF Range
  <2> DEFINE R == rest(Message(n, p, body))
  <2>3. i \in R
    BY <2>2 DEF Message
  <2>4. IsFiniteSet(DOMAIN except)
    BY FS_Interval
  <2>5. IsFiniteSet(R)
    BY <2>4, FS_Subset
  <2> HIDE DEF R
  <2>6. Cardinality(R) \in Nat /\ Cardinality(R) # 0
    BY <2>3, <2>5, FS_CardinalityType, FS_EmptySet
  <2> QED
    BY <2>1, <2>6 DEF R
<1> QED
  BY <1>1, <1>2 DEF GoodBag

\* BroadcastTx of a node that is not among the origins.
LEMMA GoodBroadcastTx ==
  ASSUME PeersTyped, NEW n \in Nodes, NEW txs, NEW t \in txs, NEW origins \in Seq(Nodes),
         IsInjective(origins), n \notin Range(origins)
  PROVE  GoodBag(BroadcastTx(n, t, origins), txs)
<1> DEFINE path == Append(origins, n)
<1>1. /\ path \in Seq(Nodes) /\ Len(path) = Len(origins) + 1 /\ path[Len(origins) + 1] = n
      /\ \A i \in 1 .. Len(origins) : path[i] = origins[i]
  OBVIOUS
<1> HIDE DEF path
<1>2. Last(path) = n
  BY <1>1 DEF Last
<1>3. IsInjective(path)
  BY <1>1 DEF IsInjective, Range
<1>4. GoodBody(n, TxMsg(path, t), txs)
  BY <1>1, <1>2, <1>3 DEF GoodBody, TxMsg
<1> QED
  BY <1>1, <1>4, GoodBroadcast DEF BroadcastTx, path
\* What was good stays so when clients send more.
LEMMA MoreTxs == ASSUME NEW B, NEW txs, NEW more, txs \subseteq more, GoodBag(B, txs) PROVE GoodBag(B, more)
BY DEF GoodBag, GoodMessage, GoodBody

-----------------------------------------------------------------------------
\* Nothing on the wire satisfies the invariant.
LEMMA InitInv == Init => Inv
<1> SUFFICES ASSUME Init PROVE Inv
  OBVIOUS
<1> USE P2pAssumption
<1>1. PeersTyped /\ PoolsTyped
  BY DEF Init, P2pInit, PeersTyped, PoolsTyped
<1>2. GoodBag(wire, asked)
  BY DEF Init, P2pInit, EmptyBag, SetToBag, GoodBag
<1> QED
  BY <1>1, <1>2 DEF Inv

\* addPeer never adds the node itself.
LEMMA AddPeerTyped ==
  ASSUME PeersTyped, NEW n \in Nodes, NEW p \in Nodes, AddPeer(n, p), UNCHANGED <<up, failed, crashes>>
  PROVE  PeersTyped'
BY DEF PeersTyped, AddPeer

\* A message that arrives is a good one.
LEMMA ArrivesGood ==
  ASSUME Inv, NEW m, NEW type, Arrives(m, type)
  PROVE  /\ m \in DOMAIN wire /\ m.body.type = type /\ GoodMessage(m, asked)
         /\ GoodBag(Taken(m), asked)
BY DifferenceOfBags DEF Inv, Arrives, GoodBag, Taken

\* Discovery preserves the invariant: Start, handleJoin, handleWelcome, and
\* the failure of a dial with removePeer.
LEMMA StartInv == ASSUME Inv, NEW n \in Nodes, Start(n), UNCHANGED txVars PROVE Inv'
<1>1. GoodBag(Sends(n, Nodes \ {n}, Hello), asked)
  <2>1. GoodBody(n, Hello, asked)
    BY DEF GoodBody, Hello
  <2> QED
    BY <2>1, GoodSends
<1>2. GoodBag(wire', asked)
  BY <1>1, SumOfBags DEF Inv, Start
<1> QED
  BY <1>2 DEF Inv, Start, PeersTyped, PoolsTyped, txVars

\* A hello and its answer carry no transaction.
LEMMA HandleJoinInv == ASSUME Inv, NEW m \in DOMAIN wire, HandleJoin(m), UNCHANGED txVars PROVE Inv'
<1>1. m.from \in Nodes /\ m.to \in Nodes \ {m.from} /\ GoodBag(Taken(m), asked)
  BY ArrivesGood DEF HandleJoin, GoodMessage
<1>2. PeersTyped'
  BY <1>1, AddPeerTyped DEF HandleJoin, Inv
<1>3. GoodBody(m.to, Welcome(peers'[m.to]), asked)
  BY <1>1, <1>2 DEF GoodBody, Welcome, PeersTyped
<1>4. GoodBag(Sends(m.to, {m.from}, Welcome(peers'[m.to])), asked)
  BY <1>1, <1>3, GoodSends
<1>5. GoodBag(wire', asked)
  BY <1>1, <1>4, SumOfBags DEF HandleJoin
<1> QED
  BY <1>2, <1>5 DEF Inv, PoolsTyped, txVars

\* Nor does a welcome.
LEMMA HandleWelcomeInv ==
  ASSUME Inv, NEW m \in DOMAIN wire, HandleWelcome(m), UNCHANGED txVars PROVE Inv'
<1> DEFINE to == m.body.known \ (peers'[m.to] \cup {m.to})
<1>1. /\ m.from \in Nodes /\ m.to \in Nodes \ {m.from} /\ GoodBag(Taken(m), asked)
      /\ m.body.known \subseteq Nodes
  BY ArrivesGood DEF HandleWelcome, GoodMessage, GoodBody
<1>2. PeersTyped'
  BY <1>1, AddPeerTyped DEF HandleWelcome, Inv
<1>3. GoodBody(m.to, Hello, asked)
  BY DEF GoodBody, Hello
<1>4. to \subseteq Nodes \ {m.to}
  BY <1>1
<1>5. GoodBag(Sends(m.to, to, Hello), asked)
  BY <1>1, <1>3, <1>4, GoodSends
<1>6. GoodBag(wire', asked)
  BY <1>1, <1>5, SumOfBags DEF HandleWelcome
<1> QED
  BY <1>2, <1>6 DEF Inv, PoolsTyped, txVars

\* A failed dial takes a copy off the wire.
LEMMA FailInv ==
  ASSUME Inv, UNCHANGED txVars,
         (\E m \in DOMAIN wire : DialFails(m)) \/ (\E n, p \in Nodes : OnFail(n, p))
  PROVE  Inv'
<1> USE DEF Inv
<1>1. PoolsTyped'
  BY DEF PoolsTyped, txVars
<1>2. CASE \E m \in DOMAIN wire : DialFails(m)
  <2> PICK m \in DOMAIN wire : DialFails(m)
    BY <1>2
  <2>1. m.from \in Nodes /\ m.to \in Nodes
    BY DEF GoodBag, GoodMessage
  <2>2. GoodBag(wire', asked)
    BY DifferenceOfBags DEF DialFails, Taken
  <2>3. PeersTyped'
    BY <2>1 DEF DialFails, PeersTyped
  <2> QED
    BY <1>1, <2>2, <2>3 DEF txVars
<1>3. CASE \E n, p \in Nodes : OnFail(n, p)
  <2>1. PeersTyped'
    BY <1>3 DEF OnFail, PeersTyped
  <2> QED
    BY <1>1, <1>3, <2>1 DEF OnFail, txVars
<1> QED
  BY <1>2, <1>3
\* handleTransaction, handleTx and the append of the memory service preserve
\* the invariant. A copy that is handled has not been here before.
LEMMA HandleTransactionInv ==
  ASSUME Inv, NEW n \in Nodes, NEW t \in Txs, HandleTransaction(n, t) PROVE Inv'
<1> USE DEF Inv
<1>1. PeersTyped'
  BY DEF HandleTransaction, PeersTyped
<1>2. /\ asked' = asked \cup {t} /\ queue' = [queue EXCEPT ![n] = @ \cup {t}] /\ pool' = pool
      /\ reach' = [reach EXCEPT ![t] = Connected(n) \cup {n}]
  BY DEF HandleTransaction, AppendTx
<1>3. Connected(n) \subseteq Nodes
  BY DEF Connected, PeersTyped
<1>4. PoolsTyped'
  <2>1. pool' \in [Nodes -> SUBSET asked'] /\ queue' \in [Nodes -> SUBSET asked'] /\ asked' \subseteq Txs
    BY <1>2 DEF PoolsTyped
  <2>2. reach' \in [Txs -> SUBSET Nodes]
    BY <1>2, <1>3 DEF PoolsTyped
  <2> QED
    BY <2>1, <2>2 DEF PoolsTyped
<1>5. GoodBag(wire, asked')
  BY <1>2, MoreTxs
<1>6. GoodBag(BroadcastTx(n, t, <<>>), asked')
  <2>1. <<>> \in Seq(Nodes) /\ IsInjective(<<>>) /\ n \notin Range(<<>>)
    BY DEF IsInjective, Range
  <2> QED
    BY <1>2, <2>1, GoodBroadcastTx
<1>7. GoodBag(wire', asked')
  BY <1>5, <1>6, SumOfBags DEF HandleTransaction
<1> QED
  BY <1>1, <1>4, <1>7

\* A forwarded copy has its node added to the path.
LEMMA HandleTxInv == ASSUME Inv, NEW m \in DOMAIN wire, HandleTx(m) PROVE Inv'
<1>1. /\ m.to \in Nodes /\ GoodBag(Taken(m), asked) /\ m.body.tx \in asked
      /\ m.body.origins \in Seq(Nodes) /\ IsInjective(m.body.origins)
  BY ArrivesGood DEF HandleTx, GoodMessage, GoodBody
<1>2. m.to \notin Range(m.body.origins)
  BY DEF HandleTx, Refused, Refuses
<1>3. GoodBag(BroadcastTx(m.to, m.body.tx, m.body.origins), asked)
  BY <1>1, <1>2, GoodBroadcastTx DEF Inv
<1>4. GoodBag(wire', asked)
  BY <1>1, <1>3, SumOfBags DEF HandleTx
<1>5. PeersTyped' /\ asked' = asked
  BY DEF HandleTx, Inv, PeersTyped
<1>6. PoolsTyped'
  BY <1>1, <1>5 DEF HandleTx, AppendTx, Inv, PoolsTyped
<1> QED
  BY <1>4, <1>5, <1>6 DEF Inv

\* Refused copies leave the wire.
LEMMA RefuseTxInv == ASSUME Inv, RefuseTx PROVE Inv'
<1>1. GoodBag(wire', asked)
  <2>1. DOMAIN wire \ Refused \subseteq DOMAIN wire
    OBVIOUS
  <2> QED
    BY <2>1, PartOfBag DEF Inv, RefuseTx
<1> QED
  BY <1>1 DEF Inv, RefuseTx, PeersTyped, PoolsTyped, txVars

\* The mempool takes what a handler has queued.
LEMMA MempoolAppendInv == ASSUME Inv, NEW n \in Nodes, MempoolAppend(n) PROVE Inv'
<1>1. PoolsTyped'
  BY DEF MempoolAppend, Inv, PoolsTyped
<1> QED
  BY <1>1 DEF MempoolAppend, Inv, PeersTyped, p2pVars

\* A process that dies takes peers and messages with it.
LEMMA DiesInv == ASSUME Inv, NEW n \in Nodes, Dies(n) PROVE Inv'
<1>1. PeersTyped'
  <2>1. up' \subseteq Nodes /\ failed' \subseteq Nodes \X Nodes
    BY DEF Dies, Crash, Inv, PeersTyped
  <2>2. crashes' \in 0 .. MaxCrashes
    BY P2pAssumption DEF Dies, Crash, Inv, PeersTyped
  <2>3. peers' \in [Nodes -> SUBSET Nodes] /\ \A p \in Nodes : p \notin peers'[p]
    BY DEF Dies, Crash, Inv, PeersTyped
  <2> QED
    BY <2>1, <2>2, <2>3 DEF PeersTyped
<1>2. PICK lost \in SUBSET {m \in DOMAIN wire : n \in {m.from, m.to}} :
        wire' = [m \in {m \in DOMAIN wire \ lost : m.from = n => m.to \in up} |-> wire[m]]
  BY DEF Dies, Crash
<1>3. GoodBag(wire', asked)
  <2>1. {m \in DOMAIN wire \ lost : m.from = n => m.to \in up} \subseteq DOMAIN wire
    OBVIOUS
  <2> QED
    BY <1>2, <2>1, PartOfBag DEF Inv
<1> QED
  BY <1>1, <1>3 DEF Dies, Inv, PoolsTyped, txVars

\* Every step preserves the invariant.
LEMMA NextInv == ASSUME Inv, [Next]_vars PROVE Inv'
<1>1. CASE DiscoveryStep /\ UNCHANGED txVars
  BY <1>1, HandleJoinInv, HandleWelcomeInv, FailInv DEF DiscoveryStep
<1>2. CASE RefuseTx \/ \E m \in DOMAIN wire : HandleTx(m)
  BY <1>2, RefuseTxInv, HandleTxInv
<1>3. CASE \E n \in Nodes : \/ Start(n) /\ UNCHANGED txVars
                           \/ Dies(n) \/ MempoolAppend(n)
                           \/ \E t \in Txs : HandleTransaction(n, t)
  BY <1>3, StartInv, DiesInv, MempoolAppendInv, HandleTransactionInv
<1>4. CASE UNCHANGED vars
  BY <1>4 DEF vars, p2pVars, txVars, Inv, PeersTyped, PoolsTyped
<1> QED
  BY <1>1, <1>2, <1>3, <1>4 DEF Next

\* The invariant holds in every reachable state.
LEMMA Invariance == Spec => []Inv
<1>1. Inv /\ [Next]_vars => Inv'
  BY NextInv
<1> QED
  BY <1>1, InitInv, PTL DEF Spec

\* Types; in particular no node becomes its own peer or dials itself, however
\* hellos and welcomes overtake each other (addPeer, handleWelcome).
THEOREM TypeCorrect == Spec => []TypeOK
<1>1. Inv => TypeOK
  BY DEF Inv, TypeOK, P2pTypeOK, PeersTyped, PoolsTyped, GoodBag, GoodMessage
<1> QED
  BY <1>1, Invariance, PTL

\* No copy of a transaction goes round in a circle (BroadcastTx, handleTx),
\* although exceptions keep no peer from a copy and AppendTx is late.
THEOREM NoCircles == Spec => []OriginsAreThePath
<1>1. Inv => OriginsAreThePath
  BY DEF Inv, GoodBag, GoodMessage, GoodBody, OriginsAreThePath
<1> QED
  BY <1>1, Invariance, PTL

\* Flooding ends: a copy makes at most as many hops as there are nodes.
ShortPaths ==
  \A m \in DOMAIN wire : m.body.type = "tx" => Len(m.body.origins) <= Cardinality(Nodes)

\* No copy travels farther than there are nodes (BroadcastTx, handleTx).
THEOREM FloodingEnds == Spec => []ShortPaths
<1>1. Inv => ShortPaths
  <2> SUFFICES ASSUME Inv, NEW m \in DOMAIN wire, m.body.type = "tx"
               PROVE  Len(m.body.origins) <= Cardinality(Nodes)
    BY DEF ShortPaths
  <2> DEFINE o == m.body.origins
  <2>1. o \in Seq(Nodes) /\ IsInjective(o)
    BY DEF Inv, GoodBag, GoodMessage, GoodBody
  <2> HIDE DEF o
  <2>2. o \in Injection(1 .. Len(o), Nodes)
    BY <2>1 DEF Injection, IsInjective
  <2>3. Cardinality(1 .. Len(o)) = Len(o)
    BY <2>1, FS_Interval
  <2>4. Cardinality(1 .. Len(o)) <= Cardinality(Nodes)
    BY <2>2, FS_Injection, P2pAssumption
  <2> QED
    BY <2>3, <2>4 DEF o
<1> QED
  BY <1>1, Invariance, PTL
=============================================================================
