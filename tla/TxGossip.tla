------------------------------- MODULE TxGossip -------------------------------
(***************************************************************************)
(* How a transaction gets from a client into the mempools: handleTransac-  *)
(* tion of nodes/rpc, BroadcastTx and handleTx of nodes/sync, on top of    *)
(* the peers that P2pService knows. The check that a transaction is known  *)
(* reads the mempool, while AppendTx only puts a request into the memory   *)
(* service's channel: copies that come in between pass the check as well.  *)
(***************************************************************************)
EXTENDS P2p, Sequences, SequencesExt, Relation

CONSTANTS
  Txs,      \* valid transactions
  Called    \* nodes that clients call

ASSUME TxGossipAssumption == Called \subseteq Nodes

VARIABLES
  pool,    \* per node: Mempool.pool
  queue,   \* per node: transactions in MemoryService.txCh
  asked,   \* transactions a client has sent
  reach    \* per transaction: nodes that it must get to

txVars == <<pool, queue, asked, reach>>
vars == <<p2pVars, txVars>>

TxMsg(origins, t) == [type |-> "tx", origins |-> origins, tx |-> t]

Init ==
  /\ P2pInit
  /\ pool = [n \in Nodes |-> {}] /\ queue = [n \in Nodes |-> {}]
  /\ asked = {} /\ reach = [t \in Txs |-> {}]

-----------------------------------------------------------------------------
\* Broadcast with exceptions: a peer gets one copy for each exception that is
\* another node, so that an exception does not keep a peer from a copy.
Broadcast(n, body, except) ==
  [m \in {Message(n, p, body) : p \in {p \in peers[n] : \E e \in Range(except) : e # p}} |->
     Cardinality({i \in DOMAIN except : except[i] # m.to})]

\* BroadcastTx: this node is added to the origins.
BroadcastTx(n, t, origins) ==
  LET path == Append(origins, n) IN Broadcast(n, TxMsg(path, t), path)

AppendTx(n, t) == queue' = [queue EXCEPT ![n] = @ \cup {t}]

\* Nodes that n is connected with, over any number of hops.
Knows == [n, p \in up |-> p \in peers[n]]
Connected(n) == {p \in up : TransitiveClosure(Knows, up)[n, p]}

\* handleTransaction of a call from a client, who is told "ok".
HandleTransaction(n, t) ==
  /\ n \in up \cap Called /\ t \notin asked /\ t \notin pool[n]
  /\ asked' = asked \cup {t}
  /\ AppendTx(n, t)
  /\ wire' = wire (+) BroadcastTx(n, t, <<>>)
  /\ reach' = [reach EXCEPT ![t] = Connected(n) \cup {n}]
  /\ UNCHANGED <<up, peers, failed, crashes, pool>>

\* handleTx: a transaction that comes back to an origin or is in the mempool
\* is dropped.
Refuses_KnownOnly(m) == m.body.tx \in pool[m.to]   \* mutant: the origins are not checked
Refuses(m) == m.to \in Range(m.body.origins) \/ m.body.tx \in pool[m.to]

\* A copy that is refused now is refused whenever it is handled: those copies
\* are handled together, before any other.
Refused == {m \in DOMAIN wire : Arrives(m, "tx") /\ Refuses(m)}

RefuseTx ==
  /\ Refused # {}
  /\ wire' = [m \in DOMAIN wire \ Refused |-> wire[m]]
  /\ UNCHANGED <<up, peers, failed, crashes, txVars>>

HandleTx_NoRelay(m) ==   \* mutant: only the node that took the call broadcasts
  /\ Refused = {} /\ Arrives(m, "tx")
  /\ AppendTx(m.to, m.body.tx)
  /\ wire' = Taken(m)
  /\ UNCHANGED <<up, peers, failed, crashes, pool, asked, reach>>
HandleTx(m) ==
  /\ Refused = {} /\ Arrives(m, "tx")
  /\ AppendTx(m.to, m.body.tx)
  /\ wire' = Taken(m) (+) BroadcastTx(m.to, m.body.tx, m.body.origins)
  /\ UNCHANGED <<up, peers, failed, crashes, pool, asked, reach>>

\* MemoryService.handleTx: the append is carried out.
MempoolAppend(n) ==
  /\ \E t \in queue[n] :
       /\ queue' = [queue EXCEPT ![n] = @ \ {t}]
       /\ pool' = [pool EXCEPT ![n] = @ \cup {t}]
  /\ UNCHANGED <<p2pVars, asked, reach>>

\* Bound: no process dies while a transaction is on its way. A mempool is gone
\* with its process, and so are the copies that it has not sent.
Dies(n) == Crash(n) /\ asked = {} /\ UNCHANGED txVars

-----------------------------------------------------------------------------
Next ==
  \/ DiscoveryStep /\ UNCHANGED txVars
  \/ RefuseTx \/ \E m \in DOMAIN wire : HandleTx(m)
  \/ \E n \in Nodes :
       \/ Start(n) /\ UNCHANGED txVars
       \/ Dies(n) \/ MempoolAppend(n)
       \/ \E t \in Txs : HandleTransaction(n, t)

\* Goroutines and connections get on with their work. Nobody promises that a
\* process is started, or that a client calls.
Spec ==
  /\ Init /\ [][Next]_vars
  /\ WF_vars(DiscoveryStep /\ UNCHANGED txVars)
  /\ WF_vars(RefuseTx \/ \E m \in DOMAIN wire : HandleTx(m))
  /\ WF_vars(\E n \in Nodes : MempoolAppend(n))

-----------------------------------------------------------------------------
\* Variables have their types.
TypeOK ==
  /\ P2pTypeOK
  /\ pool \in [Nodes -> SUBSET Txs] /\ queue \in [Nodes -> SUBSET Txs]
  /\ asked \subseteq Txs /\ reach \in [Txs -> SUBSET Nodes]

\* The origins of a copy are the path it has taken: no node twice, the sender
\* last. Copies multiply, since exceptions keep nobody from a copy and AppendTx
\* is late, but none of them goes round in a circle.
OriginsAreThePath ==
  \A m \in DOMAIN wire : m.body.type = "tx" =>
    IsInjective(m.body.origins) /\ Last(m.body.origins) = m.from

\* A transaction that a client was told "ok" for gets into the mempool of every
\* node that the called node was connected with, directly or over others,
\* unless a process dies meanwhile.
TxReachesMesh == \A t \in Txs : <>[](\A n \in reach[t] : t \in pool[n])
=============================================================================
