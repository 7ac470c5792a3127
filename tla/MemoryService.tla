---------------------------- MODULE MemoryService ----------------------------
(***************************************************************************)
(* The goroutine of memory/memory_service.go and those that share it: the  *)
(* bulk operations of storage/ (FetchAccounts and FetchAllAccounts put     *)
(* accounts, PushAccounts gets them), the senders of transactions and the  *)
(* block producer, which reads the mempool without asking the goroutine.   *)
(*                                                                         *)
(* A request channel holds Cap requests; an answer channel holds none, so  *)
(* the service waits until its client reads. A bulk operation sends all    *)
(* its requests before it reads an answer: a fetch sends them under bolt's *)
(* write lock, a push reads the answers under it.                          *)
(***************************************************************************)
EXTENDS Integers, FiniteSets, FiniteSetsExt, Sequences

CONSTANTS
  Txs,       \* transactions, each sent once
  Clients,   \* bulk operations, each run once
  Fetching,  \* those that fetch; the others push
  MaxKeys,   \* bound: accounts an operation is about
  Cap        \* make(chan ..., 10)

Nobody == "nobody"

ASSUME MemoryAssumption ==
  /\ IsFiniteSet(Txs) /\ IsFiniteSet(Clients) /\ Fetching \subseteq Clients
  /\ Nobody \notin Clients
  /\ MaxKeys \in Nat \ {0} /\ Cap \in Nat \ {0}

VARIABLES
  pool,      \* Mempool.pool
  txCh,      \* requests to append or to remove transactions
  stateCh,   \* clients whose requests wait, in order
  serving,   \* the client the service hands an answer to, or Nobody
  lock,      \* holder of bolt's write lock, or Nobody
  keys,      \* per client: how many accounts its operation is about
  phase,     \* per client
  asked,     \* per client: requests it has sent
  got,       \* per client: answers it has read
  producer,  \* "idle", "sized", "proposed" or "failed"
  size,      \* bundle length it has computed
  bundle,    \* transactions it has taken
  sent       \* transactions sent so far

service == <<stateCh, serving, lock, keys, phase, asked, got>>
mempool == <<pool, txCh, producer, size, bundle, sent>>
vars == <<service, mempool>>

Init ==
  /\ pool = {} /\ txCh = <<>> /\ stateCh = <<>> /\ serving = Nobody /\ lock = Nobody
  /\ keys \in [Clients -> 1 .. MaxKeys]
  /\ phase = [c \in Clients |-> "start"]
  /\ asked = [c \in Clients |-> 0] /\ got = [c \in Clients |-> 0]
  /\ producer = "idle" /\ size = 0 /\ bundle = {} /\ sent = {}

HasRoom_OffByOne(ch) == Len(ch) < Cap - 1   \* mutant
HasRoom(ch) == Len(ch) < Cap

-----------------------------------------------------------------------------
Goto(c, label) == phase' = [phase EXCEPT ![c] = label]

\* db.Update of FetchAccounts begins; PushAccounts asks first.
Begin(c) ==
  /\ phase[c] = "start" /\ Goto(c, "ask")
  /\ IF c \in Fetching THEN lock = Nobody /\ lock' = c ELSE UNCHANGED lock
  /\ UNCHANGED <<stateCh, serving, keys, asked, got, mempool>>

\* PutAccountState or GetAccountState.
Ask(c) ==
  /\ phase[c] = "ask" /\ asked[c] < keys[c] /\ HasRoom(stateCh)
  /\ stateCh' = Append(stateCh, c)
  /\ asked' = [asked EXCEPT ![c] = @ + 1]
  /\ UNCHANGED <<serving, lock, keys, phase, got, mempool>>

\* The fetch leaves db.Update, the push enters it.
Asked_KeepsLock(c) ==   \* mutant: the answers of a fetch are read inside db.Update
  /\ phase[c] = "ask" /\ asked[c] = keys[c] /\ Goto(c, "read")
  /\ IF c \in Fetching THEN UNCHANGED lock ELSE lock = Nobody /\ lock' = c
  /\ UNCHANGED <<stateCh, serving, keys, asked, got, mempool>>
Asked(c) ==
  /\ phase[c] = "ask" /\ asked[c] = keys[c] /\ Goto(c, "read")
  /\ IF c \in Fetching THEN lock' = Nobody ELSE lock = Nobody /\ lock' = c
  /\ UNCHANGED <<stateCh, serving, keys, asked, got, mempool>>

\* handleState's send meets the client's receive.
Read(c) ==
  /\ phase[c] = "read" /\ serving = c
  /\ serving' = Nobody
  /\ got' = [got EXCEPT ![c] = @ + 1]
  /\ UNCHANGED <<stateCh, lock, keys, phase, asked, mempool>>

Finish(c) ==
  /\ phase[c] = "read" /\ got[c] = keys[c] /\ Goto(c, "done")
  /\ lock' = IF lock = c THEN Nobody ELSE lock
  /\ UNCHANGED <<stateCh, serving, keys, asked, got, mempool>>

Client(c) == Begin(c) \/ Ask(c) \/ Asked(c) \/ Read(c) \/ Finish(c)

-----------------------------------------------------------------------------
\* run: one request at a time, of either channel.
RunState ==
  /\ serving = Nobody /\ stateCh # <<>>
  /\ serving' = Head(stateCh) /\ stateCh' = Tail(stateCh)
  /\ UNCHANGED <<lock, keys, phase, asked, got, mempool>>

RunTx ==
  /\ serving = Nobody /\ txCh # <<>>
  /\ pool' = IF Head(txCh).kind = "append" THEN pool \cup Head(txCh).txs
                                          ELSE pool \ Head(txCh).txs
  /\ txCh' = Tail(txCh)
  /\ UNCHANGED <<service, producer, size, bundle, sent>>

\* The rpc server or a peer's gossip.
AppendTx(t) ==
  /\ t \notin sent /\ sent' = sent \cup {t}
  /\ HasRoom(txCh) /\ txCh' = Append(txCh, [kind |-> "append", txs |-> {t}])
  /\ UNCHANGED <<service, pool, producer, size, bundle>>

-----------------------------------------------------------------------------
LastPowerOf2(k) == Max({2 ^ i : i \in 0 .. k} \cap 1 .. k)
IsPowerOf2(k) == \E i \in 0 .. k : k = 2 ^ i

\* The loop sees LenTx() > 0, and GetTxsForBlock takes the length.
SizeBundle ==
  /\ producer = "idle" /\ pool # {}
  /\ producer' = "sized" /\ size' = LastPowerOf2(Cardinality(pool))
  /\ UNCHANGED <<service, pool, txCh, bundle, sent>>

\* get(n) on the pool as it is by now; transactions of equal nonce tie.
Taken ==
  CASE size > Cardinality(pool) -> {{}}
    [] size = 1 /\ pool # {} -> {pool}
    [] OTHER -> {b \in SUBSET pool : Cardinality(b) = size}

\* HashTransactions fails on other lengths, and the error ends the node.
TakeBundle ==
  /\ producer = "sized"
  /\ bundle' \in Taken
  /\ producer' = IF IsPowerOf2(Cardinality(bundle')) THEN "proposed" ELSE "failed"
  /\ size' = 0
  /\ UNCHANGED <<service, pool, txCh, sent>>

\* The block is final and stored: RemoveTxs.
RemoveTxs ==
  /\ producer = "proposed" /\ HasRoom(txCh)
  /\ txCh' = Append(txCh, [kind |-> "remove", txs |-> bundle])
  /\ producer' = "idle" /\ bundle' = {}
  /\ UNCHANGED <<service, pool, size, sent>>

\* The block is rejected: its transactions stay.
RejectBlock ==
  /\ producer = "proposed" /\ producer' = "idle" /\ bundle' = {}
  /\ UNCHANGED <<service, pool, txCh, size, sent>>

Next ==
  \/ \E c \in Clients : Client(c)
  \/ RunState \/ RunTx
  \/ \E t \in Txs : AppendTx(t)
  \/ SizeBundle \/ TakeBundle \/ RemoveTxs \/ RejectBlock

Spec == Init /\ [][Next]_vars

\* Goroutines run. The select of run() picks at random among ready channels,
\* so neither channel starves; what clients send is up to them.
FairSpec ==
  /\ Spec
  /\ \A c \in Clients : WF_vars(Client(c))
  /\ SF_vars(RunState) /\ SF_vars(RunTx)

-----------------------------------------------------------------------------
\* Nothing exceeds its bounds, and the write lock is held by a client that is
\* inside db.Update.
TypeOK ==
  /\ pool \cup bundle \cup sent \subseteq Txs /\ size \in 0 .. Cardinality(Txs)
  /\ Len(txCh) <= Cap /\ Len(stateCh) <= Cap
  /\ producer \in {"idle", "sized", "proposed", "failed"}
  /\ serving \in Clients \cup {Nobody}
  /\ \A c \in Clients : got[c] <= asked[c] /\ asked[c] <= keys[c]
  /\ \A c \in Clients : lock = c <=> phase[c] = (IF c \in Fetching THEN "ask" ELSE "read")

Begun == {c \in Clients : phase[c] \in {"ask", "read"}}
Requests(cs) == Cardinality({r \in cs \X (1 .. MaxKeys) : r[2] <= keys[r[1]]})
Moves(c) ==
  \/ phase[c] = "ask" /\ asked[c] < keys[c] /\ HasRoom(stateCh)
  \/ phase[c] = "ask" /\ asked[c] = keys[c] /\ (c \in Fetching \/ lock = Nobody)
  \/ phase[c] = "read" /\ (serving = c \/ got[c] = keys[c])

\* Operations whose requests together fit into the channel and the one answer
\* in hand are never stuck on each other, although one waits for the lock the
\* other holds and that one for room in the channel: FetchAccounts (revert)
\* against PushAccounts (finality, sync). Larger ones do get stuck.
StuckOnlyWhenFull ==
  Begun # {} /\ (\A c \in Begun : ~Moves(c)) /\ (serving # Nobody \/ stateCh = <<>>) =>
    Requests(Begun) > Cap + 1

\* Every bulk operation returns, and so do revert, finality and start-up, when
\* all that can run at a time fit together.
OperationsReturn ==
  \A c \in Clients :
    phase[c] = "ask" /\ Requests(Clients) <= Cap + 1 ~> phase[c] = "done"

\* A transaction that was accepted is in the mempool or in a block before
\* long, although its service also waits for storage's clients.
TxsReachPool ==
  \A t \in Txs : t \in sent /\ Requests(Clients) <= Cap + 1 ~>
                  t \in pool \/ \A i \in DOMAIN txCh : t \notin txCh[i].txs

\* "data length has to be power of 2" (NewMerkleTreeFromRaw): the bundle that
\* GetTxsForBlock returns can be hashed.
BundleIsPowerOf2 == producer # "failed"
=============================================================================
