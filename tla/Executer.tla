------------------------------ MODULE Executer ------------------------------
(***************************************************************************)
(* Execution of blocks on one node: executers/executer.go, the account     *)
(* arithmetic of accounts/account.go, the memory state database that the   *)
(* executer reads and writes (memory/) and the accounts bucket of the      *)
(* storage it pushes to and fetches from (storage/).                       *)
(*                                                                         *)
(* A job is one call of Execute: the goroutine runs the transactions of    *)
(* its block one after the other (ExecuteNow), then a second goroutine     *)
(* waits on the finality channel and either pushes the touched accounts to *)
(* storage or fetches them back (waitForFinality). Every inbound           *)
(* connection has its own goroutine (p2p/server.go), so jobs interleave;   *)
(* the grain is one transaction, one bulk read under the write lock of the *)
(* database, one request served by the memory. A job whose channel is      *)
(* dropped by the consensus reset() simply never gets its verdict.         *)
(***************************************************************************)
EXTENDS Integers, FiniteSets, Sequences

CONSTANTS
  Accounts,          \* public keys
  Generator,         \* signer of the genesis block, holder of the supply
  GeneratorBalance,  \* common.GeneratorBalance
  Txs,               \* transactions that may appear in a block
  Blocks,            \* bundles that may be executed, sequences of Txs
  Jobs               \* names of the Execute calls a behaviour may make

Kinds == {"airdrop", "transfer", "query"}

\* rpc.VerifyAirdropCall and rpc.VerifyTransferCall reject the amount 0 and
\* amounts from GeneratorBalance on before a transaction enters a mempool.
TxRecord == [kind : Kinds, caller : Accounts, to : Accounts, nonce : Nat,
             amount : 1 .. (GeneratorBalance - 1)]

ASSUME ConstantsAssumption ==
  /\ GeneratorBalance \in Nat
  /\ Generator \in Accounts
  /\ Txs \subseteq TxRecord
  /\ Blocks \subseteq Seq(Txs)

AccountState == [nonce : Nat, balance : 0 .. GeneratorBalance]
NewAccount == [nonce |-> 0, balance |-> 0]

VARIABLES
  mem,       \* state memory: a key that is not in it reads as NewAccount
  inMem,     \* keys present in the state memory map
  sto,       \* accounts bucket: a key that is not in it reads as NewAccount
  inSto,     \* keys present in the accounts bucket
  job,       \* progress of every Execute call
  memHung,   \* the memory goroutine waits forever for a result to be taken
  crossed    \* history: accounts that a push has read from memory while an
             \* older state of them was on its way there from storage

accounts == <<mem, inMem, sto, inSto>>
vars == <<mem, inMem, sto, inSto, job, memHung, crossed>>

\* "reverting" is the revert of a failed transaction, "rejected" that of a
\* block; "pushing": the memory holds out the first account of a push, which
\* waits for the write lock; "storing": the push has the lock.
Phases == {"unused", "running", "reverting", "waiting", "pushing", "storing", "rejected", "done"}

JobState == [phase : Phases, todo : Seq(Txs),
             executed : SUBSET Accounts,  \* keys to push or to fetch at the verdict
             dirty : SUBSET Accounts,     \* keys FetchAccounts is called with
             puts : SUBSET Accounts,      \* keys it has read and memory has not put
             got : SUBSET Accounts,       \* keys that PushAccounts has read
             held : [Accounts -> AccountState]]   \* states of puts or got

Nothing == [a \in Accounts |-> NewAccount]
Unused == [phase |-> "unused", todo |-> <<>>, executed |-> {}, dirty |-> {},
           puts |-> {}, got |-> {}, held |-> Nothing]
Gone == [Unused EXCEPT !.phase = "done"]

\* The memory goroutine is at its select; nobody is inside db.Update.
MemFree == ~memHung /\ \A j \in Jobs : job[j].phase # "pushing"
LockFree_Always == TRUE   \* mutant: push and fetch do not exclude each other
LockFree == \A j \in Jobs : job[j].phase # "storing"

-----------------------------------------------------------------------------
\* AccountState.Subtract, Add and CheckNonce succeed under these conditions.
CanSubtract_OffByOne(s, amount) == amount <= s.balance + 1   \* mutant
CanSubtract(s, amount) == amount <= s.balance
CanAdd(s, amount) == amount <= GeneratorBalance - s.balance
NonceOk_AtMost(s, nonce) == nonce <= s.nonce   \* mutant
NonceOk(s, nonce) == s.nonce = nonce

\* The two accounts a transaction reads and writes: payer first.
Payer(t) == IF t.kind = "airdrop" THEN Generator ELSE t.caller
Payee(t) == IF t.kind = "airdrop" THEN t.caller ELSE t.to
Touched(t) == {Payer(t), Payee(t)}

\* airdropImpl and transferImpl ask for both accounts before they read either
\* answer, on unbuffered channels. An error on the payer, and in transferImpl
\* a wrong nonce too, returns before the second answer is taken: the memory
\* goroutine stays blocked on that send.
AbandonsAnswer(t) ==
  \/ Payer(t) \notin inMem
  \/ t.kind = "transfer" /\ ~NonceOk(mem[t.caller], t.nonce)

\* The checks, in the order of the code; a payee that is not in memory
\* is created by an airdrop and refused by a transfer. The memory hands out
\* pointers, so a transaction whose payer is its payee subtracts and adds on
\* the same state.
Subtracts(t) ==
  /\ NonceOk(mem[t.caller], t.nonce)
  /\ t.kind = "transfer" => t.to \in inMem
  /\ CanSubtract(mem[Payer(t)], t.amount)

Succeeds(t) ==
  /\ Subtracts(t)
  /\ Payer(t) # Payee(t) => CanAdd(mem[Payee(t)], t.amount)

\* What a call that fails has written through its pointers: CheckNonce has
\* counted, Subtract has taken the amount that Add refuses.
Tried(t) ==
  [a \in Accounts |->
    [nonce |-> mem[a].nonce +
       (IF a = t.caller /\ a \in inMem /\ NonceOk(mem[a], t.nonce) THEN 1 ELSE 0),
     balance |-> mem[a].balance - (IF a = Payer(t) /\ Subtracts(t) THEN t.amount ELSE 0)]]

Applied_Copies(t) ==   \* mutant: the memory hands out copies, the payee's Put wins
  [a \in Accounts |->
    [nonce |-> mem[a].nonce + (IF a = t.caller THEN 1 ELSE 0),
     balance |-> CASE a = Payee(t) -> mem[a].balance + t.amount
                   [] a = Payer(t) /\ a # Payee(t) -> mem[a].balance - t.amount
                   [] OTHER -> mem[a].balance]]
Applied(t) ==
  [a \in Accounts |->
    [nonce |-> mem[a].nonce + (IF a = t.caller THEN 1 ELSE 0),
     balance |-> mem[a].balance - (IF a = Payer(t) THEN t.amount ELSE 0)
                                + (IF a = Payee(t) THEN t.amount ELSE 0)]]

-----------------------------------------------------------------------------
\* A node that holds the genesis block: the generator's account has been put
\* in storage by Faucet.Init and in memory by FetchAccounts.
Genesis == [a \in Accounts |->
              IF a = Generator THEN [nonce |-> 0, balance |-> GeneratorBalance]
                               ELSE NewAccount]

Init ==
  /\ mem = Genesis /\ inMem = {Generator}
  /\ sto = Genesis /\ inSto = {Generator}
  /\ job = [j \in Jobs |-> Unused]
  /\ memHung = FALSE /\ crossed = {}

\* BlockProducer.NewBlock or Verify calls Execute on a bundle.
Execute(j, b) ==
  /\ job[j].phase = "unused"
  /\ job' = [job EXCEPT ![j] = [Unused EXCEPT !.phase = "running", !.todo = b]]
  /\ UNCHANGED <<accounts, memHung, crossed>>

Running(j) == job[j].phase = "running" /\ job[j].todo # <<>>
Current(j) == Head(job[j].todo)

\* The next transaction is an airdrop or a transfer, and the memory serves it.
Served(j) == Running(j) /\ Current(j).kind # "query" /\ MemFree

\* A call kind without an executer: `default: continue`.
ExecuteSkip(j) ==
  /\ Running(j) /\ Current(j).kind = "query"
  /\ job' = [job EXCEPT ![j].todo = Tail(@)]
  /\ UNCHANGED <<accounts, memHung, crossed>>

\* executeAirdrop or executeTransfer returns nil.
ExecuteOk(j) ==
  /\ Served(j) /\ ~AbandonsAnswer(Current(j)) /\ Succeeds(Current(j))
  /\ mem' = Applied(Current(j))
  /\ inMem' = inMem \cup Touched(Current(j))
  /\ job' = [job EXCEPT ![j].todo = Tail(@),
                        ![j].executed = @ \cup Touched(Current(j))]
  /\ UNCHANGED <<sto, inSto, memHung, crossed>>

\* It returns an error: revert() is called with the keys of the transaction.
\* Until it is through, what the call has written in place can be seen.
ExecuteFail(j) ==
  /\ Served(j) /\ ~AbandonsAnswer(Current(j)) /\ ~Succeeds(Current(j))
  /\ mem' = Tried(Current(j))
  /\ job' = [job EXCEPT ![j].phase = "reverting", ![j].todo = Tail(@),
                        ![j].dirty = Touched(Current(j))]
  /\ UNCHANGED <<inMem, sto, inSto, memHung, crossed>>

\* It returns an error with an answer outstanding: revert() queues its own
\* requests behind the blocked send and never returns.
ExecuteHang(j) ==
  /\ Served(j) /\ AbandonsAnswer(Current(j))
  /\ memHung' = TRUE
  /\ UNCHANGED <<accounts, job, crossed>>

\* ExecuteNow is through the bundle; Execute starts waitForFinality.
AwaitFinality(j) ==
  /\ job[j].phase = "running" /\ job[j].todo = <<>>
  /\ job' = [job EXCEPT ![j].phase = "waiting"]
  /\ UNCHANGED <<accounts, memHung, crossed>>

\* FetchAccounts, inside db.Update: every key is read and its state sent to
\* the memory; a key that is not in the bucket is sent as a new account.
FetchAccounts(j) ==
  /\ job[j].dirty # {} /\ LockFree
  /\ job' = [job EXCEPT ![j].dirty = {}, ![j].puts = job[j].dirty,
               ![j].held = [a \in Accounts |->
                              IF a \in job[j].dirty THEN sto[a] ELSE NewAccount]]
  /\ UNCHANGED <<accounts, memHung, crossed>>

\* The lock is released by then: the memory puts one of the states. With the
\* last answer FetchAccounts and revert return.
Returned(j, a) ==
  CASE job[j].puts # {a} -> job[j].phase
    [] job[j].puts = {a} /\ job[j].phase = "reverting" -> "running"
    [] job[j].puts = {a} /\ job[j].phase # "reverting" -> "done"

PutAccountState_DropsUnknown(j, a) ==   \* mutant: unknown accounts leave memory
  /\ a \in job[j].puts /\ MemFree
  /\ mem' = [mem EXCEPT ![a] = job[j].held[a]]
  /\ inMem' = IF a \in inSto THEN inMem \cup {a} ELSE inMem \ {a}
  /\ job' = [job EXCEPT ![j].puts = @ \ {a}, ![j].held[a] = NewAccount,
                        ![j].phase = Returned(j, a)]
  /\ UNCHANGED <<sto, inSto, memHung, crossed>>
PutAccountState(j, a) ==
  /\ a \in job[j].puts /\ MemFree
  /\ mem' = [mem EXCEPT ![a] = job[j].held[a]]
  /\ inMem' = inMem \cup {a}
  /\ job' = [job EXCEPT ![j].puts = @ \ {a}, ![j].held[a] = NewAccount,
                        ![j].phase = Returned(j, a)]
  /\ UNCHANGED <<sto, inSto, memHung, crossed>>

\* waitForFinality receives the verdict. Without keys there is nothing to do.
NoKeys(j) ==
  /\ job[j].phase = "waiting" /\ job[j].executed = {}
  /\ job' = [job EXCEPT ![j] = Gone]
  /\ UNCHANGED <<accounts, memHung, crossed>>

Reject(j) ==
  /\ job[j].phase = "waiting" /\ job[j].executed # {}
  /\ job' = [job EXCEPT ![j].phase = "rejected", ![j].dirty = job[j].executed,
                        ![j].executed = {}]
  /\ UNCHANGED <<accounts, memHung, crossed>>

\* PushAccounts asks for its keys before it takes the lock, and reads the
\* answers after: the memory holds out the first one and serves nobody else.
Commit(j) ==
  /\ job[j].phase = "waiting" /\ job[j].executed # {} /\ MemFree
  /\ job' = [job EXCEPT ![j].phase = "pushing"]
  /\ UNCHANGED <<accounts, memHung, crossed>>

\* Inside db.Update, one account after the other; between two of them the
\* memory may serve others. The last one commits the transaction.
PushAccount(j, a) ==
  /\ a \in job[j].executed \ job[j].got
  /\ \/ job[j].phase = "pushing" /\ LockFree
     \/ job[j].phase = "storing" /\ MemFree
  /\ job' = [job EXCEPT ![j].phase = "storing", ![j].got = @ \cup {a},
                        ![j].held[a] = mem[a]]
  /\ crossed' = IF \E k \in Jobs : a \in job[k].puts THEN crossed \cup {a} ELSE crossed
  /\ UNCHANGED <<accounts, memHung>>

PushAccounts(j) ==
  /\ job[j].phase = "storing" /\ job[j].got = job[j].executed
  /\ sto' = [a \in Accounts |-> IF a \in job[j].got THEN job[j].held[a] ELSE sto[a]]
  /\ inSto' = inSto \cup job[j].got
  /\ job' = [job EXCEPT ![j] = Gone]
  /\ UNCHANGED <<mem, inMem, memHung, crossed>>

\* The process dies and is started again: Node.Run fills an empty state
\* memory from the bucket (FetchAllAccounts); every goroutine is gone.
Restart_EmptyMemory ==   \* mutant: memory starts from the genesis account
  /\ mem' = Genesis /\ inMem' = {Generator}
  /\ job' = [j \in Jobs |-> IF job[j].phase = "unused" THEN Unused ELSE Gone]
  /\ memHung' = FALSE /\ crossed' = {}
  /\ UNCHANGED <<sto, inSto>>
Restart ==
  /\ mem' = sto /\ inMem' = inSto
  /\ job' = [j \in Jobs |-> IF job[j].phase = "unused" THEN Unused ELSE Gone]
  /\ memHung' = FALSE /\ crossed' = {}
  /\ UNCHANGED <<sto, inSto>>

\* The goroutine of an execution and those that serve it.
Step(j) ==
  \/ ExecuteSkip(j) \/ ExecuteOk(j) \/ ExecuteFail(j) \/ ExecuteHang(j)
  \/ AwaitFinality(j)
  \/ FetchAccounts(j) \/ \E a \in Accounts : PutAccountState(j, a)
  \/ \E a \in Accounts : PushAccount(j, a) \/ PushAccounts(j)

Verdict(j) == NoKeys(j) \/ Reject(j) \/ Commit(j)

Next ==
  \/ \E j \in Jobs : (\E b \in Blocks : Execute(j, b)) \/ Step(j) \/ Verdict(j)
  \/ Restart

Spec == Init /\ [][Next]_vars

\* A goroutine that can go on does; a verdict, a new block or a crash is up to
\* the environment.
FairSpec == Spec /\ \A j \in Jobs : WF_vars(Step(j))

-----------------------------------------------------------------------------
\* Every state of an account keeps its balance between 0 and GeneratorBalance:
\* the unsigned `GeneratorBalance - as.Balance` in AccountState.Add never
\* wraps around, whatever jobs, reverts and restarts interleave.
TypeOK ==
  /\ mem \in [Accounts -> AccountState] /\ inMem \in SUBSET Accounts
  /\ sto \in [Accounts -> AccountState] /\ inSto \in SUBSET Accounts
  /\ job \in [Jobs -> JobState]
  /\ memHung \in BOOLEAN /\ crossed \in SUBSET Accounts

\* Accounts that an execution will still push or fetch.
Pending(j) == job[j].executed \cup job[j].dirty \cup job[j].puts

\* A job that has called Execute and is not through with its verdict.
Open(j) == job[j].phase \notin {"unused", "done"}

\* An account whose memory differs from storage was written by an execution
\* that will still push or fetch it.
DirtyIsTracked ==
  \A a \in Accounts \ crossed : mem[a] # sto[a] => \E j \in Jobs : a \in Pending(j)

\* Once every execution has its verdict, or the node has restarted, memory
\* and storage agree: no failed transaction and no rejected block leaves a
\* trace in the state that the next block's state hash is computed from. The
\* exception are accounts where a push and a fetch have crossed since the last
\* start (storage_service.go, FetchAccounts and PushAccounts).
QuiescentMemoryIsStored ==
  (\A j \in Jobs : ~Open(j)) => \A a \in Accounts \ crossed : mem[a] = sto[a]

\* PushAccounts finds every executed key in memory. Its error would go to
\* errCh and end the process after a block was final (waitForFinality).
PushFindsEveryKey == \A j \in Jobs : job[j].executed \subseteq inMem

\* Memory is not behind storage.
MemNonceAhead == \A a \in Accounts \ crossed : sto[a].nonce <= mem[a].nonce

\* A nonce that storage has consumed stays consumed: no push of a job that
\* overlapped a revert, a rejection, another push or a restart writes an older
\* nonce, unless a push and a fetch of the account have crossed
\* (storage_service.go, PushAccounts).
NonceNeverReused ==
  [][\A a \in Accounts \ crossed : sto[a].nonce <= sto'[a].nonce]_vars

\* A transaction whose nonce was consumed by a stored block never executes
\* again, even when it is proposed a second time after a restart, unless a
\* push and a fetch of its caller have crossed (executer.go, CheckNonce).
NoReplay ==
  [][\A j \in Jobs : ExecuteOk(j) /\ Current(j).caller \notin crossed =>
       sto[Current(j).caller].nonce <= Current(j).nonce]_vars

\* "transaction error should be reverted and returns ok" (block_producer.go,
\* Verify): executing a block comes to an end, whatever its transactions.
ExecutionReturns ==
  \A j \in Jobs : (job[j].phase \in {"running", "reverting"})
                    ~> (job[j].phase \notin {"running", "reverting"})
=============================================================================
