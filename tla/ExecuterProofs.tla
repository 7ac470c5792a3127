--------------------------- MODULE ExecuterProofs ---------------------------
(***************************************************************************)
(* Theorems about block execution, for every set of accounts, transactions, *)
(* blocks and jobs. The inductive invariant is Inv. Its core says what the  *)
(* states are that goroutines have in hand between storage and memory: a    *)
(* fetched one is still the stored one, a pushed one is not older than the  *)
(* stored one, unless push and fetch have crossed. The supply has an        *)
(* invariant of its own, SupplyKept, on top of it.                          *)
(***************************************************************************)
EXTENDS ExecuterSupply, FiniteSetTheorems, WellFoundedInduction, TLAPS

\* Which keys an execution has in which phase.
Phased ==
  \A j \in Jobs :
    /\ job[j].executed # {} =>
         job[j].phase \in {"running", "reverting", "waiting", "pushing", "storing"}
    /\ job[j].dirty # {} => job[j].phase \in {"reverting", "rejected"} /\ job[j].puts = {}
    /\ job[j].puts # {} => job[j].phase \in {"reverting", "rejected"}
    /\ job[j].got # {} => job[j].phase = "storing"
    /\ job[j].got \subseteq job[j].executed

\* The write lock of the database has one holder.
OneLock ==
  \A j, k \in Jobs : job[j].phase = "storing" /\ job[k].phase = "storing" => j = k

\* A state on its way to memory is the stored one.
FetchedIsStored ==
  \A j \in Jobs : \A a \in job[j].puts \ crossed : job[j].held[a] = sto[a]

\* A state on its way to storage is not older than the stored one; memory has
\* moved on only by executions that will settle the account themselves; and
\* no other state of the account is on its way to memory.
TakenIsNew ==
  \A j \in Jobs : \A a \in job[j].got \ crossed :
    /\ sto[a].nonce <= job[j].held[a].nonce
    /\ job[j].held[a].nonce <= mem[a].nonce
    /\ \A k \in Jobs : a \notin job[k].puts
    /\ \/ mem[a] = job[j].held[a]
       \/ \E k \in Jobs \ {j} : a \in job[k].executed \cup job[k].dirty

Inv ==
  /\ TypeOK /\ Phased /\ OneLock /\ PushFindsEveryKey
  /\ DirtyIsTracked /\ MemNonceAhead /\ FetchedIsStored /\ TakenIsNew

\* A transaction of a block is a record of TxRecord, and the accounts it
\* touches are accounts.
LEMMA TxFacts ==
  ASSUME NEW t \in Txs
  PROVE  /\ t \in TxRecord
         /\ Payer(t) \in Accounts /\ Payee(t) \in Accounts
         /\ Touched(t) \subseteq Accounts
         /\ t.amount \in Nat /\ t.caller \in Accounts
         /\ t.caller \in Touched(t)
<1>1. t \in TxRecord
  BY ConstantsAssumption
<1> QED
  BY <1>1, ConstantsAssumption DEF TxRecord, Payer, Payee, Touched, Kinds

\* Executing a transaction whose checks pass keeps every balance between 0
\* and GeneratorBalance (AccountState.Subtract and Add), changes no account
\* the transaction does not touch, and lowers no nonce.
LEMMA AppliedFacts ==
  ASSUME TypeOK, NEW t \in Txs, Succeeds(t)
  PROVE  /\ Applied(t) \in [Accounts -> AccountState]
         /\ \A a \in Accounts \ Touched(t) : Applied(t)[a] = mem[a]
         /\ \A a \in Accounts : mem[a].nonce <= Applied(t)[a].nonce
<1> USE TxFacts
<1>1. \A a \in Accounts : mem[a] \in [nonce : Nat, balance : 0 .. GeneratorBalance]
  BY DEF TypeOK, AccountState
<1>2. GeneratorBalance \in Nat
  BY ConstantsAssumption
<1>3. \A a \in Accounts : Applied(t)[a] \in AccountState
  BY <1>1, <1>2 DEF Applied, AccountState, Succeeds, Subtracts, CanSubtract, CanAdd
<1>4. Applied(t) \in [Accounts -> AccountState]
  BY <1>3 DEF Applied
<1>5. \A a \in Accounts \ Touched(t) : Applied(t)[a] = mem[a]
  BY <1>1 DEF Applied, Touched
<1>6. \A a \in Accounts : mem[a].nonce <= Applied(t)[a].nonce
  BY <1>1 DEF Applied
<1> QED
  BY <1>4, <1>5, <1>6

\* What a running job is about to execute is one of the transactions, and
\* the rest of its bundle is a sequence of transactions.
LEMMA CurrentFacts ==
  ASSUME TypeOK, NEW j \in Jobs, Running(j)
  PROVE  Current(j) \in Txs /\ Tail(job[j].todo) \in Seq(Txs)
<1>1. job[j].todo \in Seq(Txs) /\ job[j].todo # <<>>
  BY DEF TypeOK, JobState, Running
<1> QED
  BY <1>1 DEF Current

\* A failed call leaves balances in their range and nonces at least where they
\* were, and writes on the two accounts of its transaction only.
LEMMA TriedFacts ==
  ASSUME TypeOK, NEW t \in Txs
  PROVE  /\ Tried(t) \in [Accounts -> AccountState]
         /\ \A a \in Accounts \ Touched(t) : Tried(t)[a] = mem[a]
         /\ \A a \in Accounts : mem[a].nonce <= Tried(t)[a].nonce
<1> USE TxFacts
<1>1. \A a \in Accounts : mem[a] \in [nonce : Nat, balance : 0 .. GeneratorBalance]
  BY DEF TypeOK, AccountState
<1>2. GeneratorBalance \in Nat
  BY ConstantsAssumption
<1>3. \A a \in Accounts : Tried(t)[a] \in AccountState
  BY <1>1, <1>2 DEF Tried, AccountState, Subtracts, CanSubtract
<1>4. Tried(t) \in [Accounts -> AccountState]
  BY <1>3 DEF Tried
<1>5. \A a \in Accounts \ Touched(t) : Tried(t)[a] = mem[a]
  BY <1>1 DEF Tried, Touched
<1>6. \A a \in Accounts : mem[a].nonce <= Tried(t)[a].nonce
  BY <1>1 DEF Tried
<1> QED
  BY <1>4, <1>5, <1>6

\* A new account is an account.
LEMMA NewFacts == NewAccount \in AccountState /\ Nothing \in [Accounts -> AccountState]
BY ConstantsAssumption DEF Nothing, NewAccount, AccountState

\* The state after genesis satisfies the invariant.
LEMMA InitInv == Init => Inv
<1> SUFFICES ASSUME Init PROVE Inv
  OBVIOUS
<1>1. Genesis \in [Accounts -> AccountState] /\ Nothing \in [Accounts -> AccountState]
  BY ConstantsAssumption DEF Genesis, Nothing, NewAccount, AccountState
<1>2. TypeOK
  <2>1. Unused \in JobState
    BY <1>1 DEF Unused, JobState, Phases
  <2>2. job \in [Jobs -> JobState]
    BY <2>1 DEF Init
  <2> QED
    BY <1>1, <2>2, ConstantsAssumption DEF Init, TypeOK
<1>3. \A j \in Jobs : /\ job[j].phase = "unused" /\ job[j].executed = {} /\ job[j].dirty = {}
                      /\ job[j].puts = {} /\ job[j].got = {}
  BY DEF Init, Unused
<1>4. Phased /\ OneLock /\ PushFindsEveryKey /\ FetchedIsStored /\ TakenIsNew
  BY <1>3 DEF Phased, OneLock, PushFindsEveryKey, FetchedIsStored, TakenIsNew
<1>5. DirtyIsTracked
  BY DEF Init, DirtyIsTracked
<1>6. MemNonceAhead
  BY <1>1 DEF Init, MemNonceAhead, AccountState
<1> QED
  BY <1>2, <1>4, <1>5, <1>6 DEF Inv

\* The part of the invariant that speaks of accounts.
Settled ==
  PushFindsEveryKey /\ DirtyIsTracked /\ MemNonceAhead /\ FetchedIsStored /\ TakenIsNew

\* A step that moves no account, and at most turns executed keys into keys to
\* fetch, keeps it.
LEMMA QuietStep ==
  ASSUME Settled, UNCHANGED <<mem, inMem, sto, inSto, crossed>>,
         \A k \in Jobs : /\ job'[k].executed \subseteq job[k].executed
                         /\ job'[k].executed \cup job'[k].dirty = job[k].executed \cup job[k].dirty
                         /\ job'[k].puts = job[k].puts /\ job'[k].got = job[k].got
                         /\ \A a \in job[k].puts \cup job[k].got : job'[k].held[a] = job[k].held[a]
  PROVE  Settled'
<1> USE DEF Settled
<1>1. PushFindsEveryKey' /\ MemNonceAhead'
  BY DEF PushFindsEveryKey, MemNonceAhead
<1>2. DirtyIsTracked'
  <2>1. \A k \in Jobs : Pending(k)' = Pending(k)
    BY DEF Pending
  <2> QED
    BY <2>1 DEF DirtyIsTracked
<1>3. FetchedIsStored'
  BY DEF FetchedIsStored
<1>4. TakenIsNew'
  <2> SUFFICES ASSUME NEW k \in Jobs, NEW a \in job'[k].got \ crossed
               PROVE  /\ sto[a].nonce <= job'[k].held[a].nonce
                      /\ job'[k].held[a].nonce <= mem[a].nonce
                      /\ \A l \in Jobs : a \notin job'[l].puts
                      /\ \/ mem[a] = job'[k].held[a]
                         \/ \E l \in Jobs \ {k} : a \in job'[l].executed \cup job'[l].dirty
    BY DEF TakenIsNew
  <2> QED
    BY DEF TakenIsNew
<1> QED
  BY <1>1, <1>2, <1>3, <1>4

\* Keys that a job cannot have in a phase without them.
LEMMA NoKeysInHand ==
  ASSUME Phased, NEW j \in Jobs
  PROVE  /\ job[j].phase \notin {"reverting", "rejected"} => job[j].dirty = {} /\ job[j].puts = {}
         /\ job[j].phase # "storing" => job[j].got = {}
         /\ job[j].phase \in {"unused", "rejected", "done"} => job[j].executed = {}
BY DEF Phased

\* Nobody but the holder of the lock has accounts to store.
LEMMA OthersHoldNothing ==
  ASSUME Phased, OneLock, NEW j \in Jobs, job[j].phase = "storing" \/ LockFree
  PROVE  \A k \in Jobs \ {j} : job[k].got = {}
BY DEF Phased, OneLock, LockFree

\* The invariant is preserved when a block is handed to Execute.
LEMMA ExecuteInv ==
  ASSUME Inv, NEW j \in Jobs, NEW b \in Blocks, Execute(j, b) PROVE Inv'
<1> USE DEF Inv
<1>1. b \in Seq(Txs) /\ Nothing \in [Accounts -> AccountState]
  BY ConstantsAssumption DEF Nothing, NewAccount, AccountState
<1>2. /\ job'[j].phase = "running" /\ job'[j].executed = {} /\ job'[j].dirty = {}
      /\ job'[j].puts = {} /\ job'[j].got = {} /\ job'[j] \in JobState
      /\ job[j].phase = "unused"
  BY <1>1 DEF Execute, TypeOK, Unused, JobState, Phases
<1>3. \A k \in Jobs \ {j} : job'[k] = job[k]
  BY DEF Execute, TypeOK
<1>4. TypeOK'
  BY <1>2, <1>3 DEF Execute, TypeOK, accounts
<1>5. Phased' /\ OneLock'
  BY <1>2, <1>3 DEF Phased, OneLock
<1>6. Settled'
  <2>1. /\ job[j].executed = {} /\ job[j].dirty = {} /\ job[j].puts = {} /\ job[j].got = {}
    BY <1>2, NoKeysInHand
  <2> QED
    BY <1>2, <1>3, <2>1, QuietStep DEF Execute, accounts, Settled
<1> QED
  BY <1>4, <1>5, <1>6 DEF Settled

\* The invariant is preserved when an undefined call is skipped.
LEMMA SkipInv == ASSUME Inv, NEW j \in Jobs, ExecuteSkip(j) PROVE Inv'
<1> USE DEF Inv
<1>1. Tail(job[j].todo) \in Seq(Txs)
  BY CurrentFacts DEF ExecuteSkip
<1>2. TypeOK'
  BY <1>1, ZenonT(40) DEF ExecuteSkip, TypeOK, JobState, accounts
<1>3. \A k \in Jobs : /\ job'[k].phase = job[k].phase /\ job'[k].executed = job[k].executed
                      /\ job'[k].dirty = job[k].dirty /\ job'[k].puts = job[k].puts
                      /\ job'[k].got = job[k].got /\ job'[k].held = job[k].held
  BY DEF ExecuteSkip, TypeOK, JobState
<1>4. Phased' /\ OneLock'
  BY <1>3 DEF Phased, OneLock
<1> QED
  BY <1>2, <1>3, <1>4, QuietStep DEF Settled, ExecuteSkip, accounts

\* The invariant is preserved when an answer of the memory is abandoned.
LEMMA HangInv == ASSUME Inv, NEW j \in Jobs, ExecuteHang(j) PROVE Inv'
<1>1. Settled'
  BY QuietStep DEF ExecuteHang, Inv, Settled, accounts
<1> QED
  BY <1>1 DEF ExecuteHang, Inv, Settled, TypeOK, Phased, OneLock, accounts

\* The invariant is preserved when the bundle is through, and when a push
\* makes the memory wait.
LEMMA AwaitInv == ASSUME Inv, NEW j \in Jobs, AwaitFinality(j) \/ Commit(j) PROVE Inv'
<1> USE DEF Inv
<1>0. /\ job[j].phase \in {"running", "waiting"}
      /\ \E p \in {"waiting", "pushing"} : job' = [job EXCEPT ![j].phase = p]
      /\ UNCHANGED <<mem, inMem, sto, inSto, memHung, crossed>>
  BY DEF AwaitFinality, Commit, accounts
<1>1. TypeOK'
  <2>1. PICK p \in {"waiting", "pushing"} : job' = [job EXCEPT ![j].phase = p]
    BY <1>0
  <2>2. p \in Phases
    BY DEF Phases
  <2>3. job' \in [Jobs -> JobState]
    BY <2>1, <2>2, ZenonT(40) DEF TypeOK, JobState
  <2> QED
    BY <1>0, <2>3 DEF TypeOK
<1>2. \A k \in Jobs : /\ job'[k].executed = job[k].executed
                      /\ job'[k].dirty = job[k].dirty /\ job'[k].puts = job[k].puts
                      /\ job'[k].got = job[k].got /\ job'[k].held = job[k].held
  BY <1>0 DEF TypeOK, JobState
<1>3. /\ job'[j].phase \in {"waiting", "pushing"} /\ job[j].phase \in {"running", "waiting"}
      /\ \A k \in Jobs \ {j} : job'[k].phase = job[k].phase
  BY <1>0 DEF TypeOK, JobState
<1>4. Phased' /\ OneLock'
  BY <1>2, <1>3 DEF Phased, OneLock
<1> QED
  BY <1>0, <1>1, <1>2, <1>4, QuietStep DEF Settled

\* A job that is through has nothing left.
LEMMA GoneFacts ==
  Gone \in JobState /\ Gone.phase = "done" /\ Gone.executed = {} /\ Gone.dirty = {}
    /\ Gone.puts = {} /\ Gone.got = {}
<1>1. Nothing \in [Accounts -> AccountState]
  BY NewFacts
<1>2. Unused \in JobState /\ Unused.executed = {} /\ Unused.dirty = {} /\ Unused.puts = {} /\ Unused.got = {}
  BY <1>1 DEF Unused, JobState, Phases
<1> QED
  BY <1>2 DEF Gone, JobState, Phases

\* The invariant is preserved when a verdict finds no keys.
LEMMA NoKeysInv == ASSUME Inv, NEW j \in Jobs, NoKeys(j) PROVE Inv'
<1> USE DEF Inv
<1>1. job'[j] = Gone /\ (\A k \in Jobs \ {j} : job'[k] = job[k])
  BY DEF NoKeys, TypeOK
<1>2. TypeOK'
  BY GoneFacts DEF NoKeys, TypeOK, accounts
<1>3. Phased' /\ OneLock'
  BY <1>1, GoneFacts DEF Phased, OneLock
<1>4. job[j].executed = {} /\ job[j].dirty = {} /\ job[j].puts = {} /\ job[j].got = {}
  BY NoKeysInHand DEF NoKeys
<1> QED
  BY <1>1, <1>2, <1>3, <1>4, GoneFacts, QuietStep DEF Settled, NoKeys, accounts

\* The invariant is preserved when the verdict is no.
LEMMA RejectInv == ASSUME Inv, NEW j \in Jobs, Reject(j) PROVE Inv'
<1> USE DEF Inv
<1>1. /\ job'[j].phase = "rejected" /\ job'[j].executed = {} /\ job'[j].dirty = job[j].executed
      /\ job'[j].puts = job[j].puts /\ job'[j].got = job[j].got /\ job'[j].held = job[j].held
      /\ job[j].phase = "waiting" /\ \A k \in Jobs \ {j} : job'[k] = job[k]
  BY DEF Reject, TypeOK, JobState
<1>2. TypeOK'
  BY DEF Reject, TypeOK, JobState, Phases, accounts
<1>3. job[j].dirty = {} /\ job[j].puts = {} /\ job[j].got = {}
  BY <1>1, NoKeysInHand
<1>4. Phased' /\ OneLock'
  BY <1>1, <1>3 DEF Phased, OneLock
<1> QED
  BY <1>1, <1>2, <1>3, <1>4, QuietStep DEF Settled, Reject, accounts

\* A transaction, executed or failed, writes on its two accounts, which its
\* job will push or fetch.
LEMMA WriteStep ==
  ASSUME Settled, TypeOK, TypeOK', Phased, NEW j \in Jobs, NEW t \in Txs, UNCHANGED <<sto, crossed>>,
         job[j].phase = "running", inMem \subseteq inMem', job'[j].executed \subseteq inMem',
         \A a \in Accounts \ Touched(t) : mem'[a] = mem[a],
         \A a \in Accounts : mem[a].nonce <= mem'[a].nonce,
         \A k \in Jobs \ {j} : job'[k] = job[k],
         job'[j].puts = job[j].puts, job'[j].got = job[j].got,
         job[j].executed \cup Touched(t) = job'[j].executed \cup job'[j].dirty
  PROVE  Settled'
<1>1. job[j].dirty = {} /\ job[j].puts = {} /\ job[j].got = {}
  BY NoKeysInHand
<1>2. \A k \in Jobs : Pending(k) \subseteq Pending(k)' /\ (k = j => Touched(t) \subseteq Pending(k)')
  BY <1>1 DEF Pending
<1>3. \A a \in Accounts : sto[a].nonce \in Nat /\ mem[a].nonce \in Nat /\ mem'[a].nonce \in Nat
  BY DEF TypeOK, AccountState
<1>4. PushFindsEveryKey'
  BY DEF Settled, PushFindsEveryKey
<1>5. DirtyIsTracked'
  <2> SUFFICES ASSUME NEW a \in Accounts \ crossed, mem'[a] # sto[a]
               PROVE  \E k \in Jobs : a \in Pending(k)'
    BY DEF DirtyIsTracked
  <2>1. CASE a \in Touched(t)
    BY <1>2, <2>1
  <2>2. CASE a \notin Touched(t)
    BY <1>2, <2>2 DEF Settled, DirtyIsTracked
  <2> QED
    BY <2>1, <2>2
<1>6. MemNonceAhead'
  BY <1>3 DEF Settled, MemNonceAhead
<1>7. FetchedIsStored'
  BY <1>1 DEF Settled, FetchedIsStored
<1>8. TakenIsNew'
  <2> SUFFICES ASSUME NEW k \in Jobs, NEW a \in job'[k].got \ crossed
               PROVE  /\ sto[a].nonce <= job'[k].held[a].nonce
                      /\ job'[k].held[a].nonce <= mem'[a].nonce
                      /\ \A l \in Jobs : a \notin job'[l].puts
                      /\ \/ mem'[a] = job'[k].held[a]
                         \/ \E l \in Jobs \ {k} : a \in job'[l].executed \cup job'[l].dirty
    BY DEF TakenIsNew
  <2>1. k # j /\ job'[k] = job[k] /\ a \in Accounts /\ job[k].held[a].nonce \in Nat
    BY <1>1, SMTT(20) DEF TypeOK, JobState, AccountState
  <2>2. /\ sto[a].nonce <= job[k].held[a].nonce
        /\ job[k].held[a].nonce <= mem[a].nonce
        /\ \A l \in Jobs : a \notin job[l].puts
        /\ \/ mem[a] = job[k].held[a]
           \/ \E l \in Jobs \ {k} : a \in job[l].executed \cup job[l].dirty
    BY <2>1 DEF Settled, TakenIsNew
  <2>3. job'[k].held[a].nonce <= mem'[a].nonce /\ \A l \in Jobs : a \notin job'[l].puts
    BY <1>3, <2>1, <2>2
  <2>4. CASE a \in Touched(t)
    BY <2>1, <2>2, <2>3, <2>4
  <2>5. CASE a \notin Touched(t)
    <3>1. mem'[a] = mem[a] /\ (a \in job[j].executed \cup job[j].dirty => a \in job'[j].executed \cup job'[j].dirty)
      BY <1>1, <2>1, <2>5
    <3> QED
      BY <2>1, <2>2, <2>3, <3>1
  <2> QED
    BY <2>4, <2>5
<1> QED
  BY <1>4, <1>5, <1>6, <1>7, <1>8 DEF Settled

\* The invariant is preserved when a transaction executes.
LEMMA OkInv == ASSUME Inv, NEW j \in Jobs, ExecuteOk(j) PROVE Inv'
<1> USE DEF Inv
<1> DEFINE t == Current(j)
<1>1. t \in Txs /\ Tail(job[j].todo) \in Seq(Txs) /\ Succeeds(t) /\ job[j].phase = "running"
  BY CurrentFacts DEF ExecuteOk, Served, Running
<1>2. /\ mem' \in [Accounts -> AccountState]
      /\ \A a \in Accounts \ Touched(t) : mem'[a] = mem[a]
      /\ \A a \in Accounts : mem[a].nonce <= mem'[a].nonce
  BY <1>1, AppliedFacts DEF ExecuteOk
<1>3. Touched(t) \subseteq Accounts
  BY <1>1, TxFacts
<1>4. TypeOK'
  <2>1. job' \in [Jobs -> JobState]
    BY <1>1, <1>3, ZenonT(40) DEF ExecuteOk, TypeOK, JobState
  <2> QED
    BY <1>2, <1>3, <2>1 DEF ExecuteOk, TypeOK
<1>5. /\ job'[j].phase = job[j].phase /\ job'[j].executed = job[j].executed \cup Touched(t)
      /\ job'[j].dirty = job[j].dirty /\ job'[j].puts = job[j].puts /\ job'[j].got = job[j].got
      /\ \A k \in Jobs \ {j} : job'[k] = job[k]
  BY DEF ExecuteOk, TypeOK, JobState
<1>6. inMem' = inMem \cup Touched(t) /\ UNCHANGED <<sto, crossed>>
  BY DEF ExecuteOk
<1> HIDE DEF t
<1>7. Phased' /\ OneLock'
  BY <1>1, <1>5 DEF Phased, OneLock
<1>8. job[j].dirty = {} /\ job'[j].executed \subseteq inMem'
  BY <1>1, <1>5, <1>6, NoKeysInHand DEF PushFindsEveryKey
<1> QED
  BY <1>1, <1>2, <1>4, <1>5, <1>6, <1>7, <1>8, WriteStep DEF Settled

\* The invariant is preserved when a transaction fails.
LEMMA FailInv == ASSUME Inv, NEW j \in Jobs, ExecuteFail(j) PROVE Inv'
<1> USE DEF Inv
<1> DEFINE t == Current(j)
<1>1. t \in Txs /\ Tail(job[j].todo) \in Seq(Txs) /\ job[j].phase = "running"
  BY CurrentFacts DEF ExecuteFail, Served, Running
<1>2. /\ mem' \in [Accounts -> AccountState]
      /\ \A a \in Accounts \ Touched(t) : mem'[a] = mem[a]
      /\ \A a \in Accounts : mem[a].nonce <= mem'[a].nonce
  BY <1>1, TriedFacts DEF ExecuteFail
<1>3. Touched(t) \subseteq Accounts
  BY <1>1, TxFacts
<1>4. TypeOK'
  BY <1>1, <1>2, <1>3 DEF ExecuteFail, TypeOK, JobState, Phases
<1>5. /\ job'[j].phase = "reverting" /\ job'[j].executed = job[j].executed
      /\ job'[j].dirty = Touched(t) /\ job'[j].puts = job[j].puts /\ job'[j].got = job[j].got
      /\ \A k \in Jobs \ {j} : job'[k] = job[k]
  BY DEF ExecuteFail, TypeOK, JobState
<1>6. inMem' = inMem /\ UNCHANGED <<sto, crossed>>
  BY DEF ExecuteFail
<1> HIDE DEF t
<1>7. job[j].dirty = {} /\ job[j].puts = {} /\ job[j].got = {} /\ job'[j].executed \subseteq inMem'
  BY <1>1, <1>5, <1>6, NoKeysInHand DEF PushFindsEveryKey
<1>8. Phased' /\ OneLock'
  BY <1>1, <1>5, <1>7 DEF Phased, OneLock
<1> QED
  BY <1>1, <1>2, <1>4, <1>5, <1>6, <1>7, <1>8, WriteStep DEF Settled

\* The invariant is preserved when a fetch reads storage: it has the lock, so
\* no push is under way to storage.
LEMMA FetchInv == ASSUME Inv, NEW j \in Jobs, FetchAccounts(j) PROVE Inv'
<1> USE DEF Inv
<1>1. /\ job'[j].phase = job[j].phase /\ job'[j].executed = job[j].executed /\ job'[j].dirty = {}
      /\ job'[j].puts = job[j].dirty /\ job'[j].got = job[j].got
      /\ \A a \in job[j].dirty : job'[j].held[a] = sto[a]
      /\ \A k \in Jobs \ {j} : job'[k] = job[k]
  BY DEF FetchAccounts, TypeOK, JobState
<1>2. TypeOK'
  <2> DEFINE fetched == [a \in Accounts |-> IF a \in job[j].dirty THEN sto[a] ELSE NewAccount]
  <2>1. fetched \in [Accounts -> AccountState]
    BY NewFacts DEF TypeOK
  <2>2. job' = [job EXCEPT ![j].dirty = {}, ![j].puts = job[j].dirty, ![j].held = fetched]
    BY DEF FetchAccounts
  <2> HIDE DEF fetched
  <2>3. job'[j] = [job[j] EXCEPT !.dirty = {}, !.puts = job[j].dirty, !.held = fetched]
    BY <2>2 DEF TypeOK
  <2>4. job'[j] \in JobState
    <3>1. job[j] \in JobState
      BY DEF TypeOK
    <3> QED
      BY <2>1, <2>3, <3>1 DEF JobState
  <2>5. job' \in [Jobs -> JobState]
    BY <1>1, <2>2, <2>4 DEF TypeOK
  <2> QED
    BY <2>5 DEF FetchAccounts, TypeOK, accounts
<1>3. /\ job[j].puts = {} /\ job[j].phase \in {"reverting", "rejected"}
      /\ \A k \in Jobs : job'[k].got = {}
  BY <1>1 DEF FetchAccounts, LockFree, Phased
<1>4. UNCHANGED <<mem, inMem, sto, inSto, crossed>>
  BY DEF FetchAccounts, accounts
<1>5. Phased' /\ OneLock'
  BY <1>1, <1>3 DEF Phased, OneLock
<1>6. PushFindsEveryKey' /\ MemNonceAhead'
  BY <1>1, <1>4 DEF PushFindsEveryKey, MemNonceAhead
<1>7. DirtyIsTracked'
  <2>1. \A k \in Jobs : Pending(k)' = Pending(k)
    BY <1>1, <1>3 DEF Pending
  <2> QED
    BY <1>4, <2>1 DEF DirtyIsTracked
<1>8. FetchedIsStored' /\ TakenIsNew'
  BY <1>1, <1>3, <1>4 DEF FetchedIsStored, TakenIsNew
<1> QED
  BY <1>2, <1>5, <1>6, <1>7, <1>8

\* The invariant is preserved when memory puts a fetched state.
LEMMA PutInv ==
  ASSUME Inv, NEW j \in Jobs, NEW a \in Accounts, PutAccountState(j, a) PROVE Inv'
<1> USE DEF Inv
<1>1. /\ a \in job[j].puts /\ job'[j].executed = job[j].executed /\ job'[j].dirty = job[j].dirty
      /\ job'[j].puts = job[j].puts \ {a} /\ job'[j].got = job[j].got
      /\ \A b \in Accounts \ {a} : job'[j].held[b] = job[j].held[b]
      /\ \A k \in Jobs \ {j} : job'[k] = job[k]
      /\ job'[j].phase = Returned(j, a)
  BY DEF PutAccountState, TypeOK, JobState
<1>2. job[j].phase \in {"reverting", "rejected"} /\ job[j].dirty = {} /\ job[j].got = {}
  BY <1>1 DEF Phased
<1>3. /\ job'[j].puts # {} => job'[j].phase = job[j].phase
      /\ job'[j].phase \in {"reverting", "running", "rejected", "done"}
      /\ job[j].phase = "reverting" => job'[j].phase \in {"reverting", "running"}
  <2>1. job[j].puts = {a} <=> job'[j].puts = {}
    BY <1>1
  <2> QED
    BY <1>1, <1>2, <2>1 DEF Returned
<1>4. TypeOK'
  <2>1. job' \in [Jobs -> JobState]
    <3>1. Returned(j, a) \in Phases /\ job[j] \in JobState
      BY <1>1, <1>3 DEF Phases, TypeOK
    <3> DEFINE held == [job[j].held EXCEPT ![a] = NewAccount]
               puts == job[j].puts \ {a}
    <3>2. job'[j] = [job[j] EXCEPT !.puts = puts, !.held = held, !.phase = Returned(j, a)]
      BY DEF PutAccountState, TypeOK
    <3>3. held \in [Accounts -> AccountState] /\ puts \in SUBSET Accounts
      BY <3>1, NewFacts DEF JobState
    <3> HIDE DEF held, puts
    <3>4. job'[j] \in JobState
      BY <3>1, <3>2, <3>3 DEF JobState
    <3> QED
      BY <1>1, <3>4 DEF PutAccountState, TypeOK
  <2>2. job[j].held[a] \in AccountState
    BY DEF TypeOK, JobState
  <2> QED
    BY <2>1, <2>2 DEF PutAccountState, TypeOK
<1>5. Phased' /\ OneLock'
  BY <1>1, <1>2, <1>3 DEF Phased, OneLock
<1>6. /\ UNCHANGED <<sto, inSto, crossed>> /\ inMem' = inMem \cup {a}
      /\ \A b \in Accounts \ {a} : mem'[b] = mem[b]
      /\ a \notin crossed => mem'[a] = sto[a]
  BY <1>1 DEF PutAccountState, TypeOK, FetchedIsStored
<1>7. PushFindsEveryKey'
  BY <1>1, <1>6 DEF PushFindsEveryKey
<1>8. DirtyIsTracked'
  <2>1. \A k \in Jobs : Pending(k) \subseteq Pending(k)' \cup {a}
    BY <1>1 DEF Pending
  <2> QED
    BY <1>6, <2>1 DEF DirtyIsTracked
<1>9. MemNonceAhead'
  <2> SUFFICES ASSUME NEW b \in Accounts \ crossed PROVE sto[b].nonce <= mem'[b].nonce
    BY <1>6 DEF MemNonceAhead
  <2>1. sto[b].nonce \in Nat /\ sto[b].nonce <= mem[b].nonce
    BY DEF MemNonceAhead, TypeOK, AccountState
  <2> QED
    BY <1>6, <2>1
<1>10. FetchedIsStored'
  <2> SUFFICES ASSUME NEW k \in Jobs, NEW b \in job'[k].puts \ crossed
               PROVE  job'[k].held[b] = sto[b]
    BY <1>6 DEF FetchedIsStored
  <2>1. b \in job[k].puts /\ b \in Accounts /\ job'[k].held[b] = job[k].held[b]
    BY <1>1 DEF TypeOK, JobState
  <2> QED
    BY <2>1 DEF FetchedIsStored
<1>11. TakenIsNew'
  <2> SUFFICES ASSUME NEW k \in Jobs, NEW b \in job'[k].got \ crossed
               PROVE  /\ sto[b].nonce <= job'[k].held[b].nonce
                      /\ job'[k].held[b].nonce <= mem'[b].nonce
                      /\ \A l \in Jobs : b \notin job'[l].puts
                      /\ \/ mem'[b] = job'[k].held[b]
                         \/ \E l \in Jobs \ {k} : b \in job'[l].executed \cup job'[l].dirty
    BY <1>6 DEF TakenIsNew
  <2>1. k # j /\ job'[k] = job[k] /\ b \in Accounts
    BY <1>1, <1>2 DEF TypeOK, JobState
  <2>2. b # a /\ mem'[b] = mem[b]
    BY <1>1, <1>6, <2>1 DEF TakenIsNew
  <2>3. \A l \in Jobs : /\ job'[l].executed = job[l].executed /\ job'[l].dirty = job[l].dirty
                        /\ job'[l].puts \subseteq job[l].puts
    BY <1>1
  <2> QED
    BY <2>1, <2>2, <2>3 DEF TakenIsNew
<1> QED
  BY <1>4, <1>5, <1>7, <1>8, <1>9, <1>10, <1>11

\* The invariant is preserved when a push reads an account under the lock.
LEMMA PushAccountInv ==
  ASSUME Inv, NEW j \in Jobs, NEW a \in Accounts, PushAccount(j, a) PROVE Inv'
<1> USE DEF Inv
<1>1. /\ job'[j].phase = "storing" /\ job'[j].executed = job[j].executed
      /\ job'[j].dirty = job[j].dirty /\ job'[j].puts = job[j].puts
      /\ job'[j].got = job[j].got \cup {a} /\ a \in job[j].executed
      /\ job'[j].held[a] = mem[a]
      /\ \A b \in Accounts \ {a} : job'[j].held[b] = job[j].held[b]
      /\ \A k \in Jobs \ {j} : job'[k] = job[k]
  BY DEF PushAccount, TypeOK, JobState
<1>2. /\ job[j].phase \in {"pushing", "storing"} /\ (job[j].phase = "storing" \/ LockFree)
      /\ UNCHANGED <<mem, inMem, sto, inSto>>
      /\ crossed \subseteq crossed' /\ crossed' \subseteq crossed \cup {a}
      /\ a \notin crossed' => \A k \in Jobs : a \notin job[k].puts
  BY DEF PushAccount, accounts
<1>3. job[j].dirty = {} /\ job[j].puts = {} /\ \A k \in Jobs \ {j} : job[k].got = {}
  BY <1>2, NoKeysInHand, OthersHoldNothing
<1>4. TypeOK'
  <2>1. job[j] \in JobState /\ mem[a] \in AccountState
    BY DEF TypeOK
  <2>2. job'[j] \in JobState
    <3> DEFINE held == [job[j].held EXCEPT ![a] = mem[a]]
               got == job[j].got \cup {a}
    <3>1. job'[j] = [job[j] EXCEPT !.phase = "storing", !.got = got, !.held = held]
      BY DEF PushAccount, TypeOK
    <3>2. held \in [Accounts -> AccountState] /\ got \in SUBSET Accounts
      BY <2>1 DEF JobState
    <3>3. "storing" \in Phases
      BY DEF Phases
    <3> HIDE DEF held, got
    <3> QED
      BY <2>1, <3>1, <3>2, <3>3 DEF JobState
  <2>3. job' \in [Jobs -> JobState]
    BY <1>1, <2>2 DEF PushAccount, TypeOK
  <2> QED
    BY <1>2, <2>3 DEF PushAccount, TypeOK
<1>5. Phased'
  BY <1>1, <1>2, <1>3 DEF Phased
<1>6. OneLock'
  <2>1. \A k \in Jobs \ {j} : job[k].phase # "storing"
    BY <1>2 DEF OneLock, LockFree
  <2> QED
    BY <1>1, <2>1 DEF OneLock
<1>7. PushFindsEveryKey' /\ MemNonceAhead'
  BY <1>1, <1>2 DEF PushFindsEveryKey, MemNonceAhead
<1>8. DirtyIsTracked'
  <2>1. \A k \in Jobs : Pending(k)' = Pending(k)
    BY <1>1 DEF Pending
  <2> QED
    BY <1>2, <2>1 DEF DirtyIsTracked
<1>9. FetchedIsStored'
  BY <1>1, <1>2, <1>3 DEF FetchedIsStored
<1>10. TakenIsNew'
  <2> SUFFICES ASSUME NEW k \in Jobs, NEW b \in job'[k].got \ crossed'
               PROVE  /\ sto[b].nonce <= job'[k].held[b].nonce
                      /\ job'[k].held[b].nonce <= mem[b].nonce
                      /\ \A l \in Jobs : b \notin job'[l].puts
                      /\ \/ mem[b] = job'[k].held[b]
                         \/ \E l \in Jobs \ {k} : b \in job'[l].executed \cup job'[l].dirty
    BY <1>2 DEF TakenIsNew
  <2>1. k = j /\ b \in Accounts /\ b \notin crossed
    BY <1>1, <1>2, <1>3 DEF TypeOK, JobState
  <2>2. \A l \in Jobs : /\ job'[l].executed = job[l].executed /\ job'[l].dirty = job[l].dirty
                        /\ job'[l].puts = job[l].puts
    BY <1>1
  <2>3. CASE b = a
    <3>1. sto[a].nonce <= mem[a].nonce /\ mem[a].nonce \in Nat
      BY <2>1, <2>3 DEF MemNonceAhead, TypeOK, AccountState
    <3> QED
      BY <1>1, <1>2, <2>1, <2>2, <2>3, <3>1
  <2>4. CASE b # a
    <3>1. b \in job[j].got \ crossed /\ job'[j].held[b] = job[j].held[b]
      BY <1>1, <2>1, <2>4
    <3> QED
      BY <2>1, <2>2, <3>1 DEF TakenIsNew
  <2> QED
    BY <2>3, <2>4
<1> QED
  BY <1>4, <1>5, <1>6, <1>7, <1>8, <1>9, <1>10

\* The invariant is preserved when a push commits.
LEMMA PushInv == ASSUME Inv, NEW j \in Jobs, PushAccounts(j) PROVE Inv'
<1> USE DEF Inv
<1>1. /\ job'[j] = Gone /\ (\A k \in Jobs \ {j} : job'[k] = job[k])
      /\ job[j].phase = "storing" /\ job[j].got = job[j].executed
      /\ \A a \in Accounts : sto'[a] = IF a \in job[j].got THEN job[j].held[a] ELSE sto[a]
      /\ UNCHANGED <<mem, inMem, crossed>>
  BY DEF PushAccounts, TypeOK
<1>2. job[j].dirty = {} /\ job[j].puts = {} /\ \A k \in Jobs : job'[k].got = {}
  BY <1>1, GoneFacts, NoKeysInHand, OthersHoldNothing
<1>3. TypeOK'
  BY GoneFacts DEF PushAccounts, TypeOK, JobState
<1>4. Phased' /\ OneLock'
  BY <1>1, GoneFacts DEF Phased, OneLock
<1>5. PushFindsEveryKey' /\ TakenIsNew'
  BY <1>1, <1>2, GoneFacts DEF PushFindsEveryKey, TakenIsNew
<1>6. DirtyIsTracked'
  <2> SUFFICES ASSUME NEW a \in Accounts \ crossed, mem[a] # sto'[a]
               PROVE  \E k \in Jobs : a \in Pending(k)'
    BY <1>1 DEF DirtyIsTracked
  <2>1. \A k \in Jobs \ {j} : Pending(k)' = Pending(k)
    BY <1>1 DEF Pending
  <2>2. CASE a \in job[j].got
    <3>1. \E k \in Jobs \ {j} : a \in job[k].executed \cup job[k].dirty
      BY <1>1, <2>2 DEF TakenIsNew
    <3> QED
      BY <2>1, <3>1 DEF Pending
  <2>3. CASE a \notin job[j].got
    <3>1. \E k \in Jobs : a \in Pending(k)
      BY <1>1, <2>3 DEF DirtyIsTracked
    <3>2. a \notin Pending(j)
      BY <1>1, <1>2, <2>3 DEF Pending
    <3> QED
      BY <2>1, <3>1, <3>2
  <2> QED
    BY <2>2, <2>3
<1>7. MemNonceAhead'
  BY <1>1 DEF MemNonceAhead, TakenIsNew
<1>8. FetchedIsStored'
  <2> SUFFICES ASSUME NEW k \in Jobs, NEW a \in job'[k].puts \ crossed
               PROVE  job'[k].held[a] = sto'[a]
    BY <1>1 DEF FetchedIsStored
  <2>1. k # j /\ job'[k] = job[k] /\ a \in Accounts
    BY <1>1, GoneFacts DEF TypeOK, JobState
  <2>2. a \notin job[j].got
    BY <2>1 DEF TakenIsNew
  <2> QED
    BY <1>1, <2>1, <2>2 DEF FetchedIsStored
<1> QED
  BY <1>3, <1>4, <1>5, <1>6, <1>7, <1>8

\* The invariant is preserved when the node restarts.
LEMMA RestartInv == ASSUME Inv, Restart PROVE Inv'
<1> USE DEF Inv
<1>1. \A k \in Jobs : /\ job'[k] \in JobState /\ job'[k].phase \in {"unused", "done"}
                      /\ job'[k].executed = {} /\ job'[k].dirty = {}
                      /\ job'[k].puts = {} /\ job'[k].got = {}
  <2>1. /\ Unused \in JobState /\ Unused.phase = "unused" /\ Unused.executed = {}
        /\ Unused.dirty = {} /\ Unused.puts = {} /\ Unused.got = {}
    BY ConstantsAssumption DEF Unused, JobState, Phases, Nothing, NewAccount, AccountState
  <2> QED
    BY <2>1, GoneFacts DEF Restart
<1>2. TypeOK'
  BY <1>1 DEF Restart, TypeOK
<1>3. Phased' /\ OneLock' /\ PushFindsEveryKey' /\ FetchedIsStored' /\ TakenIsNew'
  BY <1>1 DEF Phased, OneLock, PushFindsEveryKey, FetchedIsStored, TakenIsNew
<1>4. DirtyIsTracked'
  BY DEF Restart, DirtyIsTracked
<1>5. MemNonceAhead'
  BY DEF Restart, MemNonceAhead, TypeOK, AccountState
<1> QED
  BY <1>2, <1>3, <1>4, <1>5

\* Every step preserves the invariant.
LEMMA NextInv == Inv /\ [Next]_vars => Inv'
<1> SUFFICES ASSUME Inv, [Next]_vars PROVE Inv'
  OBVIOUS
<1>1. CASE \E j \in Jobs : \E b \in Blocks : Execute(j, b)
  BY <1>1, ExecuteInv
<1>2. CASE \E j \in Jobs : Step(j)
  BY <1>2, SkipInv, OkInv, FailInv, HangInv, AwaitInv, FetchInv, PutInv, PushAccountInv, PushInv DEF Step
<1>3. CASE \E j \in Jobs : Verdict(j)
  BY <1>3, NoKeysInv, RejectInv, AwaitInv DEF Verdict
<1>4. CASE Restart
  BY <1>4, RestartInv
<1>5. CASE UNCHANGED vars
  <2>1. Settled'
    BY <1>5, QuietStep DEF vars, Inv, Settled
  <2> QED
    BY <1>5, <2>1 DEF vars, Inv, Settled, TypeOK, Phased, OneLock
<1> QED
  BY <1>1, <1>2, <1>3, <1>4, <1>5 DEF Next

\* The inductive invariant holds in every reachable state.
THEOREM InvHolds == Spec => []Inv
<1>1. Init => Inv
  BY InitInv
<1>2. Inv /\ [Next]_vars => Inv'
  BY NextInv
<1> QED
  BY <1>1, <1>2, PTL DEF Spec

\* No balance leaves 0 .. GeneratorBalance: the unsigned subtraction in
\* AccountState.Add never wraps.
THEOREM TypeCorrect == Spec => []TypeOK
<1>1. Inv => TypeOK
  BY DEF Inv
<1> QED
  BY <1>1, InvHolds, PTL

\* With every verdict settled, memory and storage agree on every account on
\* which no push and fetch have crossed (FetchAccounts, PushAccounts).
THEOREM QuiescentMemory == Spec => []QuiescentMemoryIsStored
<1>1. Inv => QuiescentMemoryIsStored
  <2> SUFFICES ASSUME Inv, \A j \in Jobs : ~Open(j), NEW a \in Accounts \ crossed PROVE mem[a] = sto[a]
    BY DEF QuiescentMemoryIsStored
  <2>1. \A j \in Jobs : Pending(j) = {}
    BY NoKeysInHand DEF Pending, Open, Inv
  <2> QED
    BY <2>1 DEF Inv, DirtyIsTracked
<1> QED
  BY <1>1, InvHolds, PTL

\* PushAccounts never misses a key.
THEOREM PushNeverFails == Spec => []PushFindsEveryKey
<1>1. Inv => PushFindsEveryKey
  BY DEF Inv
<1> QED
  BY <1>1, InvHolds, PTL

\* The nonces in storage only grow: a push that has been overtaken by other
\* executions, reverts and pushes stores none that is older.
THEOREM NoncesOnlyGrow == Spec => NonceNeverReused
<1>1. Inv /\ [Next]_vars => [\A a \in Accounts \ crossed : sto[a].nonce <= sto'[a].nonce]_vars
  <2> SUFFICES ASSUME Inv, Next, NEW a \in Accounts \ crossed PROVE sto[a].nonce <= sto'[a].nonce
    OBVIOUS
  <2>1. sto[a].nonce \in Nat
    BY DEF Inv, TypeOK, AccountState
  <2>2. CASE sto' = sto
    BY <2>1, <2>2
  <2>3. CASE \E j \in Jobs : PushAccounts(j)
    <3>1. PICK j \in Jobs : PushAccounts(j)
      BY <2>3
    <3>2. sto'[a] = IF a \in job[j].got THEN job[j].held[a] ELSE sto[a]
      BY <3>1 DEF PushAccounts
    <3>3. a \in job[j].got => sto[a].nonce <= job[j].held[a].nonce
      BY DEF Inv, TakenIsNew
    <3> QED
      BY <2>1, <3>2, <3>3
  <2> QED
    BY <2>2, <2>3, ZenonT(40) DEF Next, Step, Verdict, Execute, ExecuteSkip, ExecuteOk, ExecuteFail, ExecuteHang,
                      AwaitFinality, FetchAccounts, PutAccountState, PushAccount, NoKeys, Reject,
                      Commit, Restart, accounts
<1> QED
  BY <1>1, InvHolds, PTL DEF Spec, NonceNeverReused

\* No transaction executes on a nonce that storage has consumed.
THEOREM NoTransactionTwice == Spec => NoReplay
<1>1. Inv => [\A j \in Jobs : ExecuteOk(j) /\ Current(j).caller \notin crossed =>
                sto[Current(j).caller].nonce <= Current(j).nonce]_vars
  <2> SUFFICES ASSUME Inv, NEW j \in Jobs, ExecuteOk(j), Current(j).caller \notin crossed
               PROVE  sto[Current(j).caller].nonce <= Current(j).nonce
    OBVIOUS
  <2>1. Current(j) \in Txs
    BY CurrentFacts DEF ExecuteOk, Served, Inv
  <2> QED
    BY <2>1, TxFacts DEF ExecuteOk, Succeeds, Subtracts, NonceOk, Inv, MemNonceAhead
<1> QED
  BY <1>1, InvHolds, PTL DEF NoReplay

-----------------------------------------------------------------------------
\* The sum of balances. MapThenSumSet takes one element after the other; Sums
\* is its recursive function, for all sets of accounts.
Some(s) == CHOOSE x \in s : TRUE
Rest(s) == s \ {Some(s)}
Adding(f, sum) ==
  [s \in SUBSET Accounts |-> IF s = {} THEN 0 ELSE f[Some(s)].balance + sum[Rest(s)]]
Sums(f) == CHOOSE sum : sum = Adding(f, sum)

\* Induction for a set of numbers: a least number outside of it has a
\* predecessor inside.
LEMMA NatSets ==
  ASSUME NEW Good, 0 \in Good, \A n \in Nat : n \in Good => n + 1 \in Good
  PROVE  Nat \subseteq Good
<1> DEFINE Bad == Nat \ Good
<1> SUFFICES ASSUME Bad # {} PROVE FALSE
  OBVIOUS
<1>1. PICK m \in Bad : \A n \in Bad : ~(<<n, m>> \in OpToRel(<, Nat))
  <2>1. Bad \subseteq Nat
    OBVIOUS
  <2> HIDE DEF Bad
  <2> QED
    BY <2>1, NatLessThanWellFounded, WFMin
<1>2. \A n \in Bad : ~(n < m)
  BY <1>1 DEF OpToRel
<1>3. m \in Nat /\ m # 0 /\ m - 1 \in Nat /\ m - 1 < m /\ (m - 1) + 1 = m
  OBVIOUS
<1>4. m - 1 \in Good
  BY <1>2, <1>3
<1> QED
  BY <1>3, <1>4

\* Induction in the order in which the sum takes its elements: a least set
\* of accounts that is not good has a good rest.
LEMMA SubsetInduction ==
  ASSUME NEW Good, {} \in Good,
         \A A \in SUBSET Accounts : A # {} /\ Rest(A) \in Good => A \in Good
  PROVE  SUBSET Accounts \subseteq Good
<1> DEFINE Bad == (SUBSET Accounts) \ Good
<1> SUFFICES ASSUME Bad # {} PROVE FALSE
  OBVIOUS
<1>1. IsWellFoundedOn(StrictSubsetOrdering(Accounts), FiniteSubsetsOf(Accounts))
  BY FS_StrictSubsetOrderingWellFounded
<1>2. Bad \subseteq FiniteSubsetsOf(Accounts)
  BY FS_Subset, FiniteAccounts DEF FiniteSubsetsOf
<1>3. PICK A \in Bad : \A B \in Bad : ~(<<B, A>> \in StrictSubsetOrdering(Accounts))
  <2> HIDE DEF Bad
  <2> QED
    BY <1>1, <1>2, WFMin
<1>4. A # {} /\ A \in SUBSET Accounts
  OBVIOUS
<1>5. Some(A) \in A
  BY <1>4 DEF Some
<1>6. <<Rest(A), A>> \in StrictSubsetOrdering(Accounts)
  BY <1>4, <1>5 DEF StrictSubsetOrdering, Rest
<1>7. Rest(A) \in SUBSET Accounts /\ Rest(A) \notin Bad
  BY <1>3, <1>4, <1>6 DEF Rest
<1> QED
  BY <1>4, <1>7

Balances(f) == \A a \in Accounts : f[a].balance \in Int

\* One round of the sum: what it adds to the sum of the rest.
LEMMA AddingFacts ==
  ASSUME NEW f, NEW sum
  PROVE  /\ DOMAIN Adding(f, sum) = SUBSET Accounts
         /\ Adding(f, sum)[{}] = 0
         /\ \A s \in SUBSET Accounts : s # {} =>
              /\ Some(s) \in s /\ Rest(s) \in SUBSET Accounts
              /\ Adding(f, sum)[s] = f[Some(s)].balance + sum[Rest(s)]
         /\ Balances(f) /\ sum \in [SUBSET Accounts -> Int] => Adding(f, sum) \in [SUBSET Accounts -> Int]
<1>1. \A s \in SUBSET Accounts : s # {} => Some(s) \in s /\ Rest(s) \in SUBSET Accounts
  BY DEF Some, Rest
<1> QED
  BY <1>1 DEF Adding, Balances

\* The recursive function exists, and its values are integers: n rounds give
\* the sums of all sets of up to n accounts, and the accounts are finite.
LEMMA SumsExist ==
  ASSUME NEW f, Balances(f)
  PROVE  Sums(f) = Adding(f, Sums(f)) /\ Sums(f) \in [SUBSET Accounts -> Int]
<1> DEFINE Right(g, n) == \A s \in SUBSET Accounts : Cardinality(s) <= n => g[s] = Adding(f, g)[s]
           Good == {n \in Nat : \E g \in [SUBSET Accounts -> Int] : Right(g, n)}
<1>1. \A s \in SUBSET Accounts : IsFiniteSet(s) /\ Cardinality(s) \in Nat /\ Cardinality(s) <= Cardinality(Accounts)
  BY FS_Subset, FS_CardinalityType, FiniteAccounts
<1>2. 0 \in Good
  <2> DEFINE g == [s \in SUBSET Accounts |-> 0]
  <2>1. g \in [SUBSET Accounts -> Int]
    OBVIOUS
  <2>2. ASSUME NEW s \in SUBSET Accounts, Cardinality(s) <= 0 PROVE g[s] = Adding(f, g)[s]
    <3>1. s = {}
      BY <1>1, <2>2, FS_EmptySet
    <3> QED
      BY <2>1, <3>1, AddingFacts
  <2> QED
    BY <2>1, <2>2
<1>3. ASSUME NEW n \in Nat, n \in Good PROVE n + 1 \in Good
  <2>1. PICK g \in [SUBSET Accounts -> Int] : Right(g, n)
    BY <1>3
  <2> DEFINE h == Adding(f, g)
  <2>2. h \in [SUBSET Accounts -> Int]
    BY AddingFacts
  <2>3. ASSUME NEW s \in SUBSET Accounts, Cardinality(s) <= n + 1 PROVE h[s] = Adding(f, h)[s]
    <3>1. CASE s = {}
      BY <2>2, <3>1, AddingFacts
    <3>2. CASE s # {}
      <4>1. /\ Some(s) \in s /\ Rest(s) \in SUBSET Accounts
            /\ h[s] = f[Some(s)].balance + g[Rest(s)]
        BY <3>2, AddingFacts
      <4>2. Adding(f, h)[s] = f[Some(s)].balance + h[Rest(s)]
        BY <2>2, <3>2, AddingFacts
      <4>3. Cardinality(Rest(s)) = Cardinality(s) - 1
        BY <1>1, <4>1, FS_RemoveElement DEF Rest
      <4>4. Cardinality(Rest(s)) <= n
        BY <1>1, <2>3, <4>1, <4>3
      <4>5. g[Rest(s)] = h[Rest(s)]
        BY <2>1, <4>1, <4>4
      <4> QED
        BY <4>1, <4>2, <4>5
    <3> QED
      BY <3>1, <3>2
  <2>4. Right(h, n + 1)
    BY <2>3
  <2> HIDE DEF h, Right
  <2> QED
    BY <2>2, <2>4
<1>4. Cardinality(Accounts) \in Good
  <2>1. Cardinality(Accounts) \in Nat
    BY <1>1
  <2> HIDE DEF Good
  <2> QED
    BY <1>2, <1>3, <2>1, NatSets
<1>5. PICK g \in [SUBSET Accounts -> Int] : Right(g, Cardinality(Accounts))
  BY <1>4
<1>6. g = Adding(f, g)
  <2>1. \A s \in SUBSET Accounts : g[s] = Adding(f, g)[s]
    BY <1>1, <1>5
  <2>2. Adding(f, g) \in [SUBSET Accounts -> Int]
    BY AddingFacts
  <2> QED
    BY <2>1, <2>2
<1>7. Sums(f) = Adding(f, Sums(f))
  BY <1>6, Zenon DEF Sums
<1>8. SUBSET Accounts \subseteq {s \in SUBSET Accounts : Sums(f)[s] \in Int}
  <2> DEFINE Typed == {s \in SUBSET Accounts : Sums(f)[s] \in Int}
  <2>1. {} \in Typed
    BY <1>7, AddingFacts
  <2>2. ASSUME NEW A \in SUBSET Accounts, A # {}, Rest(A) \in Typed PROVE A \in Typed
    BY <1>7, <2>2, AddingFacts DEF Balances
  <2> HIDE DEF Typed
  <2>3. SUBSET Accounts \subseteq Typed
    BY <2>1, <2>2, SubsetInduction
  <2> QED
    BY <2>3 DEF Typed
<1>9. DOMAIN Sums(f) = SUBSET Accounts /\ Sums(f) = [s \in DOMAIN Sums(f) |-> Sums(f)[s]]
  BY <1>7 DEF Adding
<1> QED
  BY <1>7, <1>8, <1>9

\* The supply is the sum for all accounts.
LEMMA SupplyIsSum ==
  ASSUME NEW f PROVE Supply(f) = Sums(f)[Accounts]
BY DEF Supply, MapThenSumSet, MapThenFoldSet, Sums, Adding, Rest, Some

\* Accounts without balance add up to nothing.
LEMMA EmptySupply ==
  ASSUME NEW f, \A a \in Accounts : f[a].balance = 0 PROVE Supply(f) = 0
<1> DEFINE Zero == {s \in SUBSET Accounts : Sums(f)[s] = 0}
<1>1. Sums(f) = Adding(f, Sums(f))
  BY SumsExist DEF Balances
<1>2. {} \in Zero
  BY <1>1, AddingFacts
<1>3. ASSUME NEW A \in SUBSET Accounts, A # {}, Rest(A) \in Zero PROVE A \in Zero
  BY <1>1, <1>3, AddingFacts
<1> HIDE DEF Zero
<1>4. SUBSET Accounts \subseteq Zero
  BY <1>2, <1>3, SubsetInduction
<1> QED
  BY <1>4, SupplyIsSum DEF Zero

\* A state that differs in the balance of one account has a supply that
\* differs by as much.
LEMMA OneBalanceChanges ==
  ASSUME NEW f, NEW g, Balances(f), Balances(g), NEW x \in Accounts,
         \A a \in Accounts \ {x} : g[a].balance = f[a].balance
  PROVE  Supply(f) \in Int /\ Supply(g) = Supply(f) + (g[x].balance - f[x].balance)
<1> DEFINE Diff == g[x].balance - f[x].balance
           Good == {s \in SUBSET Accounts :
                      Sums(g)[s] = Sums(f)[s] + IF x \in s THEN Diff ELSE 0}
<1>1. /\ Sums(f) = Adding(f, Sums(f)) /\ Sums(f) \in [SUBSET Accounts -> Int]
      /\ Sums(g) = Adding(g, Sums(g)) /\ Sums(g) \in [SUBSET Accounts -> Int]
  BY SumsExist
<1>2. {} \in Good
  BY <1>1, AddingFacts
<1>3. ASSUME NEW A \in SUBSET Accounts, A # {}, Rest(A) \in Good PROVE A \in Good
  <2>1. /\ Some(A) \in A /\ Rest(A) \in SUBSET Accounts
        /\ Sums(f)[A] = f[Some(A)].balance + Sums(f)[Rest(A)]
        /\ Sums(g)[A] = g[Some(A)].balance + Sums(g)[Rest(A)]
    BY <1>1, <1>3, AddingFacts
  <2>2. Sums(g)[Rest(A)] = Sums(f)[Rest(A)] + IF x \in Rest(A) THEN Diff ELSE 0
    BY <1>3
  <2>3. /\ f[Some(A)].balance \in Int /\ g[Some(A)].balance \in Int /\ Diff \in Int
        /\ Sums(f)[Rest(A)] \in Int
    BY <1>1, <2>1 DEF Balances
  <2>4. CASE Some(A) = x
    <3>1. x \in A /\ x \notin Rest(A)
      BY <2>1, <2>4 DEF Rest
    <3> QED
      BY <2>1, <2>2, <2>3, <2>4, <3>1
  <2>5. CASE Some(A) # x
    <3>1. (x \in A <=> x \in Rest(A)) /\ g[Some(A)].balance = f[Some(A)].balance
      BY <2>1, <2>5 DEF Rest
    <3> QED
      BY <2>1, <2>2, <2>3, <3>1
  <2> QED
    BY <2>4, <2>5
<1>4. Accounts \in Good
  <2> HIDE DEF Good
  <2> QED
    BY <1>2, <1>3, SubsetInduction
<1> QED
  BY <1>1, <1>4, SupplyIsSum

Moved(f, g, x, y, amount) ==
  \A a \in Accounts : g[a].balance = f[a].balance - (IF a = x THEN amount ELSE 0)
                                                  + (IF a = y THEN amount ELSE 0)

\* Moving an amount from one account to another, or to itself, leaves the
\* supply as it is.
LEMMA MovedBalance ==
  ASSUME NEW f, NEW g, Balances(f), Balances(g), NEW x \in Accounts, NEW y \in Accounts,
         NEW amount \in Int, Moved(f, g, x, y, amount)
  PROVE  Supply(g) = Supply(f)
<1> DEFINE h == [a \in Accounts |->
                   [balance |-> f[a].balance - (IF a = x THEN amount ELSE 0)]]
<1>1. Balances(h)
  BY DEF Balances
<1>2. \A a \in Accounts \ {x} : h[a].balance = f[a].balance
  BY DEF Balances
<1>3. \A a \in Accounts \ {y} : g[a].balance = h[a].balance
  BY DEF Balances, Moved
<1>4. h[x].balance - f[x].balance = 0 - amount /\ g[y].balance - h[y].balance = amount
  BY DEF Balances, Moved
<1> HIDE DEF h
<1>5. Supply(f) \in Int /\ Supply(h) = Supply(f) + (h[x].balance - f[x].balance)
  BY <1>1, <1>2, OneBalanceChanges
<1>6. Supply(g) = Supply(h) + (g[y].balance - h[y].balance)
  BY <1>1, <1>3, OneBalanceChanges
<1> QED
  BY <1>4, <1>5, <1>6

-----------------------------------------------------------------------------
\* Storage as it would be after yes verdicts for the executions in K.
Pushed(K) ==
  [a \in Accounts |-> IF \E j \in K : a \in job[j].executed THEN mem[a] ELSE sto[a]]

\* The supply is whole whichever executions get a yes.
SupplyKept ==
  ~overlapped => /\ ~Meet /\ crossed = {}
                 /\ \A K \in SUBSET Jobs : Supply(Pushed(K)) = GeneratorBalance

\* What the history variable records in a step.
Recorded == (overlapped => overlapped') /\ (Meet' => overlapped')

\* A step after which every choice of executions stores what some choice
\* before it would have stored keeps the supply.
LEMMA SameChoices ==
  ASSUME SupplyKept, Recorded, ~overlapped' => crossed' = {},
         ~overlapped' => \A K \in SUBSET Jobs : \E L \in SUBSET Jobs :
                           \A a \in Accounts : Pushed(K)'[a] = Pushed(L)[a]
  PROVE  SupplyKept'
<1> SUFFICES ASSUME ~overlapped', NEW K \in SUBSET Jobs
             PROVE  Supply(Pushed(K)') = GeneratorBalance
  BY DEF SupplyKept, Recorded
<1>1. PICK L \in SUBSET Jobs : \A a \in Accounts : Pushed(K)'[a] = Pushed(L)[a]
  OBVIOUS
<1>2. Pushed(K)' = Pushed(L)
  BY <1>1 DEF Pushed
<1>3. Supply(Pushed(L)) = GeneratorBalance
  BY DEF SupplyKept, Recorded
<1> QED
  BY <1>2, <1>3

\* A step that leaves storage, executed keys and their memory alone keeps the
\* supply.
LEMMA QuietSupply ==
  ASSUME SupplyKept, Recorded, sto' = sto, ~overlapped' => crossed' = {},
         \A k \in Jobs : job'[k].executed = job[k].executed,
         ~overlapped' => \A k \in Jobs : \A a \in job[k].executed : mem'[a] = mem[a]
  PROVE  SupplyKept'
<1>1. ASSUME ~overlapped', NEW K \in SUBSET Jobs, NEW a \in Accounts
      PROVE  Pushed(K)'[a] = Pushed(K)[a]
  <2>1. \A j \in K : job'[j].executed = job[j].executed
    OBVIOUS
  <2>2. (\E j \in K : a \in job[j].executed) => mem'[a] = mem[a]
    BY <1>1
  <2> QED
    BY <2>1, <2>2 DEF Pushed
<1> QED
  BY <1>1, SameChoices

\* Steps that move no account and end no execution keep the supply.
LEMMA IdleSupply ==
  ASSUME Inv, SupplyKept, Recorded, NEW j \in Jobs,
         \/ \E b \in Blocks : Execute(j, b)
         \/ ExecuteSkip(j) \/ ExecuteHang(j) \/ AwaitFinality(j) \/ FetchAccounts(j)
         \/ NoKeys(j) \/ Commit(j)
  PROVE  SupplyKept'
<1>1. UNCHANGED <<mem, sto, crossed>>
  BY DEF Execute, ExecuteSkip, ExecuteHang, AwaitFinality, FetchAccounts, NoKeys, Commit, accounts
<1>2. \A k \in Jobs : job'[k].executed = job[k].executed
  <2>1. CASE \E b \in Blocks : Execute(j, b)
    <3>1. job[j].executed = {} /\ job'[j].executed = {} /\ \A k \in Jobs \ {j} : job'[k] = job[k]
      BY <2>1, NoKeysInHand, ZenonT(40) DEF Execute, Unused, Inv, TypeOK
    <3> QED
      BY <3>1
  <2>2. CASE NoKeys(j)
    <3>1. job[j].executed = {} /\ job'[j].executed = {} /\ \A k \in Jobs \ {j} : job'[k] = job[k]
      BY <2>2, GoneFacts DEF NoKeys, Inv, TypeOK
    <3> QED
      BY <3>1
  <2>3. CASE ExecuteSkip(j)
    BY <2>3 DEF ExecuteSkip, Inv, TypeOK, JobState
  <2>4. CASE ExecuteHang(j)
    BY <2>4 DEF ExecuteHang
  <2>5. CASE AwaitFinality(j)
    BY <2>5 DEF AwaitFinality, Inv, TypeOK, JobState
  <2>6. CASE FetchAccounts(j)
    BY <2>6 DEF FetchAccounts, Inv, TypeOK, JobState
  <2>7. CASE Commit(j)
    BY <2>7 DEF Commit, Inv, TypeOK, JobState
  <2> QED
    BY <2>1, <2>2, <2>3, <2>4, <2>5, <2>6, <2>7
<1>3. ~overlapped' => crossed' = {}
  BY <1>1 DEF SupplyKept, Recorded
<1> QED
  BY <1>1, <1>2, <1>3, QuietSupply

\* After a restart nothing is open: storage is as it was.
LEMMA RestartSupply ==
  ASSUME Inv, SupplyKept, Recorded, Restart PROVE SupplyKept'
<1>1. \A k \in Jobs : job'[k].executed = {}
  BY GoneFacts DEF Restart, Unused
<1>2. ASSUME NEW K \in SUBSET Jobs, NEW a \in Accounts PROVE Pushed(K)'[a] = Pushed({})[a]
  <2>1. ~ \E k \in K : a \in job'[k].executed
    BY <1>1
  <2> QED
    BY <2>1 DEF Restart, Pushed
<1>3. crossed' = {}
  BY DEF Restart
<1> QED
  BY <1>2, <1>3, SameChoices

\* A failed transaction has met no executed account: its writes are not
\* counted.
LEMMA FailSupply ==
  ASSUME Inv, SupplyKept, Recorded, NEW j \in Jobs, ExecuteFail(j) PROVE SupplyKept'
<1> DEFINE t == Current(j)
<1>1. t \in Txs /\ Touched(t) \subseteq Accounts
  BY CurrentFacts, TxFacts DEF ExecuteFail, Served, Inv
<1>2. /\ job'[j].dirty = Touched(t) /\ UNCHANGED <<sto, crossed>>
      /\ \A k \in Jobs : job'[k].executed = job[k].executed
  BY DEF ExecuteFail, Inv, TypeOK, JobState
<1>3. \A a \in Accounts \ Touched(t) : mem'[a] = mem[a]
  BY <1>1, TriedFacts DEF ExecuteFail, Inv
<1>4. \A k \in Jobs : job[k].executed \subseteq Accounts
  BY DEF Inv, TypeOK, JobState
<1>5. ASSUME ~overlapped', NEW k \in Jobs, NEW a \in job[k].executed PROVE mem'[a] = mem[a]
  <2>1. ~Meet'
    BY <1>5 DEF Recorded
  <2>2. a \notin job'[j].dirty
    BY <1>2, <2>1 DEF Meet, Pending
  <2> QED
    BY <1>2, <1>3, <1>4, <2>2
<1>6. ~overlapped' => crossed' = {}
  BY <1>2 DEF SupplyKept, Recorded
<1> QED
  BY <1>2, <1>5, <1>6, QuietSupply

\* A fetched state is put on no executed account.
LEMMA PutSupply ==
  ASSUME Inv, SupplyKept, Recorded, NEW j \in Jobs, NEW a \in Accounts, PutAccountState(j, a)
  PROVE  SupplyKept'
<1>1. /\ a \in job[j].puts /\ UNCHANGED <<sto, crossed>>
      /\ \A k \in Jobs : job'[k].executed = job[k].executed
      /\ \A b \in Accounts \ {a} : mem'[b] = mem[b]
  BY DEF PutAccountState, Inv, TypeOK, JobState
<1>2. \A k \in Jobs : job[k].executed \subseteq Accounts
  BY DEF Inv, TypeOK, JobState
<1>3. ASSUME ~overlapped', NEW k \in Jobs, NEW b \in job[k].executed PROVE mem'[b] = mem[b]
  <2>1. ~Meet
    BY <1>3 DEF Recorded, SupplyKept
  <2>2. b # a
    BY <1>1, <2>1 DEF Meet, Pending
  <2> QED
    BY <1>1, <1>2, <2>2
<1>4. ~overlapped' => crossed' = {}
  BY <1>1 DEF SupplyKept, Recorded
<1> QED
  BY <1>1, <1>3, <1>4, QuietSupply

\* A push that reads an account crosses no fetch of it.
LEMMA PushAccountSupply ==
  ASSUME Inv, SupplyKept, Recorded, NEW j \in Jobs, NEW a \in Accounts, PushAccount(j, a)
  PROVE  SupplyKept'
<1>1. /\ a \in job[j].executed /\ UNCHANGED <<mem, sto>>
      /\ \A k \in Jobs : job'[k].executed = job[k].executed
  BY DEF PushAccount, Inv, TypeOK, JobState, accounts
<1>2. ASSUME ~overlapped' PROVE crossed' = {}
  <2>1. ~Meet /\ crossed = {}
    BY <1>2 DEF Recorded, SupplyKept
  <2>2. \A k \in Jobs : a \notin job[k].puts
    BY <1>1, <2>1 DEF Meet, Pending
  <2> QED
    BY <2>1, <2>2 DEF PushAccount
<1> QED
  BY <1>1, <1>2, QuietSupply

\* The verdict no drops the execution from the choices.
LEMMA RejectSupply ==
  ASSUME Inv, SupplyKept, Recorded, NEW j \in Jobs, Reject(j) PROVE SupplyKept'
<1>1. /\ job'[j].executed = {} /\ UNCHANGED <<mem, sto, crossed>>
      /\ \A k \in Jobs \ {j} : job'[k] = job[k]
  BY DEF Reject, Inv, TypeOK, JobState, accounts
<1>2. ASSUME NEW K \in SUBSET Jobs, NEW a \in Accounts PROVE Pushed(K)'[a] = Pushed(K \ {j})[a]
  <2>1. (\E k \in K : a \in job'[k].executed) <=> (\E k \in K \ {j} : a \in job[k].executed)
    BY <1>1
  <2> QED
    BY <1>1, <2>1 DEF Pushed
<1>3. ~overlapped' => crossed' = {}
  BY <1>1 DEF SupplyKept, Recorded
<1>4. \A K \in SUBSET Jobs : K \ {j} \in SUBSET Jobs
  OBVIOUS
<1> QED
  BY <1>2, <1>3, <1>4, SameChoices

\* A push stores what the invariant has counted already.
LEMMA PushSupply ==
  ASSUME Inv, SupplyKept, Recorded, NEW j \in Jobs, PushAccounts(j) PROVE SupplyKept'
<1>1. /\ job'[j].executed = {} /\ UNCHANGED <<mem, crossed>> /\ job[j].got = job[j].executed
      /\ \A k \in Jobs \ {j} : job'[k] = job[k]
      /\ \A a \in Accounts : sto'[a] = IF a \in job[j].executed THEN job[j].held[a] ELSE sto[a]
  BY GoneFacts DEF PushAccounts, Inv, TypeOK
<1>2. ~overlapped' => crossed' = {}
  BY <1>1 DEF SupplyKept, Recorded
<1>3. ASSUME ~overlapped', NEW K \in SUBSET Jobs, NEW a \in Accounts
      PROVE  Pushed(K)'[a] = Pushed(K \cup {j})[a]
  <2>1. ~Meet /\ crossed = {}
    BY <1>3 DEF Recorded, SupplyKept
  <2>2. (\E k \in K : a \in job'[k].executed) <=> (\E k \in K \ {j} : a \in job[k].executed)
    BY <1>1
  <2>3. CASE a \in job[j].executed
    <3>1. \A k \in Jobs \ {j} : a \notin job[k].executed \cup job[k].dirty
      BY <2>1, <2>3 DEF Meet, Pending
    <3>2. mem[a] = job[j].held[a]
      BY <1>1, <2>1, <2>3, <3>1 DEF Inv, TakenIsNew
    <3> QED
      BY <1>1, <2>3, <3>2 DEF Pushed
  <2>4. CASE a \notin job[j].executed
    BY <1>1, <2>2, <2>4 DEF Pushed
  <2> QED
    BY <2>3, <2>4
<1>4. \A K \in SUBSET Jobs : K \cup {j} \in SUBSET Jobs
  OBVIOUS
<1> QED
  BY <1>2, <1>3, <1>4, SameChoices

\* A transaction executes: with its job among the counted ones balance moves,
\* without it nothing changes for them.
LEMMA OkSupply ==
  ASSUME Inv, SupplyKept, Recorded, NEW j \in Jobs, ExecuteOk(j)
  PROVE  SupplyKept'
<1> SUFFICES ASSUME ~overlapped', NEW K \in SUBSET Jobs
             PROVE  Supply(Pushed(K)') = GeneratorBalance
  BY DEF SupplyKept, Recorded, ExecuteOk
<1> DEFINE t == Current(j)
<1>1. /\ t \in Txs /\ Succeeds(t) /\ mem' = Applied(t) /\ sto' = sto
      /\ mem \in [Accounts -> AccountState] /\ sto \in [Accounts -> AccountState]
  BY CurrentFacts DEF ExecuteOk, Served, Inv, TypeOK
<1>2. /\ mem' \in [Accounts -> AccountState]
      /\ \A a \in Accounts \ Touched(t) : mem'[a] = mem[a]
  BY <1>1, AppliedFacts DEF Inv
<1>3. /\ job'[j].executed = job[j].executed \cup Touched(t)
      /\ \A k \in Jobs \ {j} : job'[k] = job[k]
      /\ job[j].dirty = {} /\ job[j].puts = {}
  BY NoKeysInHand DEF ExecuteOk, Served, Running, Inv, TypeOK, JobState
<1>4. ~Meet' /\ crossed = {}
  BY DEF Recorded, SupplyKept
<1> HIDE DEF t
<1>5. Supply(Pushed(K)) = GeneratorBalance
  BY DEF SupplyKept, Recorded
<1>6. CASE j \notin K
  <2>1. ASSUME NEW k \in K PROVE job'[k].executed = job[k].executed /\ job[k].executed \cap Touched(t) = {}
    <3>1. k \in Jobs \ {j} /\ job'[k] = job[k]
      BY <1>3, <1>6
    <3>2. job'[k].executed \cap job'[j].executed = {}
      BY <1>4, <3>1 DEF Meet, Pending
    <3> QED
      BY <1>3, <3>1, <3>2
  <2>2. ASSUME NEW a \in Accounts PROVE Pushed(K)'[a] = Pushed(K)[a]
    <3>1. (\E k \in K : a \in job'[k].executed) <=> (\E k \in K : a \in job[k].executed)
      BY <2>1
    <3>2. (\E k \in K : a \in job[k].executed) => mem'[a] = mem[a]
      BY <1>2, <2>1
    <3> QED
      BY <1>1, <3>1, <3>2 DEF Pushed
  <2>3. Pushed(K)' = Pushed(K)
    BY <2>2 DEF Pushed
  <2> QED
    BY <1>5, <2>3
<1>7. CASE j \in K
  <2>1. \A a \in Touched(t) : \A l \in Jobs \ {j} : a \notin Pending(l)
    <3>1. \A l \in Jobs \ {j} : job'[j].executed \cap Pending(l)' = {}
      BY <1>4 DEF Meet
    <3>2. \A l \in Jobs \ {j} : Pending(l)' = Pending(l)
      BY <1>3 DEF Pending
    <3> QED
      BY <1>3, <3>1, <3>2
  <2>2. ASSUME NEW a \in Accounts, a \in Touched(t)
        PROVE  Pushed(K)[a] = mem[a] /\ Pushed(K)'[a] = mem'[a]
    <3>1. Pushed(K)'[a] = mem'[a]
      BY <1>3, <1>7, <2>2 DEF Pushed
    <3>2. a \in job[j].executed \/ mem[a] = sto[a]
      <4>1. a \in Pending(j) => a \in job[j].executed
        BY <1>3 DEF Pending
      <4> QED
        BY <1>4, <2>1, <2>2, <4>1 DEF Inv, DirtyIsTracked
    <3> QED
      BY <1>7, <3>1, <3>2 DEF Pushed
  <2>3. ASSUME NEW a \in Accounts, a \notin Touched(t)
        PROVE  Pushed(K)'[a] = Pushed(K)[a]
    <3>1. (\E k \in K : a \in job'[k].executed) <=> (\E k \in K : a \in job[k].executed)
      BY <1>3, <2>3
    <3> QED
      BY <1>1, <1>2, <2>3, <3>1 DEF Pushed
  <2>4. ASSUME NEW a \in Accounts
        PROVE  Pushed(K)'[a].balance = Pushed(K)[a].balance
                                         - (IF a = Payer(t) THEN t.amount ELSE 0)
                                         + (IF a = Payee(t) THEN t.amount ELSE 0)
    <3>1. CASE a \in Touched(t)
      BY <1>1, <2>2, <3>1 DEF Applied
    <3>2. CASE a \notin Touched(t)
      <4>1. a # Payer(t) /\ a # Payee(t)
        BY <3>2 DEF Touched
      <4>2. Pushed(K)[a].balance \in Int
        BY <1>1, ConstantsAssumption DEF Pushed, AccountState
      <4> QED
        BY <2>3, <3>2, <4>1, <4>2
    <3> QED
      BY <3>1, <3>2
  <2>5. Balances(Pushed(K)) /\ Balances(Pushed(K)')
    BY <1>1, <1>2, ConstantsAssumption, SMTT(20) DEF Pushed, Balances, AccountState
  <2>6. Payer(t) \in Accounts /\ Payee(t) \in Accounts /\ t.amount \in Int
    BY <1>1, TxFacts
  <2>7. Moved(Pushed(K), Pushed(K)', Payer(t), Payee(t), t.amount)
    BY <2>4 DEF Moved
  <2> QED
    BY <1>5, <2>5, <2>6, <2>7, MovedBalance
<1> QED
  BY <1>6, <1>7

\* The generator holds everything at genesis.
LEMMA InitSupply == HInit => SupplyKept
<1> SUFFICES ASSUME Init PROVE SupplyKept
  BY DEF HInit
<1>1. (\A k \in Jobs : job[k].executed = {}) /\ crossed = {}
  BY DEF Init, Unused
<1>2. ~Meet /\ \A K \in SUBSET Jobs : Pushed(K) = sto
  <2>1. ASSUME NEW K \in SUBSET Jobs PROVE Pushed(K) = sto
    <3>1. \A a \in Accounts : ~ \E k \in K : a \in job[k].executed
      BY <1>1
    <3> QED
      BY <3>1 DEF Pushed, Init, Genesis
  <2> QED
    BY <1>1, <2>1 DEF Meet
<1>3. sto = Genesis
  BY DEF Init
<1>4. Supply(Nothing) = 0
  BY EmptySupply DEF Nothing, NewAccount
<1>5. Balances(Nothing) /\ Balances(Genesis)
  BY ConstantsAssumption DEF Balances, Nothing, NewAccount, Genesis
<1>6. \A a \in Accounts \ {Generator} : Genesis[a].balance = Nothing[a].balance
  BY DEF Genesis, Nothing
<1>7. Genesis[Generator].balance - Nothing[Generator].balance = GeneratorBalance
  BY ConstantsAssumption DEF Genesis, Nothing, NewAccount
<1>8. Supply(Genesis) = Supply(Nothing) + (Genesis[Generator].balance - Nothing[Generator].balance)
  BY <1>5, <1>6, ConstantsAssumption, OneBalanceChanges
<1>9. Supply(Genesis) = GeneratorBalance
  BY <1>4, <1>7, <1>8, ConstantsAssumption
<1> QED
  BY <1>1, <1>2, <1>3, <1>9 DEF SupplyKept

\* Every step keeps the supply, whatever verdicts are still out.
LEMMA NextSupply == Inv /\ SupplyKept /\ [HNext]_hvars => SupplyKept'
<1> SUFFICES ASSUME Inv, SupplyKept, [HNext]_hvars PROVE SupplyKept'
  OBVIOUS
<1>1. CASE UNCHANGED hvars
  <2>1. Meet' <=> Meet
    BY <1>1 DEF Meet, Pending, hvars, vars
  <2>2. (Recorded /\ (~overlapped' => crossed' = {})) \/ overlapped
    BY <1>1, <2>1 DEF Recorded, SupplyKept, hvars, vars
  <2>3. CASE overlapped
    BY <1>1, <2>3 DEF SupplyKept, hvars
  <2>4. CASE ~overlapped
    BY <1>1, <2>2, <2>4, QuietSupply DEF hvars, vars
  <2> QED
    BY <2>3, <2>4
<1>2. CASE HNext
  <2>1. Recorded
    BY <1>2 DEF HNext, Recorded
  <2>2. CASE \E j \in Jobs : \E b \in Blocks : Execute(j, b)
    BY <2>1, <2>2, IdleSupply
  <2>3. CASE \E j \in Jobs : Step(j)
    BY <2>1, <2>3, IdleSupply, OkSupply, FailSupply, PutSupply, PushAccountSupply, PushSupply DEF Step
  <2>4. CASE \E j \in Jobs : Verdict(j)
    BY <2>1, <2>4, IdleSupply, RejectSupply DEF Verdict
  <2>5. CASE Restart
    BY <2>1, <2>5, RestartSupply
  <2> QED
    BY <1>2, <2>2, <2>3, <2>4, <2>5 DEF HNext, Next
<1> QED
  BY <1>1, <1>2

\* For any accounts, blocks and number of concurrent executions, storage adds
\* up to the generator's balance until executions meet on an account.
THEOREM SupplyStays == HSpec => []SupplyConserved
<1>1. HSpec => Spec
  <2>1. HInit => Init
    BY DEF HInit
  <2>2. [HNext]_hvars => [Next]_vars
    BY DEF HNext, hvars
  <2> QED
    BY <2>1, <2>2, PTL DEF HSpec, Spec
<1>2. Inv /\ SupplyKept => SupplyConserved
  <2> SUFFICES ASSUME Inv, SupplyKept, ~overlapped PROVE Supply(sto) = GeneratorBalance
    BY DEF SupplyConserved
  <2>1. Pushed({}) = sto
    BY DEF Pushed, Inv, TypeOK
  <2> QED
    BY <2>1 DEF SupplyKept
<1> QED
  BY <1>1, <1>2, InvHolds, InitSupply, NextSupply, PTL DEF HSpec
=============================================================================
