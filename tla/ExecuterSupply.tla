--------------------------- MODULE ExecuterSupply ---------------------------
(***************************************************************************)
(* The supply: what airdrops and transfers do to the sum of all balances.  *)
(* A history variable records whether executions have met on an account.   *)
(***************************************************************************)
EXTENDS Executer, FiniteSetsExt

ASSUME FiniteAccounts == IsFiniteSet(Accounts)

VARIABLE overlapped  \* executions have met on an account

hvars == <<vars, overlapped>>

\* What one execution has written, another one will push or fetch, or its own
\* revert will.
Meet ==
  \E j \in Jobs : \/ job[j].executed \cap (job[j].dirty \cup job[j].puts) # {}
                  \/ \E k \in Jobs \ {j} : job[j].executed \cap Pending(k) # {}

HInit == Init /\ overlapped = FALSE
HNext == Next /\ overlapped' = (overlapped \/ Meet')
HSpec == HInit /\ [][HNext]_hvars
HFairSpec == HSpec /\ \A j \in Jobs : WF_vars(Step(j))

Supply(state) == MapThenSumSet(LAMBDA a : state[a].balance, Accounts)

\* Airdrops and transfers only move balance: storage holds exactly the
\* generator's balance after any number of blocks, rejections, reverts and
\* restarts, as long as no two executions meet on an account and no block
\* touches an account of one of its failed transactions (executer.go,
\* airdropImpl, transferImpl, revert).
SupplyConserved == ~overlapped => Supply(sto) = GeneratorBalance
=============================================================================
