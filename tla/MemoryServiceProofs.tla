------------------------ MODULE MemoryServiceProofs ------------------------
(***************************************************************************)
(* Theorems about the service goroutine and the bulk operations that share *)
(* it, for any operations, keys and channel capacity.                      *)
(***************************************************************************)
EXTENDS MemoryService, TLAPS, FiniteSetTheorems, SequenceTheorems, WellFoundedInduction

\* The types.
TxRequests == [kind : {"append", "remove"}, txs : SUBSET Txs]
MempoolTyped ==
  /\ pool \subseteq Txs /\ bundle \subseteq Txs /\ sent \subseteq Txs
  /\ size \in 0 .. Cardinality(Txs)
  /\ txCh \in Seq(TxRequests) /\ Len(txCh) <= Cap
  /\ producer \in {"idle", "sized", "proposed", "failed"}
ServiceTyped ==
  /\ stateCh \in Seq(Clients) /\ Len(stateCh) <= Cap
  /\ serving \in Clients \cup {Nobody} /\ lock \in Clients \cup {Nobody}
  /\ keys \in [Clients -> 1 .. MaxKeys]
  /\ phase \in [Clients -> {"start", "ask", "read", "done"}]
  /\ asked \in [Clients -> Nat] /\ got \in [Clients -> Nat]

\* How far an operation is in each phase.
InPhase(c) ==
  /\ got[c] <= asked[c] /\ asked[c] <= keys[c]
  /\ phase[c] = "start" => asked[c] = 0
  /\ phase[c] \in {"read", "done"} => asked[c] = keys[c]
  /\ phase[c] = "done" => got[c] = keys[c]
Phases == \A c \in Clients : InPhase(c)

\* The lock is held by the one operation that is inside db.Update.
Locked == \A c \in Clients : lock = c <=> phase[c] = (IF c \in Fetching THEN "ask" ELSE "read")

\* The requests of a client that are not answered are those in the channel
\* and the one in hand; and so for all clients together.
Positions(q, c) == {i \in DOMAIN q : q[i] = c}
Counted ==
  \A c \in Clients :
    asked[c] - got[c] = Cardinality(Positions(stateCh, c)) + (IF serving = c THEN 1 ELSE 0)
Outstanding == {r \in Clients \X (1 .. MaxKeys) : got[r[1]] < r[2] /\ r[2] <= asked[r[1]]}
Balanced == Cardinality(Outstanding) = Len(stateCh) + (IF serving = Nobody THEN 0 ELSE 1)

ServiceInv == ServiceTyped /\ Phases /\ Locked /\ Counted /\ Balanced
Inv == MempoolTyped /\ ServiceInv

-----------------------------------------------------------------------------
\* A set of numbers up to k that is not empty has a greatest.
LEMMA MaxIsMember ==
  ASSUME NEW k \in Nat, NEW S \in SUBSET (1 .. k), S # {}
  PROVE  Max(S) \in S
<1> DEFINE T == {k - x : x \in S}
           R == OpToRel(<, Nat)
<1>1. IsWellFoundedOn(R, Nat)
  BY NatLessThanWellFounded
<1>2. T \subseteq Nat /\ T # {}
  <2>1. \A x \in S : k - x \in Nat
    OBVIOUS
  <2> QED
    BY <2>1
<1>3. \A a, b \in Nat : <<a, b>> \in R <=> a < b
  BY DEF OpToRel
<1> HIDE DEF T, R
<1>4. PICK d \in T : \A y \in T : ~(<<y, d>> \in R)
  BY <1>1, <1>2, WFMin
<1>5. \A y \in T : ~(y < d)
  BY <1>2, <1>3, <1>4
<1>6. PICK x \in S : d = k - x
  BY <1>4 DEF T
<1>7. \A y \in S : x >= y
  <2> SUFFICES ASSUME NEW y \in S PROVE x >= y
    OBVIOUS
  <2>1. k - y \in T
    BY DEF T
  <2>2. ~(k - y < k - x)
    BY <1>5, <1>6, <2>1
  <2> QED
    BY <2>2
<1> QED
  BY <1>7 DEF Max

\* LastPowerOf2 takes no more than there is.
LEMMA LastPowerOf2Bounded == ASSUME NEW k \in Nat \ {0} PROVE LastPowerOf2(k) \in 1 .. k
<1> DEFINE S == {2 ^ i : i \in 0 .. k} \cap 1 .. k
<1>1. 2 ^ 0 = 1
  OBVIOUS
<1>2. 1 \in {2 ^ i : i \in 0 .. k}
  <2>1. 0 \in 0 .. k
    OBVIOUS
  <2> QED
    BY <1>1, <2>1
<1>3. 1 \in S /\ S \in SUBSET (1 .. k)
  BY <1>1, <1>2
<1>4. LastPowerOf2(k) = Max(S)
  BY DEF LastPowerOf2
<1> HIDE DEF S
<1>5. Max(S) \in S
  BY <1>3, MaxIsMember
<1> QED
  BY <1>3, <1>4, <1>5

\* The steps of the mempool and of the block producer.
MempoolStep ==
  \/ RunTx \/ (\E t \in Txs : AppendTx(t))
  \/ SizeBundle \/ TakeBundle \/ RemoveTxs \/ RejectBlock
\* The mempool and the service have no state in common.
LEMMA MempoolKeepsTypes == ASSUME MempoolTyped, MempoolStep PROVE MempoolTyped' /\ UNCHANGED service
<1>1. Cap \in Nat /\ IsFiniteSet(Txs) /\ Cardinality(Txs) \in Nat
  BY MemoryAssumption, FS_CardinalityType
<1>2. CASE RunTx
  <2>1. txCh \in Seq(TxRequests) /\ txCh # <<>>
    BY <1>2 DEF RunTx, MempoolTyped
  <2>2. Head(txCh) \in TxRequests /\ Tail(txCh) \in Seq(TxRequests) /\ Len(Tail(txCh)) <= Cap
    BY <1>1, <2>1 DEF MempoolTyped
  <2>3. Head(txCh).txs \subseteq Txs
    BY <2>2 DEF TxRequests
  <2> QED
    BY <1>2, <2>2, <2>3 DEF RunTx, MempoolTyped
<1>3. ASSUME NEW q \in TxRequests, Len(txCh) < Cap
      PROVE  Append(txCh, q) \in Seq(TxRequests) /\ Len(Append(txCh, q)) <= Cap
  BY <1>1, <1>3 DEF MempoolTyped
<1>4. ASSUME NEW t \in Txs, AppendTx(t) PROVE MempoolTyped' /\ UNCHANGED service
  <2>1. [kind |-> "append", txs |-> {t}] \in TxRequests
    BY DEF TxRequests
  <2> QED
    BY <1>3, <1>4, <2>1 DEF AppendTx, HasRoom, MempoolTyped
<1>5. CASE SizeBundle
  <2>1. /\ IsFiniteSet(pool) /\ Cardinality(pool) \in Nat \ {0}
        /\ Cardinality(pool) <= Cardinality(Txs)
    BY <1>1, <1>5, FS_Subset, FS_CardinalityType, FS_EmptySet DEF SizeBundle, MempoolTyped
  <2>2. LastPowerOf2(Cardinality(pool)) \in 0 .. Cardinality(Txs)
    BY <1>1, <2>1, LastPowerOf2Bounded
  <2> QED
    BY <1>5, <2>2 DEF SizeBundle, MempoolTyped
<1>6. CASE TakeBundle
  <2>1. bundle' \subseteq pool
    BY <1>6 DEF TakeBundle, Taken
  <2>2. producer' \in {"proposed", "failed"} /\ size' = 0
    BY <1>6 DEF TakeBundle
  <2> QED
    BY <1>1, <1>6, <2>1, <2>2 DEF TakeBundle, MempoolTyped
<1>7. CASE RemoveTxs
  <2>1. [kind |-> "remove", txs |-> bundle] \in TxRequests
    BY DEF TxRequests, MempoolTyped
  <2> QED
    BY <1>3, <1>7, <2>1 DEF RemoveTxs, HasRoom, MempoolTyped
<1>8. CASE RejectBlock
  BY <1>8 DEF RejectBlock, MempoolTyped
<1> QED
  BY <1>2, <1>4, <1>5, <1>6, <1>7, <1>8 DEF MempoolStep

-----------------------------------------------------------------------------
\* Requests of a client in a queue: one more at its end, one less at its head.
LEMMA PositionsFinite ==
  ASSUME NEW q \in Seq(Clients), NEW c
  PROVE  IsFiniteSet(Positions(q, c)) /\ Cardinality(Positions(q, c)) \in Nat
<1>1. IsFiniteSet(1 .. Len(q))
  BY FS_Interval
<1>2. Positions(q, c) \subseteq 1 .. Len(q)
  BY DEF Positions
<1> QED
  BY <1>1, <1>2, FS_Subset, FS_CardinalityType

\* Requests of a client in the channel: one more.
LEMMA PositionsAppend ==
  ASSUME NEW q \in Seq(Clients), NEW d \in Clients, NEW c \in Clients
  PROVE  Cardinality(Positions(Append(q, d), c)) =
           Cardinality(Positions(q, c)) + (IF c = d THEN 1 ELSE 0)
<1> DEFINE r == Append(q, d)
           k == Len(q) + 1
<1>1. /\ Len(q) \in Nat /\ DOMAIN q = 1 .. Len(q) /\ DOMAIN r = 1 .. k /\ r[k] = d
      /\ \A i \in 1 .. Len(q) : r[i] = q[i]
  OBVIOUS
<1> HIDE DEF r
<1>2. CASE c = d
  <2>1. Positions(r, c) = Positions(q, c) \cup {k}
    BY <1>1, <1>2 DEF Positions
  <2>2. k \notin Positions(q, c)
    BY <1>1 DEF Positions
  <2> QED
    BY <1>2, <2>1, <2>2, PositionsFinite, FS_AddElement DEF r
<1>3. CASE c # d
  <2>1. Positions(r, c) = Positions(q, c)
    BY <1>1, <1>3 DEF Positions
  <2> QED
    BY <1>3, <2>1, PositionsFinite DEF r
<1> QED
  BY <1>2, <1>3

\* Requests of a client in the channel: the first is taken.
LEMMA PositionsTail ==
  ASSUME NEW q \in Seq(Clients), q # <<>>, NEW c \in Clients
  PROVE  Cardinality(Positions(q, c)) =
           Cardinality(Positions(Tail(q), c)) + (IF c = Head(q) THEN 1 ELSE 0)
<1> DEFINE r == Tail(q)
           P == Positions(r, c)
           Q == Positions(q, c) \ {1}
           f == [i \in P |-> i + 1]
<1>1. /\ Len(q) \in Nat \ {0} /\ DOMAIN q = 1 .. Len(q) /\ DOMAIN r = 1 .. (Len(q) - 1)
      /\ Head(q) = q[1] /\ \A i \in 1 .. (Len(q) - 1) : r[i] = q[i + 1]
  OBVIOUS
<1>2. r \in Seq(Clients)
  OBVIOUS
<1>3. IsFiniteSet(P) /\ IsFiniteSet(Positions(q, c)) /\ Cardinality(P) \in Nat
  BY <1>2, PositionsFinite
<1> HIDE DEF r
<1>4. P \subseteq 1 .. (Len(q) - 1) /\ Q \subseteq 2 .. Len(q)
  BY <1>1 DEF Positions
<1>5. \A i \in P : i + 1 \in Q
  BY <1>1 DEF Positions
<1>6. \A j \in Q : j - 1 \in P
  BY <1>1 DEF Positions
<1> HIDE DEF P, Q
<1>7. f \in [P -> Q]
  BY <1>5
<1>8. \A a, b \in P : f[a] = f[b] => a = b
  BY <1>1, <1>4
<1>9. \A j \in Q : \E i \in P : f[i] = j
  <2> SUFFICES ASSUME NEW j \in Q PROVE \E i \in P : f[i] = j
    OBVIOUS
  <2>1. j - 1 \in P /\ (j - 1) + 1 = j
    BY <1>1, <1>4, <1>6
  <2> QED
    BY <2>1
<1>10. f \in Bijection(P, Q)
  BY <1>7, <1>8, <1>9 DEF Bijection, Injection, IsInjective, Surjection
<1>11. Cardinality(Q) = Cardinality(P)
  BY <1>3, <1>10, FS_Bijection DEF ExistsBijection
<1>12. CASE c = Head(q)
  <2>1. 1 \in Positions(q, c)
    BY <1>1, <1>12 DEF Positions
  <2>2. Cardinality(Q) = Cardinality(Positions(q, c)) - 1
    BY <1>3, <2>1, FS_RemoveElement DEF Q
  <2>3. Cardinality(Positions(q, c)) \in Nat
    BY PositionsFinite
  <2> QED
    BY <1>3, <1>11, <1>12, <2>2, <2>3 DEF P, r
<1>13. CASE c # Head(q)
  <2>1. Q = Positions(q, c)
    BY <1>1, <1>13 DEF Positions, Q
  <2> QED
    BY <1>3, <1>11, <1>13, <2>1 DEF P, r
<1> QED
  BY <1>12, <1>13

\* Finitely many requests are outstanding.
LEMMA OutstandingFinite ==
  ServiceTyped => IsFiniteSet(Outstanding) /\ Cardinality(Outstanding) \in Nat
<1>1. MaxKeys \in Nat /\ IsFiniteSet(Clients)
  BY MemoryAssumption
<1>2. IsFiniteSet(1 .. MaxKeys)
  BY <1>1, FS_Interval
<1>3. IsFiniteSet(Clients \X (1 .. MaxKeys))
  BY <1>1, <1>2, FS_Product
<1>4. Outstanding \subseteq Clients \X (1 .. MaxKeys)
  BY DEF Outstanding
<1> QED
  BY <1>3, <1>4, FS_Subset, FS_CardinalityType

-----------------------------------------------------------------------------
\* Every step of a client and of the service keeps the invariant.
LEMMA BeginInv == ASSUME ServiceInv, NEW c \in Clients, Begin(c) PROVE ServiceInv'
<1>1. ServiceTyped'
  BY DEF Begin, Goto, ServiceInv, ServiceTyped
<1>2. Phases'
  BY DEF Begin, Goto, ServiceInv, ServiceTyped, Phases, InPhase
<1>3. Locked'
  BY MemoryAssumption DEF Begin, Goto, ServiceInv, ServiceTyped, Locked
<1>4. Counted' /\ Balanced'
  BY DEF Begin, ServiceInv, Counted, Balanced, Outstanding
<1> QED
  BY <1>1, <1>2, <1>3, <1>4 DEF ServiceInv

\* Sending a request preserves the invariant.
LEMMA AskInv == ASSUME ServiceInv, NEW c \in Clients, Ask(c) PROVE ServiceInv'
<1>1. Len(stateCh) \in Nat /\ Cap \in Nat /\ stateCh \in Seq(Clients)
  BY MemoryAssumption DEF ServiceInv, ServiceTyped
<1>2. ServiceTyped'
  BY <1>1 DEF Ask, HasRoom, ServiceInv, ServiceTyped
<1>3. Phases'
  BY DEF Ask, ServiceInv, ServiceTyped, Phases, InPhase
<1>4. Locked'
  BY DEF Ask, ServiceInv, Locked
<1>5. Counted'
  <2> SUFFICES ASSUME NEW d \in Clients
               PROVE  asked'[d] - got'[d] =
                        Cardinality(Positions(stateCh', d)) + (IF serving' = d THEN 1 ELSE 0)
    BY DEF Counted
  <2>1. stateCh' = Append(stateCh, c) /\ UNCHANGED <<serving, got>>
    BY DEF Ask
  <2>2. asked'[d] = asked[d] + (IF d = c THEN 1 ELSE 0)
    BY DEF Ask, ServiceInv, ServiceTyped
  <2>3. Cardinality(Positions(stateCh', d)) = Cardinality(Positions(stateCh, d)) + (IF d = c THEN 1 ELSE 0)
    BY <1>1, <2>1, PositionsAppend
  <2>4. asked[d] - got[d] = Cardinality(Positions(stateCh, d)) + (IF serving = d THEN 1 ELSE 0)
    BY DEF ServiceInv, Counted
  <2>5. asked[d] \in Nat /\ got[d] \in Nat /\ Cardinality(Positions(stateCh, d)) \in Nat
    BY <1>1, PositionsFinite DEF ServiceInv, ServiceTyped
  <2> QED
    BY <2>1, <2>2, <2>3, <2>4, <2>5
<1>6. Balanced'
  <2> DEFINE r == <<c, asked[c] + 1>>
  <2>1. asked[c] < keys[c] /\ asked[c] \in Nat /\ keys[c] \in 1 .. MaxKeys /\ got[c] \in Nat
        /\ got[c] <= asked[c] /\ MaxKeys \in Nat
    BY MemoryAssumption DEF Ask, ServiceInv, ServiceTyped, Phases, InPhase
  <2>2. Outstanding' = Outstanding \cup {r}
    <3>1. r \in Clients \X (1 .. MaxKeys)
      BY <2>1
    <3>2. \A x \in Clients \X (1 .. MaxKeys) :
            (got'[x[1]] < x[2] /\ x[2] <= asked'[x[1]]) <=>
              ((got[x[1]] < x[2] /\ x[2] <= asked[x[1]]) \/ x = r)
      <4> SUFFICES ASSUME NEW a \in Clients, NEW j \in 1 .. MaxKeys
                   PROVE  (got'[a] < j /\ j <= asked'[a]) <=>
                            ((got[a] < j /\ j <= asked[a]) \/ <<a, j>> = r)
        OBVIOUS
      <4>1. got' = got /\ asked'[a] = (IF a = c THEN asked[c] + 1 ELSE asked[a])
        BY DEF Ask, ServiceInv, ServiceTyped
      <4>2. CASE a = c
        BY <2>1, <4>1, <4>2
      <4>3. CASE a # c
        BY <4>1, <4>3
      <4> QED
        BY <4>2, <4>3
    <3> QED
      BY <3>1, <3>2 DEF Outstanding
  <2>3. r \notin Outstanding
    BY <2>1 DEF Outstanding
  <2>4. IsFiniteSet(Outstanding) /\ Cardinality(Outstanding) \in Nat
    BY OutstandingFinite DEF ServiceInv
  <2> HIDE DEF r
  <2>5. Cardinality(Outstanding') = Cardinality(Outstanding) + 1
    BY <2>2, <2>3, <2>4, FS_AddElement
  <2>6. Len(stateCh') = Len(stateCh) + 1 /\ serving' = serving
    BY <1>1 DEF Ask
  <2> QED
    BY <1>1, <2>4, <2>5, <2>6 DEF ServiceInv, Balanced
<1> QED
  BY <1>2, <1>3, <1>4, <1>5, <1>6 DEF ServiceInv

\* Sending the last request, and leaving or taking the lock, preserves it.
LEMMA AskedInv == ASSUME ServiceInv, NEW c \in Clients, Asked(c) PROVE ServiceInv'
<1>1. ServiceTyped'
  BY DEF Asked, Goto, ServiceInv, ServiceTyped
<1>2. Phases'
  BY DEF Asked, Goto, ServiceInv, ServiceTyped, Phases, InPhase
<1>3. Locked'
  BY MemoryAssumption DEF Asked, Goto, ServiceInv, ServiceTyped, Locked
<1>4. Counted' /\ Balanced'
  BY DEF Asked, ServiceInv, Counted, Balanced, Outstanding
<1> QED
  BY <1>1, <1>2, <1>3, <1>4 DEF ServiceInv

\* The end of an operation preserves it.
LEMMA FinishInv == ASSUME ServiceInv, NEW c \in Clients, Finish(c) PROVE ServiceInv'
<1>1. ServiceTyped'
  BY DEF Finish, Goto, ServiceInv, ServiceTyped
<1>2. Phases'
  BY DEF Finish, Goto, ServiceInv, ServiceTyped, Phases, InPhase
<1>3. Locked'
  BY MemoryAssumption DEF Finish, Goto, ServiceInv, ServiceTyped, Locked
<1>4. Counted' /\ Balanced'
  BY DEF Finish, ServiceInv, Counted, Balanced, Outstanding
<1> QED
  BY <1>1, <1>2, <1>3, <1>4 DEF ServiceInv

\* Reading an answer preserves it.
LEMMA ReadInv == ASSUME ServiceInv, NEW c \in Clients, Read(c) PROVE ServiceInv'
<1>1. Len(stateCh) \in Nat /\ stateCh \in Seq(Clients) /\ serving = c /\ serving' = Nobody /\ c # Nobody
  BY MemoryAssumption DEF Read, ServiceInv, ServiceTyped
<1>2. ServiceTyped'
  BY DEF Read, ServiceInv, ServiceTyped
<1>3. /\ asked[c] \in Nat /\ got[c] \in Nat /\ keys[c] \in 1 .. MaxKeys /\ asked[c] <= keys[c]
      /\ Cardinality(Positions(stateCh, c)) \in Nat /\ MaxKeys \in Nat
  BY <1>1, PositionsFinite, MemoryAssumption DEF ServiceInv, ServiceTyped, Phases, InPhase
<1>4. got[c] < asked[c]
  BY <1>1, <1>3 DEF ServiceInv, Counted
<1>5. Phases'
  BY <1>3, <1>4 DEF Read, ServiceInv, ServiceTyped, Phases, InPhase
<1>6. Locked'
  BY DEF Read, ServiceInv, Locked
<1>7. Counted'
  <2> SUFFICES ASSUME NEW d \in Clients
               PROVE  asked'[d] - got'[d] =
                        Cardinality(Positions(stateCh', d)) + (IF serving' = d THEN 1 ELSE 0)
    BY DEF Counted
  <2>1. got'[d] = got[d] + (IF d = c THEN 1 ELSE 0) /\ UNCHANGED <<asked, stateCh>>
    BY DEF Read, ServiceInv, ServiceTyped
  <2>2. asked[d] - got[d] = Cardinality(Positions(stateCh, d)) + (IF serving = d THEN 1 ELSE 0)
    BY DEF ServiceInv, Counted
  <2>3. asked[d] \in Nat /\ got[d] \in Nat /\ Cardinality(Positions(stateCh, d)) \in Nat
    BY <1>1, PositionsFinite DEF ServiceInv, ServiceTyped
  <2>4. serving' # d
    BY <1>1, MemoryAssumption
  <2> QED
    BY <1>1, <2>1, <2>2, <2>3, <2>4
<1>8. Balanced'
  <2> DEFINE r == <<c, got[c] + 1>>
  <2>1. Outstanding' = Outstanding \ {r}
    <3>1. \A x \in Clients \X (1 .. MaxKeys) :
            (got'[x[1]] < x[2] /\ x[2] <= asked'[x[1]]) <=>
              ((got[x[1]] < x[2] /\ x[2] <= asked[x[1]]) /\ x # r)
      <4> SUFFICES ASSUME NEW a \in Clients, NEW j \in 1 .. MaxKeys
                   PROVE  (got'[a] < j /\ j <= asked'[a]) <=>
                            ((got[a] < j /\ j <= asked[a]) /\ <<a, j>> # r)
        OBVIOUS
      <4>1. asked' = asked /\ got'[a] = (IF a = c THEN got[c] + 1 ELSE got[a])
        BY DEF Read, ServiceInv, ServiceTyped
      <4>2. CASE a = c
        BY <1>3, <4>1, <4>2
      <4>3. CASE a # c
        BY <4>1, <4>3
      <4> QED
        BY <4>2, <4>3
    <3> QED
      BY <3>1 DEF Outstanding
  <2>2. r \in Outstanding
    BY <1>3, <1>4 DEF Outstanding
  <2>3. IsFiniteSet(Outstanding) /\ Cardinality(Outstanding) \in Nat
    BY OutstandingFinite DEF ServiceInv
  <2> HIDE DEF r
  <2>4. Cardinality(Outstanding') = Cardinality(Outstanding) - 1
    BY <2>1, <2>2, <2>3, FS_RemoveElement
  <2>5. stateCh' = stateCh
    BY DEF Read
  <2> QED
    BY <1>1, <2>3, <2>4, <2>5 DEF ServiceInv, Balanced
<1> QED
  BY <1>2, <1>5, <1>6, <1>7, <1>8 DEF ServiceInv

\* Taking a request from the channel preserves it.
LEMMA RunStateInv == ASSUME ServiceInv, RunState PROVE ServiceInv'
<1>1. /\ stateCh \in Seq(Clients) /\ stateCh # <<>> /\ serving = Nobody /\ Len(stateCh) \in Nat
      /\ serving' = Head(stateCh) /\ stateCh' = Tail(stateCh)
  BY DEF RunState, ServiceInv, ServiceTyped
<1>2. /\ Head(stateCh) \in Clients /\ Tail(stateCh) \in Seq(Clients)
      /\ Len(Tail(stateCh)) = Len(stateCh) - 1 /\ Nobody \notin Clients /\ Cap \in Nat
  BY <1>1, MemoryAssumption
<1>3. ServiceTyped'
  BY <1>1, <1>2, SMTT(20) DEF RunState, ServiceInv, ServiceTyped
<1>4. Phases' /\ Locked'
  BY DEF RunState, ServiceInv, Phases, InPhase, Locked
<1>5. Counted'
  <2> SUFFICES ASSUME NEW d \in Clients
               PROVE  asked'[d] - got'[d] =
                        Cardinality(Positions(stateCh', d)) + (IF serving' = d THEN 1 ELSE 0)
    BY DEF Counted
  <2>1. UNCHANGED <<asked, got>>
    BY DEF RunState
  <2>2. asked[d] - got[d] = Cardinality(Positions(stateCh, d))
    <3>1. asked[d] - got[d] = Cardinality(Positions(stateCh, d)) + 0
      BY <1>1, <1>2 DEF ServiceInv, Counted
    <3>2. Cardinality(Positions(stateCh, d)) \in Nat
      BY <1>1, PositionsFinite
    <3> QED
      BY <3>1, <3>2
  <2>3. Cardinality(Positions(stateCh, d)) =
          Cardinality(Positions(stateCh', d)) + (IF d = Head(stateCh) THEN 1 ELSE 0)
    BY <1>1, PositionsTail
  <2> QED
    BY <1>1, <2>1, <2>2, <2>3
<1>6. Balanced'
  <2>1. Outstanding' = Outstanding
    BY DEF RunState, Outstanding
  <2> QED
    BY <1>1, <1>2, <2>1 DEF ServiceInv, Balanced
<1> QED
  BY <1>3, <1>4, <1>5, <1>6 DEF ServiceInv

\* Steps of the mempool preserve it.
LEMMA ServiceUnchanged == ASSUME ServiceInv, UNCHANGED service PROVE ServiceInv'
BY DEF service, ServiceInv, ServiceTyped, Phases, InPhase, Locked, Counted, Balanced, Outstanding

\* An idle service satisfies the invariant.
LEMMA InitInv == Init => Inv
<1> SUFFICES ASSUME Init PROVE Inv
  OBVIOUS
<1>1. Cap \in Nat /\ Cardinality(Txs) \in Nat /\ Nobody \notin Clients
  BY MemoryAssumption, FS_CardinalityType
<1>2. MempoolTyped
  BY <1>1 DEF Init, MempoolTyped
<1>3. ServiceTyped
  BY <1>1 DEF Init, ServiceTyped
<1>4. Phases /\ Locked
  <2>1. \A c \in Clients : keys[c] \in 1 .. MaxKeys
    BY DEF Init
  <2> QED
    BY <1>1, <2>1 DEF Init, Phases, InPhase, Locked
<1>5. Counted
  <2> SUFFICES ASSUME NEW c \in Clients
               PROVE  asked[c] - got[c] =
                        Cardinality(Positions(stateCh, c)) + (IF serving = c THEN 1 ELSE 0)
    BY DEF Counted
  <2>1. asked[c] = 0 /\ got[c] = 0 /\ serving # c
    BY <1>1 DEF Init
  <2>2. Positions(stateCh, c) = {}
    BY DEF Init, Positions
  <2>3. Cardinality(Positions(stateCh, c)) = 0
    BY <2>2, FS_EmptySet
  <2> QED
    BY <2>1, <2>3
<1>6. Balanced
  <2>1. Outstanding = {}
    BY DEF Init, Outstanding
  <2> QED
    BY <2>1, FS_EmptySet DEF Init, Balanced
<1> QED
  BY <1>2, <1>3, <1>4, <1>5, <1>6 DEF Inv, ServiceInv

\* Every step preserves it.
LEMMA NextInv == Inv /\ [Next]_vars => Inv'
<1> SUFFICES ASSUME Inv, [Next]_vars PROVE Inv'
  OBVIOUS
<1>1. CASE MempoolStep
  BY <1>1, MempoolKeepsTypes, ServiceUnchanged DEF Inv
<1>2. CASE UNCHANGED mempool /\ (RunState \/ \E c \in Clients : Client(c))
  <2>1. MempoolTyped'
    BY <1>2 DEF mempool, Inv, MempoolTyped
  <2>2. ServiceInv'
    BY <1>2, BeginInv, AskInv, AskedInv, ReadInv, FinishInv, RunStateInv DEF Client, Inv
  <2> QED
    BY <2>1, <2>2 DEF Inv
<1>3. CASE UNCHANGED vars
  <2>1. MempoolTyped'
    BY <1>3 DEF vars, mempool, Inv, MempoolTyped
  <2>2. ServiceInv'
    BY <1>3, ServiceUnchanged DEF vars, Inv
  <2> QED
    BY <2>1, <2>2 DEF Inv
<1>4. RunState => UNCHANGED mempool
  BY DEF RunState
<1>5. ASSUME NEW c \in Clients, Client(c) PROVE UNCHANGED mempool
  BY <1>5 DEF Client, Begin, Ask, Asked, Read, Finish
<1> QED
  BY <1>1, <1>2, <1>3, <1>4, <1>5 DEF Next, MempoolStep

\* The invariant holds in every reachable state.
LEMMA Invariance == Spec => []Inv
BY InitInv, NextInv, PTL DEF Spec

\* No channel exceeds its capacity, no answer is read that was not asked for,
\* the bundle's size never exceeds what can be in the mempool, and bolt's
\* write lock is held exactly by the operation that is inside db.Update.
THEOREM TypeCorrect == Spec => []TypeOK
<1>1. Inv => TypeOK
  BY DEF Inv, MempoolTyped, ServiceInv, ServiceTyped, Phases, InPhase, Locked, TypeOK
<1> QED
  BY <1>1, Invariance, PTL

-----------------------------------------------------------------------------
\* Who cannot move is either short of room in the channel or waits for the
\* lock or an answer. With a single push the lock's holder is a fetch that
\* still asks, and the answer in hand belongs to a client that still asks: so
\* the channel is full, and its requests and the one in hand do not even
\* include the one that does not fit.
LEMMA StuckIsFull ==
  ASSUME \A c, d \in Clients \ Fetching : c = d, ServiceInv
  PROVE  StuckOnlyWhenFull
<1> SUFFICES ASSUME Begun # {}, \A c \in Begun : ~Moves(c), serving # Nobody \/ stateCh = <<>>
             PROVE  Requests(Begun) > Cap + 1
  BY DEF StuckOnlyWhenFull
<1> DEFINE Short(c) == c \in Clients /\ phase[c] = "ask" /\ asked[c] < keys[c]
<1>1. /\ Cap \in Nat \ {0} /\ MaxKeys \in Nat /\ Nobody \notin Clients /\ IsFiniteSet(Clients)
      /\ Fetching \subseteq Clients
  BY MemoryAssumption
<1>2. \A c \in Clients : /\ asked[c] \in Nat /\ got[c] \in Nat /\ keys[c] \in 1 .. MaxKeys
                         /\ got[c] <= asked[c] /\ asked[c] <= keys[c]
  BY DEF ServiceInv, ServiceTyped, Phases, InPhase
<1>3. \A c \in Clients : Cardinality(Positions(stateCh, c)) \in Nat
  BY PositionsFinite DEF ServiceInv, ServiceTyped
<1>4. ASSUME NEW c \in Clients, got[c] < asked[c] PROVE c \in Begun
  <2>1. InPhase(c) /\ phase[c] \in {"start", "ask", "read", "done"}
    BY DEF ServiceInv, ServiceTyped, Phases
  <2>2. /\ asked[c] \in Nat /\ got[c] \in Nat /\ keys[c] \in Nat
        /\ got[c] <= asked[c] /\ asked[c] <= keys[c]
    BY <1>2
  <2>3. phase[c] # "start" /\ phase[c] # "done"
    BY <1>4, <2>1, <2>2 DEF InPhase
  <2> QED
    BY <2>1, <2>3 DEF Begun
<1>5. \E c : Short(c)
  <2> SUFFICES ASSUME \A c : ~Short(c) PROVE FALSE
    OBVIOUS
  <2>1. ASSUME NEW c \in Begun PROVE phase[c] = "read"
    <3> SUFFICES ASSUME phase[c] # "read" PROVE FALSE
      OBVIOUS
    <3>1. c \in Clients /\ phase[c] = "ask" /\ asked[c] = keys[c]
      BY <1>2 DEF Begun
    <3>2. c \notin Fetching /\ lock # Nobody
      BY <3>1, <2>1 DEF Moves
    <3>3. lock \in Clients
      BY <3>2 DEF ServiceInv, ServiceTyped
    <3>4. CASE lock \in Fetching
      <4>1. phase[lock] = "ask" /\ asked[lock] = keys[lock]
        BY <1>2, <3>3, <3>4 DEF ServiceInv, Locked
      <4>2. lock \in Begun /\ Moves(lock)
        BY <3>3, <3>4, <4>1 DEF Begun, Moves
      <4> QED
        BY <4>2
    <3>5. CASE lock \notin Fetching
      <4>1. lock = c
        BY <3>1, <3>2, <3>3, <3>5
      <4>2. phase[c] = "read"
        BY <3>2, <3>3, <4>1 DEF ServiceInv, Locked
      <4> QED
        BY <4>2
    <3> QED
      BY <3>4, <3>5
  <2>2. PICK c \in Begun : TRUE
    OBVIOUS
  <2>3. c \in Clients /\ phase[c] = "read" /\ serving # c /\ got[c] # keys[c]
    BY <2>1 DEF Begun, Moves
  <2>4. got[c] < asked[c]
    BY <1>2, <2>3 DEF ServiceInv, Phases, InPhase
  <2>5. CASE serving = Nobody
    <3>1. stateCh = <<>>
      BY <2>5
    <3>2. Positions(stateCh, c) = {}
      BY <3>1 DEF Positions
    <3>3. Cardinality(Positions(stateCh, c)) = 0
      BY <3>2, FS_EmptySet
    <3>4. asked[c] - got[c] = 0
      BY <2>3, <3>3 DEF ServiceInv, Counted
    <3> QED
      BY <1>2, <2>3, <2>4, <3>4
  <2>6. CASE serving # Nobody
    <3>1. serving \in Clients
      BY <2>6 DEF ServiceInv, ServiceTyped
    <3>2. got[serving] < asked[serving]
      BY <1>2, <1>3, <3>1 DEF ServiceInv, Counted
    <3>3. serving \in Begun
      BY <1>4, <3>1, <3>2
    <3>4. Moves(serving)
      BY <2>1, <3>3 DEF Moves
    <3> QED
      BY <3>3, <3>4
  <2> QED
    BY <2>5, <2>6
<1>6. PICK c : Short(c)
  BY <1>5
<1>7. c \in Begun /\ c \in Clients /\ asked[c] < keys[c]
  BY <1>6 DEF Begun
<1>8. Len(stateCh) = Cap
  BY <1>1, <1>6, <1>7 DEF Moves, HasRoom, ServiceInv, ServiceTyped
<1>9. serving # Nobody
  BY <1>1, <1>8
<1>10. Cardinality(Outstanding) = Cap + 1
  BY <1>8, <1>9 DEF ServiceInv, Balanced
<1> DEFINE All == {r \in Begun \X (1 .. MaxKeys) : r[2] <= keys[r[1]]}
<1>11. Outstanding \subseteq All
  <2> SUFFICES ASSUME NEW a \in Clients, NEW j \in 1 .. MaxKeys, got[a] < j, j <= asked[a]
               PROVE  a \in Begun /\ j <= keys[a]
    BY DEF Outstanding
  <2>1. got[a] < asked[a] /\ j <= keys[a]
    BY <1>2
  <2> QED
    BY <1>4, <2>1
<1>12. <<c, keys[c]>> \in All /\ <<c, keys[c]>> \notin Outstanding
  BY <1>2, <1>7 DEF Outstanding
<1>13. IsFiniteSet(All)
  <2>1. IsFiniteSet(1 .. MaxKeys) /\ IsFiniteSet(Begun)
    BY <1>1, FS_Interval, FS_Subset DEF Begun
  <2>2. IsFiniteSet(Begun \X (1 .. MaxKeys))
    BY <2>1, FS_Product
  <2>3. All \subseteq Begun \X (1 .. MaxKeys)
    OBVIOUS
  <2> QED
    BY <2>2, <2>3, FS_Subset
<1>14. Requests(Begun) = Cardinality(All)
  BY DEF Requests
<1> HIDE DEF All
<1>15. /\ Cardinality(Outstanding) <= Cardinality(All)
       /\ Cardinality(All) = Cardinality(Outstanding) => All = Outstanding
  BY <1>11, <1>13, FS_Subset
<1>16. Cardinality(All) \in Nat
  BY <1>13, FS_CardinalityType
<1> QED
  BY <1>1, <1>10, <1>12, <1>14, <1>15, <1>16

\* Fetches and one push never wait for each other in a circle unless their
\* requests exceed what the request channel and the service can hold, for
\* any number of accounts and any capacity.
THEOREM StuckNeedsFullChannel ==
  ASSUME \A c, d \in Clients \ Fetching : c = d PROVE Spec => []StuckOnlyWhenFull
<1>1. Inv => StuckOnlyWhenFull
  BY StuckIsFull DEF Inv
<1> QED
  BY <1>1, Invariance, PTL
=============================================================================
