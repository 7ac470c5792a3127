--------------------------- MODULE BlockchainProofs ---------------------------
(***************************************************************************)
(* For every number of slots in an epoch, every set of storing goroutines  *)
(* and every bound below the wrap-around: as long as the goroutines that   *)
(* write the counters do not overlap, Increment and Init agree on epoch,   *)
(* slot and previous block, and no gossip names a block that is missing.   *)
(***************************************************************************)
EXTENDS Blockchain, TLAPS

\* h is slot s of epoch e, without the multiplication in sight.
At(h, e, s) == h = e * SlotsInEpoch + s

\* Where the counters are while writer w is inside Increment.
Midway(w) ==
  /\ pc[w] \in {"height", "height++"} =>
       height + 1 = stored /\ blk[w] = height /\ At(height, epoch, slot)
  /\ pc[w] \in {"slot", "slot++"} =>
       height = stored /\ blk[w] + 1 = stored /\ At(blk[w], epoch, slot)
  /\ pc[w] = "slot=0" =>
       height = stored /\ blk[w] + 1 = stored /\ At(height, IF slot = 0 THEN epoch + 1 ELSE epoch, slot)
  /\ pc[w] \in {"epoch", "epoch++"} =>
       height = stored /\ blk[w] + 1 = stored /\ At(height, epoch + 1, slot)
  /\ pc[w] = "prev" =>
       height = stored /\ blk[w] + 1 = stored /\ At(height, epoch, slot)
  /\ pc[w] = "height++" => reg[w] = height
  /\ pc[w] = "slot++" => reg[w] = slot
  /\ pc[w] = "epoch++" => reg[w] = epoch

\* Where they are while Init runs.
Booting ==
  /\ boot = "height" => height = 0
  /\ boot \in {"epoch", "slot", "prev"} => height = stored
  /\ boot \in {"slot", "prev"} => epoch = stored \div SlotsInEpoch
  /\ boot = "prev" => At(stored, epoch, slot)

Exclusive ==
  /\ \A v, w \in Writers : pc[v] # "idle" /\ pc[w] # "idle" => v = w
  /\ boot # "done" => \A w \in Writers : pc[w] = "idle"

Inv ==
  /\ TypeOK
  /\ Exclusive
  /\ Booting
  /\ \A w \in Writers : Midway(w)
  /\ Quiet => At(height, epoch, slot) /\ height = stored /\ prev = stored
  /\ height <= stored /\ gossip.height <= stored

-----------------------------------------------------------------------------
\* Increment's (slot + 1) % SlotsInEpoch wraps exactly at the end of an epoch.
LEMMA SlotStep ==
  ASSUME NEW h \in Nat, NEW e \in Nat, NEW s \in 0 .. SlotsInEpoch - 1, At(h, e, s)
  PROVE  /\ NextSlot(s) \in 0 .. SlotsInEpoch - 1
         /\ NextSlot(s) = 0 => At(h + 1, e + 1, NextSlot(s))
         /\ NextSlot(s) # 0 => At(h + 1, e, NextSlot(s))
<1>1. CASE s + 1 = SlotsInEpoch
  <2>1. NextSlot(s) = 0
    BY <1>1, BlockchainAssumption DEF NextSlot
  <2>2. (e + 1) * SlotsInEpoch = e * SlotsInEpoch + SlotsInEpoch
    BY BlockchainAssumption
  <2> QED
    BY <2>1, <2>2, <1>1, BlockchainAssumption DEF At
<1>2. CASE s + 1 < SlotsInEpoch
  <2>1. NextSlot(s) = s + 1
    BY <1>2, BlockchainAssumption DEF NextSlot
  <2> QED
    BY <2>1, <1>2, BlockchainAssumption DEF At
<1> QED
  BY <1>1, <1>2, BlockchainAssumption

\* Init's division and remainder: the uint32 conversion changes nothing below
\* the wrap-around.
LEMMA InitStep ==
  ASSUME NEW h \in 0 .. MaxHeight
  PROVE  /\ h \div SlotsInEpoch \in Nat
         /\ (h % Wrap) % SlotsInEpoch \in 0 .. SlotsInEpoch - 1
         /\ At(h, h \div SlotsInEpoch, (h % Wrap) % SlotsInEpoch)
<1>1. h % Wrap = h
  BY BlockchainAssumption
<1>2. h = SlotsInEpoch * (h \div SlotsInEpoch) + (h % SlotsInEpoch)
  BY BlockchainAssumption
<1>3. h \div SlotsInEpoch \in Nat /\ h % SlotsInEpoch \in 0 .. SlotsInEpoch - 1
  BY BlockchainAssumption
<1>4. SlotsInEpoch * (h \div SlotsInEpoch) = (h \div SlotsInEpoch) * SlotsInEpoch
  BY <1>3, BlockchainAssumption
<1> QED
  BY <1>1, <1>2, <1>3, <1>4 DEF At

-----------------------------------------------------------------------------
\* The counters of an empty node satisfy the invariant.
LEMMA InitInv == Init => Inv
<1> SUFFICES ASSUME Init PROVE Inv
  OBVIOUS
<1>1. TypeOK
  BY BlockchainAssumption DEF Init, TypeOK, Labels, Message
<1>2. At(height, epoch, slot)
  BY BlockchainAssumption DEF Init, At
<1>3. Exclusive /\ Booting /\ (\A w \in Writers : Midway(w))
  BY DEF Init, Exclusive, Booting, Midway
<1> QED
  BY <1>1, <1>2, <1>3 DEF Init, Inv

\* Only Put is not allowed to overlap; the rest of the proof follows one writer.
LEMMA NextInv ==
  ASSUME Serial, Inv, [Next]_vars
  PROVE  Inv'
<1> USE BlockchainAssumption
<1>1. ASSUME NEW w \in Writers, Put(w)
      PROVE  Inv'
  <2>1. Quiet
    BY <1>1 DEF Put, Quiet
  <2>2. TypeOK'
    BY <1>1, <2>1 DEF Put, Goto, Inv, TypeOK, Labels, counters, reading
  <2>3. Exclusive' /\ Booting' /\ ~Quiet'
    BY <1>1, <2>1 DEF Put, Goto, Inv, TypeOK, Exclusive, Booting, Quiet, counters, reading
  <2>4. \A v \in Writers : Midway(v)'
    BY <1>1, <2>1 DEF Put, Goto, Inv, TypeOK, Midway, Quiet, At, counters, reading
  <2>5. (height <= stored /\ gossip.height <= stored)'
    BY <1>1, <2>1 DEF Put, Inv, TypeOK, Message, counters, reading
  <2> QED
    BY <2>2, <2>3, <2>4, <2>5 DEF Inv
<1>2. ASSUME NEW w \in Writers, Increment(w)
      PROVE  Inv'
  <2>1. pc[w] # "idle" /\ boot = "done" /\ \A v \in Writers : v # w => pc[v] = "idle"
    BY <1>2 DEF Increment, LoadHeight, incrementHeight, LoadSlot, icrementSlot, LastSlot,
       LoadEpoch, incrementEpoch, SetPrevious, Load, Inv, Exclusive
  <2>2. CASE LoadHeight(w) \/ LoadSlot(w) \/ LoadEpoch(w)
    BY <2>1, <2>2 DEF LoadHeight, LoadSlot, LoadEpoch, Load, Goto, Inv, TypeOK, Labels, Exclusive,
       Booting, Midway, Quiet, counters, reading
  <2>3. CASE incrementHeight(w)
    BY <2>1, <2>3 DEF incrementHeight, Goto, Inv, TypeOK, Labels, Message, Exclusive,
       Booting, Midway, Quiet, counters, reading
  <2>4. CASE icrementSlot(w)
    <3>1. At(blk[w], epoch, slot) /\ reg[w] = slot /\ blk[w] \in Nat /\ height = blk[w] + 1
      BY <2>4 DEF icrementSlot, Inv, Midway, TypeOK
    <3>2. /\ NextSlot(slot) \in 0 .. SlotsInEpoch - 1
          /\ NextSlot(slot) = 0 => At(height, epoch + 1, NextSlot(slot))
          /\ NextSlot(slot) # 0 => At(height, epoch, NextSlot(slot))
      BY <3>1, SlotStep DEF Inv, TypeOK
    <3>3. slot' = NextSlot(slot) /\ pc'[w] = "slot=0" /\ UNCHANGED <<height, epoch, stored, blk>>
      BY <2>4, <3>1 DEF icrementSlot, Goto, Inv, TypeOK
    <3>4. At(height, IF slot = 0 THEN epoch + 1 ELSE epoch, slot)'
      BY <3>2, <3>3 DEF At
    <3>5. (\A v \in Writers : Midway(v))'
      BY <2>1, <2>4, <3>1, <3>3, <3>4 DEF icrementSlot, Goto, Inv, TypeOK, Midway
    <3> QED
      BY <2>1, <2>4, <3>2, <3>3, <3>5 DEF icrementSlot, Goto, Inv, TypeOK, Labels, Exclusive,
         Booting, Quiet, counters, reading
  <2>7. CASE LastSlot(w)
    BY <2>1, <2>7 DEF LastSlot, Goto, Inv, TypeOK, Labels, Exclusive, Booting, Midway, Quiet, At,
       counters, reading
  <2>5. CASE incrementEpoch(w)
    <3>1. epoch' = epoch + 1 /\ At(height, epoch + 1, slot) /\ height = stored
      BY <2>5 DEF incrementEpoch, Inv, Midway
    <3>2. At(height, epoch, slot)'
      BY <2>5, <3>1 DEF incrementEpoch, At
    <3>3. (\A v \in Writers : Midway(v))'
      BY <2>1, <2>5, <3>1, <3>2 DEF incrementEpoch, Goto, Inv, TypeOK, Midway
    <3> QED
      BY <2>1, <2>5, <3>1, <3>3 DEF incrementEpoch, Goto, Inv, TypeOK, Labels, Exclusive,
         Booting, Quiet, counters, reading
  <2>6. CASE SetPrevious(w)
    BY <2>1, <2>6 DEF SetPrevious, Goto, Inv, TypeOK, Labels, Exclusive,
       Booting, Midway, Quiet, At, counters, reading
  <2> QED
    BY <1>2, <2>2, <2>3, <2>4, <2>5, <2>6, <2>7 DEF Increment
<1>3. CASE Restart
  <2>1. TypeOK'
    BY <1>3 DEF Restart, Inv, TypeOK, Labels, Message
  <2>2. At(0, 0, 0)
    BY DEF At
  <2>3. (Exclusive /\ Booting /\ \A w \in Writers : Midway(w))'
    BY <1>3 DEF Restart, Exclusive, Booting, Midway
  <2>4. (Quiet => At(height, epoch, slot) /\ height = stored /\ prev = stored)'
    BY <1>3, <2>2 DEF Restart, Quiet, At
  <2> QED
    BY <1>3, <2>1, <2>3, <2>4 DEF Restart, Inv, TypeOK
<1>4. CASE InitHeight \/ InitEpoch \/ InitSlot \/ InitPrevious
  <2>1. /\ stored \div SlotsInEpoch \in Nat
        /\ (stored % Wrap) % SlotsInEpoch \in 0 .. SlotsInEpoch - 1
        /\ At(stored, stored \div SlotsInEpoch, (stored % Wrap) % SlotsInEpoch)
    BY InitStep DEF Inv, TypeOK
  <2> DEFINE e == stored \div SlotsInEpoch
             s == (stored % Wrap) % SlotsInEpoch
  <2>2. e \in Nat /\ s \in 0 .. SlotsInEpoch - 1 /\ At(stored, e, s)
    BY <2>1
  <2>3. CASE InitHeight
    BY <2>3 DEF InitHeight, Inv, TypeOK, Labels, Message, Exclusive, Booting, Midway, Quiet, At,
       counters, writing, reading
  <2>4. CASE InitEpoch
    <3>1. epoch' = e
      BY <2>4 DEF InitEpoch
    <3> QED
      BY <2>4, <2>2, <3>1 DEF InitEpoch, Inv, TypeOK, Labels, Exclusive, Booting, Midway, Quiet,
         counters, writing, reading
  <2>5. CASE InitSlot
    <3>1. slot' = s /\ epoch = e
      BY <2>5 DEF InitSlot, Inv, Booting
    <3> HIDE DEF e, s
    <3>2. (At(stored, epoch, slot))'
      BY <2>5, <2>2, <3>1 DEF InitSlot, At
    <3> QED
      BY <2>5, <2>2, <3>1, <3>2 DEF InitSlot, Inv, TypeOK, Labels, Exclusive, Booting, Midway,
         Quiet, counters, writing, reading
  <2>6. CASE InitPrevious
    BY <2>6 DEF InitPrevious, Inv, TypeOK, Labels, Exclusive, Booting, Midway, Quiet, At,
       counters, writing, reading
  <2> QED
    BY <1>4, <2>3, <2>4, <2>5, <2>6
<1>5. CASE ReadHeight \/ ReadEpoch \/ ReadSlot
  BY <1>5 DEF ReadHeight, ReadEpoch, ReadSlot, Inv, TypeOK, Labels, Message, Exclusive, Booting,
     Midway, Quiet, At, counters, writing
<1>6. CASE UNCHANGED vars
  BY <1>6 DEF Inv, TypeOK, Exclusive, Booting, Midway, Quiet, At, vars, counters, writing, reading
<1> QED
  BY <1>1, <1>2, <1>3, <1>4, <1>5, <1>6 DEF Next

-----------------------------------------------------------------------------
\* The inductive invariant holds of every behaviour in which the goroutines
\* that write the counters take turns.
THEOREM InvHolds ==
  ASSUME Serial
  PROVE  Spec => []Inv
<1>1. Inv /\ [Next]_vars => Inv'
  BY NextInv
<1> QED
  BY InitInv, <1>1, PTL DEF Spec

\* Counters keep their types, and the slot its range, for every SlotsInEpoch.
THEOREM TypeCorrect ==
  ASSUME Serial
  PROVE  Spec => []TypeOK
<1>1. Inv => TypeOK
  BY DEF Inv
<1> QED
  BY InvHolds, <1>1, PTL

\* Increment and Init never disagree: a node that has counted its epochs one by
\* one and a node that has computed them at start-up are in the same epoch and
\* slot whenever they are at the same height.
THEOREM EpochsAgree ==
  ASSUME Serial
  PROVE  Spec => []EpochMatchesHeight
<1>1. Inv => EpochMatchesHeight
  BY DEF Inv, EpochMatchesHeight, At
<1> QED
  BY InvHolds, <1>1, PTL

\* A restart at any point of Increment or Init ends with the counters naming
\* the block after the last stored one.
THEOREM CountersFollowStorage ==
  ASSUME Serial
  PROVE  Spec => []CountersMatchStorage
<1>1. Inv => CountersMatchStorage
  BY DEF Inv, CountersMatchStorage
<1> QED
  BY InvHolds, <1>1, PTL

\* However its reads interleave with the writes, a gossip message asks its
\* receiver to sync to a block that the sender has.
THEOREM GossipNamesStoredBlocks ==
  ASSUME Serial
  PROVE  Spec => []GossipedBlockIsStored
<1>1. Inv => GossipedBlockIsStored
  BY DEF Inv, GossipedBlockIsStored
<1> QED
  BY InvHolds, <1>1, PTL
=============================================================================
