--------------------------- MODULE MeteringProofs ---------------------------
(***************************************************************************)
(* Proofs about Metering: for a register of any size, any threshold and    *)
(* any number of restarts, no energy is counted twice or lost on the way   *)
(* from the chip to the total, and what is stored stays within the         *)
(* threshold of the total.                                                 *)
(***************************************************************************)
EXTENDS Metering, TLAPS

-----------------------------------------------------------------------------
(* Arithmetic of the register *)

\* A difference that is not negative is its own remainder.
LEMMA ModInRange ==
    ASSUME NEW R \in Nat \ {0}, NEW x \in Int, 0 <= x, x < R
    PROVE  x % R = x
BY SMT

\* A negative one wraps around once.
LEMMA ModBelow ==
    ASSUME NEW R \in Nat \ {0}, NEW x \in Int, -R <= x, x < 0
    PROVE  x % R = x + R
BY SMT

\* A threshold that a difference has not reached lies above it.
LEMMA NotReached ==
    ASSUME NEW a \in Int, NEW b \in Int, NEW c \in Int, ~(a - b >= c)
    PROVE  a - b < c
OBVIOUS

Gap(a, b) == IF a < b THEN RegisterSize - b + a ELSE a - b

\* What the chip has counted since the last read, without the modulus.
LEMMA UnreadIsGap ==
    ASSUME NEW a \in 0..(RegisterSize - 1), NEW b \in 0..(RegisterSize - 1)
    PROVE  /\ (a - b) % RegisterSize = Gap(a, b)
           /\ Gap(a, b) \in 0..(RegisterSize - 1)
<1>1. CASE a < b
  <2>1. (a - b) % RegisterSize = (a - b) + RegisterSize
    BY <1>1, ModBelow, MeterAssumption
  <2> QED BY <1>1, <2>1, MeterAssumption DEF Gap
<1>2. CASE a >= b
  <2>1. (a - b) % RegisterSize = a - b
    BY <1>2, ModInRange, MeterAssumption
  <2> QED BY <1>2, <2>1, MeterAssumption DEF Gap
<1> QED BY <1>1, <1>2, MeterAssumption

\* The register counts up by one and wraps around.
LEMMA CountedUp ==
    ASSUME NEW a \in 0..(RegisterSize - 1)
    PROVE  (a + 1) % RegisterSize = IF a = RegisterSize - 1 THEN 0 ELSE a + 1
<1>1. CASE a = RegisterSize - 1
  <2>1. RegisterSize % RegisterSize = 0
    BY MeterAssumption, SMT
  <2> QED BY <1>1, <2>1, MeterAssumption
<1>2. CASE a # RegisterSize - 1
  BY <1>2, ModInRange, MeterAssumption
<1> QED BY <1>1, <1>2

-----------------------------------------------------------------------------
(* The invariants *)

\* What the driver takes to be stored is stored, and never more than the
\* total: with the types, what StoredInTime and NeverBack rest on.
MeterInv ==
    /\ MeterTypeOK
    /\ saved = nv
    /\ nv <= energy

\* The difference the driver takes, with the wrap of the register, is the
\* energy it has not read yet.
LEMMA DeltaIsUnread ==
    ASSUME MeterTypeOK
    PROVE  Delta(register) = Unread /\ Unread \in 0..(RegisterSize - 1)
<1>1. Unread = Gap(register, energyBase) /\ Unread \in 0..(RegisterSize - 1)
  BY UnreadIsGap DEF MeterTypeOK, Unread
<1>2. Delta(register) = Gap(register, energyBase)
  BY MeterAssumption DEF MeterTypeOK, Delta, Gap
<1> QED BY <1>1, <1>2

\* A save leaves what is stored below the total, if it was; it stores the
\* total or says that it did not.
LEMMA SaveStores ==
    ASSUME MeterInv, NEW total \in Nat, energy <= total, Save(total)
    PROVE  /\ saved' = nv' /\ nv <= nv' /\ nv' <= total /\ nv' \in Nat
           /\ overdue' \in BOOLEAN /\ unsaved' \in BOOLEAN
           /\ unsaved' \/ nv' = total
<1>1. saved' = nv' /\ nv <= nv' /\ nv' <= total /\ nv' \in Nat
  BY DEF MeterInv, MeterTypeOK, Save
<1>2. overdue' \in BOOLEAN /\ unsaved' \in BOOLEAN
  BY Zenon DEF MeterInv, MeterTypeOK, Save
<1>3. unsaved' \/ nv' = total
  BY Zenon DEF MeterInv, Save
<1> QED BY <1>1, <1>2, <1>3

\* One reading adds exactly what was not read.
LEMMA StepAdds ==
    ASSUME MeterInv, step
    PROVE  /\ energy' = energy + Unread /\ energy' \in Nat /\ energy <= energy'
           /\ energyBase' = register
<1>1. Delta(register) = Unread /\ Unread \in 0..(RegisterSize - 1)
  BY DeltaIsUnread DEF MeterInv
<1> QED BY <1>1 DEF MeterInv, MeterTypeOK, step

\* The inductive invariant of the meter.
LEMMA MeterInvHolds == MeterSpec => []MeterInv
<1>1. MeterInit => MeterInv
  <2> SUFFICES ASSUME MeterInit PROVE MeterInv
    OBVIOUS
  <2>1. overdue \in BOOLEAN /\ marred \in BOOLEAN /\ unsaved \in BOOLEAN
    BY DEF MeterInit
  <2> QED BY <2>1, MeterAssumption DEF MeterInit, MeterInv, MeterTypeOK
<1>2. MeterInv /\ [MeterNext]_meterVars => MeterInv'
  <2> SUFFICES ASSUME MeterInv, [MeterNext]_meterVars PROVE MeterInv'
    OBVIOUS
  <2>1. CASE Use
    <3>1. register' \in 0..(RegisterSize - 1)
      BY <2>1, CountedUp, MeterAssumption DEF MeterInv, MeterTypeOK, Use
    <3> QED BY <2>1, <3>1 DEF MeterInv, MeterTypeOK, Use
  <2>2. CASE ChipRestarts
    BY <2>2, MeterAssumption DEF MeterInv, MeterTypeOK, ChipRestarts
  <2>3. CASE IntervalOver
    BY <2>3 DEF MeterInv, MeterTypeOK, IntervalOver
  <2>4. CASE save_energy
    <3>1. Save(energy)
      BY <2>4 DEF save_energy
    <3>2. saved' = nv' /\ nv' <= energy /\ nv' \in Nat
          /\ overdue' \in BOOLEAN /\ unsaved' \in BOOLEAN
      BY <3>1, SaveStores DEF MeterInv, MeterTypeOK
    <3> QED BY <2>4, <3>2 DEF MeterInv, MeterTypeOK, save_energy
  <2>5. CASE step
    <3>1. energy' \in Nat /\ energy <= energy' /\ energyBase' = register
      BY <2>5, StepAdds
    <3>2. CASE Due(energy')
      <4>1. Save(energy')
        BY <2>5, <3>2 DEF step
      <4>2. saved' = nv' /\ nv' <= energy' /\ nv' \in Nat
            /\ overdue' \in BOOLEAN /\ unsaved' \in BOOLEAN
        BY <3>1, <4>1, SaveStores
      <4> QED BY <2>5, <3>1, <4>2 DEF MeterInv, MeterTypeOK, step
    <3>3. CASE ~Due(energy')
      <4>1. UNCHANGED <<saved, nv, overdue, unsaved>>
        BY <2>5, <3>3 DEF step
      <4> QED BY <2>5, <3>1, <4>1 DEF MeterInv, MeterTypeOK, step
    <3> QED BY <3>2, <3>3
  <2>6. CASE Restart
    <3>1. Unread \in Int
      BY DeltaIsUnread DEF MeterInv
    <3>2. overdue' \in BOOLEAN /\ marred' \in BOOLEAN /\ unsaved' \in BOOLEAN
      BY <2>6, Zenon DEF Restart, MeterInv, MeterTypeOK
    <3>3. register' \in {0, register}
      BY <2>6, Zenon DEF Restart
    <3>4. /\ energy' = nv /\ saved' = nv /\ nv' = nv /\ used' = used
          /\ energyBase' = 0 /\ lost' = lost + (energy - nv) + Unread
          /\ restarts' = restarts + 1
      BY <2>6, Zenon DEF Restart, metering_create
    <3> QED BY <3>1, <3>2, <3>3, <3>4, MeterAssumption DEF MeterInv, MeterTypeOK
  <2>7. CASE UNCHANGED meterVars
    BY <2>7 DEF MeterInv, MeterTypeOK, meterVars
  <2> QED BY <2>1, <2>2, <2>3, <2>4, <2>5, <2>6, <2>7 DEF MeterNext
<1> QED BY <1>1, <1>2, PTL DEF MeterSpec

\* Every watt-hour that the register counted is in the total once, whatever
\* its size and wherever it wraps: step() of hlw8112.c adds exactly what was
\* counted since the last read.
THEOREM EnergyIsCounted == MeterSpec => []EnergyCounted
<1>1. MeterInit => EnergyCounted
  <2> SUFFICES ASSUME MeterInit PROVE EnergyCounted
    OBVIOUS
  <2>1. Unread = 0
    BY ModInRange, MeterAssumption DEF MeterInit, Unread
  <2> QED BY <2>1 DEF MeterInit, EnergyCounted
<1>2. MeterInv /\ EnergyCounted /\ [MeterNext]_meterVars => EnergyCounted'
  <2> SUFFICES ASSUME MeterInv, EnergyCounted, [MeterNext]_meterVars
               PROVE  EnergyCounted'
    OBVIOUS
  <2>0. Unread \in 0..(RegisterSize - 1)
    BY DeltaIsUnread DEF MeterInv
  <2>a. 0 % RegisterSize = 0
    BY ModInRange, MeterAssumption
  <2>1. CASE Use
    <3>1. Unread' = Unread + 1
      <4>1. /\ register' \in 0..(RegisterSize - 1)
            /\ register' = IF register = RegisterSize - 1 THEN 0 ELSE register + 1
        BY <2>1, CountedUp, MeterAssumption DEF MeterInv, MeterTypeOK, Use
      <4>2. Unread = Gap(register, energyBase)
        BY UnreadIsGap DEF MeterInv, MeterTypeOK, Unread
      <4>3. energyBase' = energyBase /\ Unread < RegisterSize - 1
        BY <2>1 DEF Use
      <4>4. Unread' = Gap(register', energyBase)
        BY <4>1, <4>3, UnreadIsGap DEF MeterInv, MeterTypeOK, Unread
      <4> QED BY <4>1, <4>2, <4>3, <4>4, MeterAssumption
              DEF Gap, MeterInv, MeterTypeOK
    <3> QED BY <2>0, <2>1, <3>1 DEF EnergyCounted, Use, MeterInv, MeterTypeOK
  <2>2. CASE ChipRestarts
    BY <2>2 DEF EnergyCounted, ChipRestarts
  <2>3. CASE IntervalOver
    BY <2>3 DEF EnergyCounted, IntervalOver, Unread
  <2>4. CASE save_energy
    BY <2>4 DEF EnergyCounted, save_energy, Unread
  <2>5. CASE step
    <3>1. energy' = energy + Unread /\ energyBase' = register
      BY <2>5, StepAdds
    <3>2. register' = register /\ used' = used /\ lost' = lost /\ marred' = marred
      BY <2>5 DEF step
    <3>3. Unread' = 0
      BY <2>a, <3>1, <3>2 DEF Unread, MeterInv, MeterTypeOK
    <3> QED BY <2>0, <3>1, <3>2, <3>3 DEF EnergyCounted, MeterInv, MeterTypeOK
  <2>6. CASE Restart
    <3>1. /\ energy' = nv /\ energyBase' = 0 /\ used' = used
          /\ lost' = lost + (energy - nv) + Unread
      BY <2>6 DEF Restart, metering_create
    <3>2. marred' \/ (register' = 0 /\ marred' = marred)
      BY <2>6 DEF Restart, MeterInv, MeterTypeOK
    <3>3. register' = 0 => Unread' = 0
      BY <2>a, <3>1 DEF Unread
    <3> QED BY <2>0, <3>1, <3>2, <3>3 DEF EnergyCounted, MeterInv, MeterTypeOK
  <2>7. CASE UNCHANGED meterVars
    BY <2>7 DEF EnergyCounted, Unread, meterVars
  <2> QED BY <2>1, <2>2, <2>3, <2>4, <2>5, <2>6, <2>7 DEF MeterNext
<1> QED BY <1>1, <1>2, MeterInvHolds, PTL DEF MeterSpec

\* For every threshold: unless the last store failed, less than the threshold
\* waits to be stored, so that a power failure costs no more.
THEOREM StoreIsInTime == MeterSpec => []StoredInTime
<1>1. MeterInit => StoredInTime
  BY MeterAssumption DEF MeterInit, StoredInTime
<1>2. MeterInv /\ StoredInTime /\ [MeterNext]_meterVars => StoredInTime'
  <2> SUFFICES ASSUME MeterInv, StoredInTime, [MeterNext]_meterVars
               PROVE  StoredInTime'
    OBVIOUS
  <2>1. CASE Use \/ ChipRestarts \/ IntervalOver
    BY <2>1 DEF StoredInTime, Use, ChipRestarts, IntervalOver
  <2>2. CASE save_energy
    <3>1. Save(energy) /\ energy' = energy
      BY <2>2 DEF save_energy
    <3>2. unsaved' \/ nv' = energy
      BY <3>1, SaveStores DEF MeterInv, MeterTypeOK
    <3> QED BY <3>1, <3>2, MeterAssumption DEF StoredInTime, MeterInv, MeterTypeOK
  <2>3. CASE step
    <3>1. energy' \in Nat /\ energy <= energy'
      BY <2>3, StepAdds
    <3>2. CASE Due(energy')
      <4>1. Save(energy')
        BY <2>3, <3>2 DEF step
      <4>2. unsaved' \/ nv' = energy'
        BY <3>1, <4>1, SaveStores
      <4> QED BY <3>1, <4>2, MeterAssumption DEF StoredInTime
    <3>3. CASE ~Due(energy')
      <4>1. nv' = nv /\ unsaved' = unsaved
        BY <2>3, <3>3 DEF step
      <4>2. ~(energy' - saved >= Threshold)
        BY <3>3, Zenon DEF Due
      <4>3. nv' = saved /\ saved \in Int /\ energy' \in Int /\ Threshold \in Int
        BY <3>1, <4>1, MeterAssumption DEF MeterInv, MeterTypeOK
      <4>4. energy' - nv' < Threshold
        BY <4>2, <4>3, NotReached, Zenon
      <4> QED BY <4>4 DEF StoredInTime
    <3> QED BY <3>2, <3>3
  <2>4. CASE Restart
    BY <2>4, MeterAssumption
       DEF Restart, metering_create, StoredInTime, MeterInv, MeterTypeOK
  <2>5. CASE UNCHANGED meterVars
    BY <2>5 DEF StoredInTime, meterVars
  <2> QED BY <2>1, <2>2, <2>3, <2>4, <2>5 DEF MeterNext
<1> QED BY <1>1, <1>2, MeterInvHolds, PTL DEF MeterSpec

\* No step, a restart included, takes back what has been stored, and only a
\* restart takes back the total, to what was stored.
THEOREM StoreNeverBack == MeterSpec => NeverBack
<1> DEFINE Kept == nv' >= nv /\ (energy' >= energy \/ energy' = nv)
<1>1. MeterInv /\ [MeterNext]_meterVars => [Kept]_meterVars
  <2> SUFFICES ASSUME MeterInv, MeterNext PROVE Kept
    OBVIOUS
  <2>1. CASE Use \/ ChipRestarts \/ IntervalOver
    BY <2>1 DEF Use, ChipRestarts, IntervalOver, MeterInv, MeterTypeOK
  <2>2. CASE save_energy
    <3>1. Save(energy) /\ energy' = energy
      BY <2>2 DEF save_energy
    <3>2. nv <= nv'
      BY <3>1, SaveStores DEF MeterInv, MeterTypeOK
    <3> QED BY <3>1, <3>2 DEF MeterInv, MeterTypeOK
  <2>3. CASE step
    <3>1. energy' \in Nat /\ energy <= energy'
      BY <2>3, StepAdds
    <3>2. nv <= nv'
      <4>1. CASE Due(energy')
        <5>1. Save(energy')
          BY <2>3, <4>1 DEF step
        <5> QED BY <3>1, <5>1, SaveStores
      <4>2. CASE ~Due(energy')
        BY <2>3, <4>2 DEF step, MeterInv, MeterTypeOK
      <4> QED BY <4>1, <4>2
    <3> QED BY <3>1, <3>2
  <2>4. CASE Restart
    BY <2>4 DEF Restart, metering_create, MeterInv, MeterTypeOK
  <2> QED BY <2>1, <2>2, <2>3, <2>4 DEF MeterNext
<1> QED BY <1>1, MeterInvHolds, PTL DEF MeterSpec, NeverBack

\* Metering keeps its promise: the total is right through every wrap of the
\* register and every restart, the store is in time, and nothing goes back.
THEOREM EnergyIsKept == MeterSpec => EnergyKept
<1>1. MeterInv => MeterTypeOK
  BY DEF MeterInv
<1> QED BY <1>1, MeterInvHolds, EnergyIsCounted, StoreIsInTime, StoreNeverBack, PTL
        DEF EnergyKept
=============================================================================
