------------------------------ MODULE Metering ------------------------------
(***************************************************************************)
(* The energy meter: src/metering/adapter/hlw8112.c, with the callback of  *)
(* src/app.c that stores the energy.  The chip counts in a register that   *)
(* wraps around; step() adds what has been counted since the last read to  *)
(* a total, which is stored when enough has been added or enough time has  *)
(* passed.  The chip may lose its count, a read, the reset of the chip and *)
(* the store may fail, and the power may fail at any time.                 *)
(*                                                                         *)
(* The register of 24 bits and the threshold of 1 kWh are parameters; an   *)
(* interval since the last save is over or not.                            *)
(***************************************************************************)
EXTENDS Integers

CONSTANTS
    RegisterSize,    \* the register counts modulo this (2^24)
    Threshold,       \* METERING_ENERGY_SAVE_THRESHOLD_WH
    MaxUsed,         \* energy used in a behaviour
    MaxRestarts

ASSUME MeterAssumption ==
    /\ RegisterSize \in Nat \ {0, 1}
    /\ Threshold \in Nat \ {0}
    /\ MaxUsed \in Nat /\ MaxRestarts \in Nat

VARIABLES
    register,    \* of the chip
    energy,      \* the total
    energyBase,  \* what was last read from the register
    saved,       \* param.energy: what has been stored, as far as is known
    nv,          \* what is stored
    overdue,     \* the last save is long ago
    used,        \* the energy that was really used
    lost,        \* of it, what a restart forgot
    marred,      \* the register changed unnoticed: why the total may be wrong
    unsaved,     \* the last save failed
    restarts

meterVars ==
    <<register, energy, energyBase, saved, nv, overdue, used, lost, marred, unsaved, restarts>>

Unread == (register - energyBase) % RegisterSize

\* The vehicle is charged.  Far less than the register holds is used between
\* two reads.
Use ==
    /\ used < MaxUsed
    /\ Unread < RegisterSize - 1
    /\ used' = used + 1
    /\ register' = (register + 1) % RegisterSize
    /\ UNCHANGED <<energy, energyBase, saved, nv, overdue, lost, marred, unsaved, restarts>>

\* The chip loses its supply or is disturbed, and counts from 0 again.
ChipRestarts ==
    /\ register # 0
    /\ register' = 0
    /\ marred' = TRUE
    /\ UNCHANGED <<energy, energyBase, saved, nv, overdue, used, lost, unsaved, restarts>>

IntervalOver ==
    /\ ~overdue
    /\ overdue' = TRUE
    /\ UNCHANGED <<register, energy, energyBase, saved, nv, used, lost, marred, unsaved, restarts>>

\* save_energy() of a total: on_metering_save() stores it, or fails.
Save(total) ==
    IF total = saved
    THEN overdue' = FALSE /\ unsaved' = FALSE /\ UNCHANGED <<saved, nv>>
    ELSE \/ saved' = total /\ nv' = total /\ overdue' = FALSE /\ unsaved' = FALSE
         \/ UNCHANGED <<saved, nv, overdue>> /\ unsaved' = TRUE

save_energy ==
    /\ Save(energy)
    /\ UNCHANGED <<register, energy, energyBase, used, lost, marred, restarts>>

\* Mutant: off by one at the wrap of the register.
Delta_OneLess(wh) ==
    IF wh < energyBase THEN (RegisterSize - 1) - energyBase + wh ELSE wh - energyBase

\* A register below the last value read is taken to have wrapped around.
Delta(wh) ==
    IF wh < energyBase THEN (RegisterSize - 1) - energyBase + 1 + wh ELSE wh - energyBase

Due(total) == total - saved >= Threshold \/ overdue

\* step(): a read that fails changes nothing.  A difference beyond what is
\* plausible is reported and added all the same.
step ==
    /\ energyBase' = register
    /\ energy' = energy + Delta(register)
    /\ IF Due(energy') THEN Save(energy') ELSE UNCHANGED <<saved, nv, overdue, unsaved>>
    /\ UNCHANGED <<register, used, lost, marred, restarts>>

\* metering_create(): the total is what is stored.
metering_create == energy' = nv /\ saved' = nv

\* The power fails and comes back: metering_create(), and enable() resets the
\* chip.  When the reset fails the error is only logged.
Restart ==
    /\ restarts < MaxRestarts
    /\ restarts' = restarts + 1
    /\ metering_create
    /\ energyBase' = 0
    /\ lost' = lost + (energy - nv) + Unread
    /\ \/ register' = 0 /\ UNCHANGED marred
       \/ register' = register /\ marred' = (marred \/ register # 0)
    /\ overdue' = FALSE
    /\ unsaved' = FALSE
    /\ UNCHANGED <<nv, used>>

MeterInit ==
    /\ register = 0
    /\ energy = 0 /\ energyBase = 0
    /\ saved = 0 /\ nv = 0
    /\ overdue = FALSE
    /\ used = 0 /\ lost = 0
    /\ marred = FALSE /\ unsaved = FALSE
    /\ restarts = 0

MeterNext == Use \/ ChipRestarts \/ IntervalOver \/ save_energy \/ step \/ Restart

MeterSpec == MeterInit /\ [][MeterNext]_meterVars

-----------------------------------------------------------------------------
(* Properties *)

\* The variables keep their types.
MeterTypeOK ==
    /\ register \in 0..(RegisterSize - 1) /\ energyBase \in 0..(RegisterSize - 1)
    /\ energy \in Nat /\ saved \in Nat /\ nv \in Nat
    /\ used \in Nat /\ lost \in Int
    /\ overdue \in BOOLEAN /\ marred \in BOOLEAN /\ unsaved \in BOOLEAN
    /\ restarts \in Nat

\* Every watt-hour is counted once: the total, what the chip has counted since
\* the last read and what the restarts forgot make up what was used, across
\* every wrap of the register.  Only a chip that restarted unnoticed, or one
\* that could not be reset at boot, makes it wrong.
EnergyCounted == marred \/ energy + Unread + lost = used

\* A power failure costs less than the threshold, and what the chip has not
\* been asked for: the rest is stored, unless the last store failed.
StoredInTime == unsaved \/ energy - nv < Threshold

\* What is stored never goes back, and the total goes back only to it.
NeverBack == [][nv' >= nv /\ (energy' >= energy \/ energy' = nv)]_meterVars

\* The promise of hlw8112.c: every watt-hour is counted once, a power failure
\* costs less than the threshold, and what is stored never goes back.
EnergyKept == [](MeterTypeOK /\ EnergyCounted /\ StoredInTime) /\ NeverBack
=============================================================================
