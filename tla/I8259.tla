------------------------------- MODULE I8259 -------------------------------
(***************************************************************************)
(* The two cascaded 8259A interrupt controllers and their driver,          *)
(* kernel/i8259.c.  A byte of interrupt lines is the set of the lines      *)
(* whose bit is one.                                                       *)
(*                                                                         *)
(* The driver holds i8259A_lock with interrupts off, so each of its        *)
(* functions is one step; the module defines the steps, the modules that   *)
(* extend it say when they are taken.                                      *)
(***************************************************************************)
EXTENDS Integers

CONSTANT Lines   \* the interrupt lines in use

PIC_CASCADE_IR == 2
NR_IRQS_LEGACY == 16

ASSUME LinesAssumption ==
    Lines \subseteq 0 .. NR_IRQS_LEGACY - 1 /\ PIC_CASCADE_IR \in Lines

VARIABLES
    cached_irq_mask,  \* the driver's copy of the mask registers
    imr,              \* the mask registers
    irr,              \* lines with a latched request
    isr,              \* lines in service
    irq_err_count     \* spurious interrupts seen

picvars == <<cached_irq_mask, imr, irr, isr, irq_err_count>>

Slave == {i \in Lines : i >= 8}
ChipOf(i) == IF i >= 8 THEN Slave ELSE Lines \ Slave

-----------------------------------------------------------------------------
(* The driver. *)

(* outb of the byte of the mask that holds line i. *)
WriteMask(i, mask) == (imr \ ChipOf(i)) \cup (mask \cap ChipOf(i))

mask_8259A_irq(i) ==
    /\ cached_irq_mask' = cached_irq_mask \cup {i}
    /\ imr' = WriteMask(i, cached_irq_mask \cup {i})
    /\ UNCHANGED <<irr, isr, irq_err_count>>

(* Mutant: the byte is always written to the master. *)
unmask_master(i) ==
    /\ cached_irq_mask' = cached_irq_mask \ {i}
    /\ imr' = WriteMask(0, cached_irq_mask \ {i})
    /\ UNCHANGED <<irr, isr, irq_err_count>>

unmask_8259A_irq(i) ==
    /\ cached_irq_mask' = cached_irq_mask \ {i}
    /\ imr' = WriteMask(i, cached_irq_mask \ {i})
    /\ UNCHANGED <<irr, isr, irq_err_count>>

(* Whether the in-service register has the line; for a line of the slave the code *)
(* returns the whole register.                                                    *)
i8259A_irq_real(i) == IF i < 8 THEN i \in isr ELSE isr \cap Slave # {}

(* Mutant: a line of the slave is acknowledged at the slave only. *)
mask_and_ack_slave(i) ==
    /\ cached_irq_mask' = cached_irq_mask \cup {i}
    /\ imr' = WriteMask(i, cached_irq_mask \cup {i})
    /\ isr' = isr \ {i}
    /\ UNCHANGED <<irr, irq_err_count>>

(* Mask the line and send its specific end of interrupt, for a line of the slave  *)
(* that of the cascade too.  A line the mask already had is spurious unless the   *)
(* chip has it in service, and is acknowledged all the same.                      *)
mask_and_ack_8259A(i) ==
    /\ cached_irq_mask' = cached_irq_mask \cup {i}
    /\ imr' = WriteMask(i, cached_irq_mask \cup {i})
    /\ isr' = isr \ (IF i >= 8 THEN {i, PIC_CASCADE_IR} ELSE {i})
    /\ irq_err_count' = IF i \in cached_irq_mask /\ ~i8259A_irq_real(i)
                        THEN irq_err_count + 1 ELSE irq_err_count
    /\ UNCHANGED irr

(* Initialisation resets the chips and then writes the cached mask. *)
init_8259A ==
    /\ imr' = cached_irq_mask
    /\ irr' = {}
    /\ isr' = {}
    /\ UNCHANGED <<cached_irq_mask, irq_err_count>>

-----------------------------------------------------------------------------
(* The chips.  Lines are edge triggered and fully nested: the highest priority    *)
(* goes to line 0, the slave has that of the cascade line.                        *)

Rank(i) == IF i < 2 THEN i ELSE IF i >= 8 THEN i - 6 ELSE 10 + i
RankInService(i) == IF i = PIC_CASCADE_IR THEN 2 ELSE Rank(i)

Requesting(i) ==
    /\ i \in irr \ imr
    /\ i \in Slave => PIC_CASCADE_IR \notin imr
    /\ \A j \in isr : Rank(i) < RankInService(j)
Highest(i) == Requesting(i) /\ \A j \in Lines : Requesting(j) => Rank(i) <= Rank(j)

AssertLine(i) ==
    /\ irr' = irr \cup {i}
    /\ UNCHANGED <<cached_irq_mask, imr, isr, irq_err_count>>

Acknowledge(i) ==
    /\ Highest(i)
    /\ irr' = irr \ {i}
    /\ isr' = isr \cup (IF i \in Slave THEN {i, PIC_CASCADE_IR} ELSE {i})
    /\ UNCHANGED <<cached_irq_mask, imr, irq_err_count>>

(* A request that is gone when the processor acknowledges it reads as line 7 of   *)
(* its chip, which puts nothing in service there.                                 *)
AcknowledgeSpurious(i) ==
    /\ i \in {7, 15} \cap Lines
    /\ i = 15 => /\ PIC_CASCADE_IR \notin imr
                 /\ \A j \in isr : RankInService(PIC_CASCADE_IR) < RankInService(j)
    /\ isr' = isr \cup (IF i = 15 THEN {PIC_CASCADE_IR} ELSE {})
    /\ UNCHANGED <<cached_irq_mask, imr, irr, irq_err_count>>
=============================================================================
