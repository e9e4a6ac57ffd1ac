------------------------------- MODULE MCIrq -------------------------------
(* One user line on each chip, the last one of the chip, so that its spurious     *)
(* interrupts share it; and the cascade line.                                     *)
EXTENDS Irq

MCLines == {2, 7, 15}
MCUsers == {7, 15}
MCFlags == {{}, {"SHARED"}, {"SHARED", "ONESHOT"}}
=============================================================================
