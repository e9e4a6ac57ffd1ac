-------------------------------- MODULE Irq --------------------------------
(***************************************************************************)
(* Interrupts: the descriptors of kernel/irq/ (manage.c, chip.c, handle.c, *)
(* irqdesc.c), do_IRQ and the interrupt stack of kernel/irq.c, irq_enter   *)
(* and irq_exit of kernel/softirq.c, over the two 8259A chips of I8259.    *)
(*                                                                         *)
(* There is one processor and one task.  What runs concurrently are the    *)
(* devices, which raise lines at any time, and the handlers, which         *)
(* interrupt the task and, once a handler has enabled interrupts, each     *)
(* other.  A function that runs with interrupts off is one step; do_IRQ is *)
(* cut where another context can see its state.                            *)
(***************************************************************************)
EXTENDS I8259, Sequences, FiniteSets

CONSTANTS
    Users,       \* the lines that drivers request, enable and disable
    MayEnable,   \* the lines whose handlers run with interrupts enabled
    Flags,       \* the flag sets that setup_irq is called with
    MaxDepth,    \* bound on calls of disable_irq not yet undone
    MaxActions,  \* bound on the handlers of a line
    MaxSpurious  \* bound on the spurious interrupts

AllFlags == {"SHARED", "ONESHOT", "PERCPU", "TRIGGER"}

ASSUME IrqAssumption ==
    /\ Users \subseteq Lines \ {PIC_CASCADE_IR}
    /\ MayEnable \subseteq Users
    /\ Flags \subseteq SUBSET AllFlags
    /\ MaxDepth \in Nat \ {0} /\ MaxActions \in Nat \ {0} /\ MaxSpurious \in Nat

VARIABLES
    stage,          \* how far start_kernel has come
    depth,          \* desc->depth
    disabled,       \* lines with IRQD_IRQ_DISABLED
    inprogress,     \* lines with IRQD_IRQ_INPROGRESS
    oneshot,        \* lines with IRQS_ONESHOT
    action,         \* desc->action: the flags of the handlers, in order
    frames,         \* the interrupted contexts, the running one last
    preempt_count,  \* of the task's stack and of the interrupt stack
    spurious,       \* spurious interrupts so far
    reopened        \* history: lines unmasked while their handler was in progress

descvars == <<depth, disabled, inprogress, oneshot, action>>
vars == <<picvars, stage, descvars, frames, preempt_count, spurious, reopened>>

Stages == {"early_irq_init", "init_ISA_irqs", "setup_irq2", "irq_ctx_init",
           "local_irq_enable", "up"}
Stacks == {"task", "irq"}

PREEMPT_ACTIVE == 268435456
INIT_PREEMPT_COUNT == 1 + PREEMPT_ACTIVE
SOFTIRQ_DISABLE_OFFSET == 512
HARDIRQ_OFFSET == 65536
IRQ_EXIT_OFFSET == HARDIRQ_OFFSET - 1
softirq_count(n) == 256 * ((n \div 256) % 256)
hardirq_count(n) == 65536 * ((n \div 65536) % 1024)

(* A context: the task, or an interrupt before its flow handler, in its idx-th    *)
(* handler, or after its flow handler.  "on" is the interrupt flag, "real" tells  *)
(* an interrupt that a line requested from a spurious one.                        *)
Frame == [pc : {"task", "flow", "handler", "exit"}, irq : Lines, idx : Nat,
          on : BOOLEAN, real : BOOLEAN]
TaskFrame == [pc |-> "task", irq |-> PIC_CASCADE_IR, idx |-> 0,
              on |-> FALSE, real |-> FALSE]
IrqFrame(i, r) == [pc |-> "flow", irq |-> i, idx |-> 0, on |-> FALSE, real |-> r]

Top == frames[Len(frames)]
SetTop(f) == frames' = [frames EXCEPT ![Len(frames)] = f]
Pop == frames' = SubSeq(frames, 1, Len(frames) - 1)

(* The stack do_IRQ of the running interrupt was entered on. *)
EntryStack == IF Len(frames) = 2 THEN "task" ELSE "irq"

-----------------------------------------------------------------------------
(* The chips at boot are as the firmware left them. *)
Init ==
    /\ cached_irq_mask = Lines
    /\ imr \in SUBSET Lines /\ irr \in SUBSET Lines /\ isr \in SUBSET Lines
    /\ irq_err_count = 0
    /\ stage = "early_irq_init"
    /\ depth = [i \in Lines |-> 1]
    /\ disabled = {} /\ inprogress = {} /\ oneshot = {}
    /\ action = [i \in Lines |-> <<>>]
    /\ frames = <<TaskFrame>>
    /\ preempt_count = [s \in Stacks |-> IF s = "task" THEN INIT_PREEMPT_COUNT ELSE 0]
    /\ spurious = 0
    /\ reopened = {}

-----------------------------------------------------------------------------
(* Operations on a descriptor. *)

irq_enable(i) == disabled' = disabled \ {i} /\ unmask_8259A_irq(i)
irq_disable(i) == disabled' = disabled \cup {i} /\ mask_8259A_irq(i)

__disable_irq(i) ==
    /\ depth' = [depth EXCEPT ![i] = @ + 1]
    /\ IF depth[i] = 0 THEN irq_disable(i) ELSE UNCHANGED <<disabled, picvars>>
    /\ UNCHANGED <<inprogress, oneshot, action, reopened>>

(* Mutant: an unbalanced call counts. *)
enable_irq_unbalanced(i) ==
    /\ depth' = [depth EXCEPT ![i] = @ - 1]
    /\ IF depth[i] = 1 THEN irq_enable(i) ELSE UNCHANGED <<disabled, picvars>>
    /\ reopened' = IF depth[i] = 1 THEN reopened \cup ({i} \cap inprogress) ELSE reopened
    /\ UNCHANGED <<inprogress, oneshot, action>>

(* Depth 0 is an unbalanced call and ignored, depth 1 enables the line. *)
__enable_irq(i) ==
    /\ depth' = [depth EXCEPT ![i] = IF @ = 0 THEN 0 ELSE @ - 1]
    /\ IF depth[i] = 1 THEN irq_enable(i) ELSE UNCHANGED <<disabled, picvars>>
    /\ reopened' = IF depth[i] = 1 THEN reopened \cup ({i} \cap inprogress) ELSE reopened
    /\ UNCHANGED <<inprogress, oneshot, action>>

(* Two handlers may share a line if both say so and agree on the rest. *)
mismatch(old, new) ==
    \/ "SHARED" \notin old \cap new
    \/ \E f \in {"TRIGGER", "ONESHOT", "PERCPU"} : (f \in old) # (f \in new)

(* Mutant: a further handler of a shared line starts the line again. *)
setup_irq_restart(i, new) ==
    IF action[i] # <<>> /\ mismatch(action[i][1], new)
    THEN UNCHANGED <<descvars, picvars, reopened>>
    ELSE /\ action' = [action EXCEPT ![i] = Append(@, new)]
         /\ inprogress' = inprogress \ {i}
         /\ oneshot' = IF "ONESHOT" \in new THEN oneshot \cup {i} ELSE oneshot \ {i}
         /\ depth' = [depth EXCEPT ![i] = 0]
         /\ irq_enable(i)
         /\ UNCHANGED reopened

(* The first handler of a line starts it, whatever its depth was; a further one   *)
(* is put last in the list, or refused.                                           *)
__setup_irq(i, new) ==
    /\ \/ /\ action[i] # <<>>
          /\ action' = IF mismatch(action[i][1], new) THEN action
                       ELSE [action EXCEPT ![i] = Append(@, new)]
          /\ UNCHANGED <<depth, disabled, inprogress, oneshot, picvars>>
       \/ /\ action[i] = <<>>
          /\ action' = [action EXCEPT ![i] = <<new>>]
          /\ inprogress' = inprogress \ {i}
          /\ oneshot' = IF "ONESHOT" \in new THEN oneshot \cup {i} ELSE oneshot \ {i}
          /\ depth' = [depth EXCEPT ![i] = 0]
          /\ irq_enable(i)
    /\ UNCHANGED reopened

-----------------------------------------------------------------------------
(* start_kernel, with interrupts off. *)

Boot(from, to) == stage = from /\ stage' = to

early_irq_init ==
    /\ Boot("early_irq_init", "init_ISA_irqs")
    /\ disabled' = Lines
    /\ depth' = [i \in Lines |-> 1]
    /\ UNCHANGED <<picvars, inprogress, oneshot, action, frames, preempt_count,
                   spurious, reopened>>

init_ISA_irqs ==
    /\ Boot("init_ISA_irqs", "setup_irq2")
    /\ init_8259A
    /\ UNCHANGED <<descvars, frames, preempt_count, spurious, reopened>>

native_init_IRQ ==
    /\ Boot("setup_irq2", "irq_ctx_init")
    /\ __setup_irq(PIC_CASCADE_IR, {})
    /\ UNCHANGED <<frames, preempt_count, spurious>>

irq_ctx_init ==
    /\ Boot("irq_ctx_init", "local_irq_enable")
    /\ preempt_count' = [preempt_count EXCEPT !["irq"] = HARDIRQ_OFFSET]
    /\ UNCHANGED <<picvars, descvars, frames, spurious, reopened>>

local_irq_enable ==
    /\ Boot("local_irq_enable", "up")
    /\ SetTop([Top EXCEPT !.on = TRUE])
    /\ UNCHANGED <<picvars, descvars, preempt_count, spurious, reopened>>

start_kernel ==
    early_irq_init \/ init_ISA_irqs \/ native_init_IRQ \/ irq_ctx_init \/ local_irq_enable

-----------------------------------------------------------------------------
(* The task, and what a driver calls from the task or from a handler. *)

InTask == stage = "up" /\ Top.pc = "task"
InDriver == stage = "up" /\ Top.pc \in {"task", "handler"}

disable_irq_nosync(i) ==
    /\ InDriver
    /\ depth[i] < MaxDepth
    /\ __disable_irq(i)
    /\ UNCHANGED <<stage, frames, preempt_count, spurious>>

enable_irq(i) ==
    /\ InDriver
    /\ __enable_irq(i)
    /\ UNCHANGED <<stage, frames, preempt_count, spurious>>

setup_irq(i, new) ==
    /\ InTask
    /\ Len(action[i]) < MaxActions
    /\ __setup_irq(i, new)
    /\ UNCHANGED <<stage, frames, preempt_count, spurious>>

TaskIrqOff ==
    /\ InTask /\ Top.on
    /\ SetTop([Top EXCEPT !.on = FALSE])
    /\ UNCHANGED <<picvars, stage, descvars, preempt_count, spurious, reopened>>

TaskIrqOn ==
    /\ InTask /\ ~Top.on
    /\ SetTop([Top EXCEPT !.on = TRUE])
    /\ UNCHANGED <<picvars, stage, descvars, preempt_count, spurious, reopened>>

BhDisabled == softirq_count(preempt_count["task"]) # 0

local_bh_disable ==
    /\ InTask /\ ~BhDisabled
    /\ preempt_count' = [preempt_count EXCEPT !["task"] = @ + SOFTIRQ_DISABLE_OFFSET]
    /\ UNCHANGED <<picvars, stage, descvars, frames, spurious, reopened>>

_local_bh_enable ==
    /\ InTask /\ BhDisabled
    /\ preempt_count' = [preempt_count EXCEPT !["task"] = @ - SOFTIRQ_DISABLE_OFFSET]
    /\ UNCHANGED <<picvars, stage, descvars, frames, spurious, reopened>>

-----------------------------------------------------------------------------
(* do_IRQ. *)

(* Entry, up to the flow handler.  irq_enter also takes and drops the softirq     *)
(* count around tick_check_idle.                                                  *)
irq_enter(i, r) ==
    /\ frames' = Append(frames, IrqFrame(i, r))
    /\ LET s == IF Len(frames) = 1 THEN "task" ELSE "irq"
       IN  preempt_count' = [preempt_count EXCEPT ![s] = @ + HARDIRQ_OFFSET]

do_IRQ(i) ==
    /\ Top.on
    /\ Acknowledge(i)
    /\ irq_enter(i, TRUE)
    /\ UNCHANGED <<stage, descvars, spurious, reopened>>

do_IRQ_spurious(i) ==
    /\ Top.on
    /\ spurious < MaxSpurious
    /\ AcknowledgeSpurious(i)
    /\ irq_enter(i, FALSE)
    /\ spurious' = spurious + 1
    /\ UNCHANGED <<stage, descvars, reopened>>

(* On leaving the task's stack the interrupt stack takes over its softirq count.  *)
execute_on_irq_stack ==
    preempt_count' =
        IF EntryStack = "irq" THEN preempt_count
        ELSE [preempt_count EXCEPT !["irq"] =
                  @ - softirq_count(@) + softirq_count(preempt_count["task"])]

(* Mutant: a line in progress is handled again. *)
handle_level_irq_reenter(i) ==
    /\ mask_and_ack_8259A(i)
    /\ IF action[i] = <<>> \/ i \in disabled
       THEN SetTop([Top EXCEPT !.pc = "exit"]) /\ UNCHANGED inprogress
       ELSE /\ SetTop([Top EXCEPT !.pc = "handler", !.idx = 1])
            /\ inprogress' = inprogress \cup {i}
    /\ UNCHANGED <<depth, disabled, oneshot, action>>

(* handle_level_irq up to the first handler, or to its end when the line is in    *)
(* progress, has no handler or is disabled: it then stays masked.                 *)
handle_level_irq(i) ==
    /\ mask_and_ack_8259A(i)
    /\ IF i \in inprogress \/ action[i] = <<>> \/ i \in disabled
       THEN SetTop([Top EXCEPT !.pc = "exit"]) /\ UNCHANGED inprogress
       ELSE /\ SetTop([Top EXCEPT !.pc = "handler", !.idx = 1])
            /\ inprogress' = inprogress \cup {i}
    /\ UNCHANGED <<depth, disabled, oneshot, action>>

handle_irq ==
    /\ Top.pc = "flow"
    /\ execute_on_irq_stack
    /\ handle_level_irq(Top.irq)
    /\ UNCHANGED <<stage, spurious, reopened>>

(* A handler enables interrupts. *)
HandlerEnable ==
    /\ Top.pc = "handler" /\ Top.irq \in MayEnable /\ ~Top.on
    /\ SetTop([Top EXCEPT !.on = TRUE])
    /\ UNCHANGED <<picvars, stage, descvars, preempt_count, spurious, reopened>>

(* A handler returns and the next of the line is called, with interrupts off: the *)
(* list is read again, so a handler added meanwhile is called too.                *)
handle_irq_event_percpu ==
    /\ Top.pc = "handler" /\ Top.idx < Len(action[Top.irq])
    /\ SetTop([Top EXCEPT !.idx = @ + 1, !.on = FALSE])
    /\ UNCHANGED <<picvars, stage, descvars, preempt_count, spurious, reopened>>

(* Mutant: the line is unmasked even if it was disabled meanwhile. *)
finish_unmask(i) ==
    /\ inprogress' = inprogress \ {i}
    /\ reopened' = reopened \ {i}
    /\ IF i \in oneshot THEN UNCHANGED picvars ELSE unmask_8259A_irq(i)

(* Mutant: the line of a finished handler stays masked. *)
finish_masked(i) ==
    /\ inprogress' = inprogress \ {i}
    /\ reopened' = reopened \ {i}
    /\ UNCHANGED picvars

(* Mutant: the line stays in progress. *)
finish_inprogress(i) ==
    /\ reopened' = reopened \ {i}
    /\ IF i \in disabled \/ i \in oneshot THEN UNCHANGED picvars ELSE unmask_8259A_irq(i)
    /\ UNCHANGED inprogress

(* The end of handle_irq_event and of handle_level_irq. *)
finish_level_irq(i) ==
    /\ inprogress' = inprogress \ {i}
    /\ reopened' = reopened \ {i}
    /\ IF i \in disabled \/ i \in oneshot THEN UNCHANGED picvars ELSE unmask_8259A_irq(i)

handle_irq_event ==
    /\ Top.pc = "handler" /\ Top.idx = Len(action[Top.irq])
    /\ SetTop([Top EXCEPT !.pc = "exit", !.on = FALSE])
    /\ finish_level_irq(Top.irq)
    /\ UNCHANGED <<stage, depth, disabled, oneshot, action, preempt_count, spurious>>

(* Mutant: irq_exit does not undo the decrement of the preemption count. *)
irq_exit_offset ==
    /\ Top.pc = "exit"
    /\ preempt_count' = [preempt_count EXCEPT ![EntryStack] = @ - IRQ_EXIT_OFFSET]
    /\ Pop
    /\ UNCHANGED <<picvars, stage, descvars, spurious, reopened>>

(* irq_exit and the return from the interrupt. *)
irq_exit ==
    /\ Top.pc = "exit"
    /\ preempt_count' = [preempt_count EXCEPT ![EntryStack] = @ - IRQ_EXIT_OFFSET - 1]
    /\ Pop
    /\ UNCHANGED <<picvars, stage, descvars, spurious, reopened>>

-----------------------------------------------------------------------------
(* A device raises its line. *)
Raise(i) ==
    /\ i \notin irr
    /\ AssertLine(i)
    /\ UNCHANGED <<stage, descvars, frames, preempt_count, spurious, reopened>>

Task == TaskIrqOff \/ TaskIrqOn \/ local_bh_disable \/ _local_bh_enable
Driver(i) == disable_irq_nosync(i) \/ enable_irq(i) \/ \E new \in Flags : setup_irq(i, new)
Processor ==
    \/ \E i \in Lines : do_IRQ(i) \/ do_IRQ_spurious(i)
    \/ handle_irq \/ HandlerEnable \/ handle_irq_event_percpu \/ handle_irq_event \/ irq_exit

Next ==
    \/ start_kernel
    \/ Task
    \/ \E i \in Users : Driver(i) \/ Raise(i)
    \/ Processor

Spec == Init /\ [][Next]_vars

(* A pending interrupt is taken at the first instruction that runs with the line  *)
(* open and interrupts on; handlers return and the task's sections with           *)
(* interrupts off end.  Nothing is assumed of code that can be interrupted.       *)
Fairness ==
    /\ WF_vars(start_kernel) /\ WF_vars(TaskIrqOn)
    /\ WF_vars(handle_irq) /\ WF_vars(irq_exit)
    /\ WF_vars(handle_irq_event_percpu) /\ WF_vars(handle_irq_event)
    /\ \A i \in Users : SF_vars(do_IRQ(i))

FairSpec == Spec /\ Fairness

-----------------------------------------------------------------------------
(* Properties. *)

Initialised == stage \notin {"early_irq_init", "init_ISA_irqs"}

TypeOK ==
    /\ cached_irq_mask \subseteq Lines /\ imr \subseteq Lines
    /\ irr \subseteq Lines /\ isr \subseteq Lines
    /\ irq_err_count \in Nat /\ spurious \in Nat
    /\ stage \in Stages
    /\ depth \in [Lines -> Nat]
    /\ disabled \subseteq Lines /\ inprogress \subseteq Lines
    /\ oneshot \subseteq Lines /\ reopened \subseteq Lines
    /\ action \in [Lines -> Seq(SUBSET AllFlags)]
    /\ frames \in Seq(Frame) /\ frames # <<>>
    /\ preempt_count \in [Stacks -> Int]

(* The mask registers hold what the driver believes they hold: each function      *)
(* writes one chip from the copy of both (mask_8259A_irq, unmask_8259A_irq,       *)
(* mask_and_ack_8259A).                                                           *)
MaskCoherent == Initialised => imr = cached_irq_mask

(* A line is disabled exactly while disable_irq calls on it are outstanding, and  *)
(* is then masked at the chip, whatever handler was in progress meanwhile.        *)
DisabledIsMasked ==
    Initialised => \A i \in Lines : /\ depth[i] > 0 <=> i \in disabled
                                    /\ i \in disabled => i \in imr

(* A line with a handler that nobody disabled is open whenever no interrupt of it *)
(* is being handled: no order of spurious interrupts, nested handlers and driver  *)
(* calls leaves it masked for good (lines kept masked by IRQF_ONESHOT aside).     *)
Idle(i) == \A k \in 1 .. Len(frames) : frames[k].pc \in {"flow", "handler"} => frames[k].irq # i
EnabledIsOpen ==
    \A i \in Lines : action[i] # <<>> /\ depth[i] = 0 /\ i \notin oneshot /\ Idle(i)
                         => i \notin imr

(* A controller has a line in service only before the flow handler acknowledged   *)
(* it, so a handler that runs with interrupts on is never shielded by the         *)
(* priorities of the chips (mask_and_ack_8259A: both chips for a slave line).     *)
AckBeforeHandlers == Initialised /\ Top.pc # "flow" => isr = {}

(* The handlers of a line are never entered twice, and IRQD_IRQ_INPROGRESS is set *)
(* exactly while they run.                                                        *)
HandlerFrames(i) == {k \in 1 .. Len(frames) : frames[k].pc = "handler" /\ frames[k].irq = i}
NoReentry ==
    \A i \in Lines : /\ \A k, l \in HandlerFrames(i) : k = l
                     /\ i \in inprogress <=> HandlerFrames(i) # {}

(* Hence interrupts nest at most once per line a driver uses, plus one that is    *)
(* about to be refused: the interrupt stack, which nested interrupts stay on, and *)
(* HARDIRQ_BITS do not depend on how often devices interrupt.                     *)
NestingBounded == Len(frames) <= Cardinality(Users) + 2

(* The hard interrupt count of the stack in use is zero in the task and non-zero  *)
(* in an interrupt, nested ones included; handlers see the task's softirq count;  *)
(* and the task gets back the preemption count it was interrupted with.           *)
PreemptCounts ==
    LET hard(s) == hardirq_count(preempt_count[s]) \div HARDIRQ_OFFSET
    IN  /\ hard("task") = IF Len(frames) > 1 THEN 1 ELSE 0
        /\ preempt_count["task"] % 256 = 1
        /\ stage = "up" => hard("irq") = IF Len(frames) > 2 THEN Len(frames) - 1 ELSE 1
        /\ Top.pc = "handler" =>
               softirq_count(preempt_count["irq"]) = softirq_count(preempt_count["task"])

(* Once a line has a handler, a disable is undone only by an enable: the request  *)
(* of a second driver for a shared line does not enable it under the first        *)
(* (__setup_irq starts the line for its first handler only).                      *)
DepthKept(i) ==
    /\ depth'[i] - depth[i] \in {-1, 0, 1}
    /\ action'[i] # action[i] => depth'[i] = depth[i]
DisableHeld == [][\A i \in Lines : action[i] # <<>> => DepthKept(i)]_vars

(* A request that a device made is refused, and thereby lost, only if the line is *)
(* without a handler or was enabled by a handler while its own was in progress:   *)
(* handle_level_irq does not remember a refused interrupt (IRQS_PENDING is never  *)
(* set).                                                                          *)
RequestsReachHandlers ==
    Top.pc = "flow" /\ Top.real =>
        \/ action[Top.irq] = <<>>
        \/ Top.irq \in inprogress \cap reopened
        \/ Top.irq \notin inprogress \cup disabled

-----------------------------------------------------------------------------
(* The inductive invariant of IrqProofs. *)

(* Before the chips are initialised nothing is requested and all is masked in the *)
(* driver's copy.                                                                 *)
EarlyBoot ==
    ~Initialised => /\ cached_irq_mask = Lines
                    /\ \A i \in Lines : depth[i] = 1 /\ action[i] = <<>>
                    /\ stage = "init_ISA_irqs" => disabled = Lines

(* The task is at the bottom; whatever was interrupted had interrupts on, which   *)
(* an interrupt has only while it runs a handler.                                 *)
FrameOrder ==
    /\ \A k \in 1 .. Len(frames) : frames[k].pc = "task" <=> k = 1
    /\ \A k \in 1 .. Len(frames) - 1 : frames[k].on
    /\ \A k \in 1 .. Len(frames) : frames[k].on => frames[k].pc \in {"task", "handler"}
    /\ stage # "up" => Len(frames) = 1 /\ ~Top.on

HandlerOnce ==
    /\ \A k, l \in 1 .. Len(frames) :
           frames[k].pc = "handler" /\ frames[l].pc = "handler" /\ frames[k].irq = frames[l].irq
               => k = l
    /\ \A k \in 1 .. Len(frames) : frames[k].pc = "handler" => frames[k].irq \in inprogress
    /\ \A i \in inprogress : \E k \in 1 .. Len(frames) :
           frames[k].pc = "handler" /\ frames[k].irq = i

InService ==
    Initialised => isr \subseteq (IF Top.pc = "flow" THEN {Top.irq, PIC_CASCADE_IR} ELSE {})
InServiceMaster ==
    Top.pc = "flow" /\ Top.irq < 8 => isr \subseteq {Top.irq}

(* Which lines are open, and which are masked, in terms of the descriptors. *)
OpenLines ==
    \A i \in Lines \ (oneshot \cup inprogress) :
        action[i] # <<>> /\ depth[i] = 0 /\ ~(Top.pc = "flow" /\ Top.irq = i) => i \notin imr
MaskedLines == \A i \in inprogress \ reopened : i \in imr

IInv ==
    /\ TypeOK /\ EarlyBoot /\ MaskCoherent /\ DisabledIsMasked
    /\ FrameOrder /\ HandlerOnce /\ InService /\ InServiceMaster
    /\ OpenLines /\ MaskedLines /\ RequestsReachHandlers

-----------------------------------------------------------------------------
(* A request of a line that stays enabled is eventually delivered, unless lines   *)
(* of higher priority keep requesting.                                            *)
Wanted(i) == action[i] # <<>> /\ depth[i] = 0 /\ i \notin oneshot
RequestsServed ==
    \A i \in Users :
        (i \in irr /\ Wanted(i)) ~>
            (i \notin irr \/ ~Wanted(i) \/ \E j \in irr : Rank(j) < Rank(i))
=============================================================================
