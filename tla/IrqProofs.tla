----------------------------- MODULE IrqProofs -----------------------------
(***************************************************************************)
(* Proofs about Irq for any set of lines, any handlers and any bounds.     *)
(* IInv is inductive; the safety properties of the masks, the handlers and *)
(* the chips follow from it.                                               *)
(***************************************************************************)
EXTENDS Irq, TLAPS

-----------------------------------------------------------------------------
(* The operations of the 8259A driver, when the copy of the mask is right. *)

(* unmask_8259A_irq opens its line and no other. *)
LEMMA UnmaskOpens ==
    ASSUME TypeOK, imr = cached_irq_mask, NEW i \in Lines, unmask_8259A_irq(i)
    PROVE  /\ imr' = imr \ {i} /\ cached_irq_mask' = imr'
           /\ irr' = irr /\ isr' = isr /\ irq_err_count' = irq_err_count
<1>1. imr' = imr \ {i}
  BY LinesAssumption DEF TypeOK, unmask_8259A_irq, WriteMask, ChipOf, Slave
<1> QED
  BY <1>1 DEF unmask_8259A_irq

(* mask_8259A_irq closes its line and no other. *)
LEMMA MaskCloses ==
    ASSUME TypeOK, imr = cached_irq_mask, NEW i \in Lines, mask_8259A_irq(i)
    PROVE  /\ imr' = imr \cup {i} /\ cached_irq_mask' = imr'
           /\ irr' = irr /\ isr' = isr /\ irq_err_count' = irq_err_count
<1>1. imr' = imr \cup {i}
  BY LinesAssumption DEF TypeOK, mask_8259A_irq, WriteMask, ChipOf, Slave
<1> QED
  BY <1>1 DEF mask_8259A_irq

(* mask_and_ack_8259A closes its line and ends its service on every chip that has *)
(* it in service.                                                                 *)
LEMMA MaskAndAckCloses ==
    ASSUME TypeOK, imr = cached_irq_mask, NEW i \in Lines, mask_and_ack_8259A(i),
           isr \subseteq {i, PIC_CASCADE_IR}, i < 8 => isr \subseteq {i}
    PROVE  /\ imr' = imr \cup {i} /\ cached_irq_mask' = imr'
           /\ irr' = irr /\ isr' = {} /\ irq_err_count' \in Nat
<1>1. imr' = imr \cup {i}
  BY LinesAssumption DEF TypeOK, mask_and_ack_8259A, WriteMask, ChipOf, Slave
<1>2. isr' = {}
  BY LinesAssumption DEF mask_and_ack_8259A
<1>3. irq_err_count' \in Nat
  BY DEF TypeOK, mask_and_ack_8259A
<1> QED
  BY Zenon, <1>1, <1>2, <1>3 DEF mask_and_ack_8259A

-----------------------------------------------------------------------------
(* The stack of contexts. *)

(* The running context is one of the contexts. *)
LEMMA TopIsFrame ==
    ASSUME TypeOK
    PROVE  /\ Len(frames) \in Nat \ {0} /\ Len(frames) \in 1 .. Len(frames)
           /\ Top \in Frame /\ Top = frames[Len(frames)]
           /\ \A k \in 1 .. Len(frames) : frames[k] \in Frame
BY DEF TypeOK, Top

(* What changing the running context, entering and leaving an interrupt do to the *)
(* contexts.                                                                      *)
LEMMA SetTopFrames ==
    ASSUME TypeOK, NEW f \in Frame, SetTop(f)
    PROVE  /\ frames' \in Seq(Frame) /\ frames' # <<>> /\ Len(frames') = Len(frames)
           /\ Top' = f /\ frames'[Len(frames)] = f
           /\ \A k \in 1 .. Len(frames) - 1 : frames'[k] = frames[k]
<1>1. Len(frames) \in Nat \ {0} /\ frames \in Seq(Frame)
  BY DEF TypeOK
<1>2. /\ frames' \in Seq(Frame) /\ Len(frames') = Len(frames)
      /\ frames'[Len(frames)] = f
      /\ \A k \in 1 .. Len(frames) - 1 : frames'[k] = frames[k]
  BY <1>1 DEF SetTop
<1>3. frames' # <<>>
  BY <1>1, <1>2
<1> QED
  BY <1>1, <1>2, <1>3 DEF Top

LEMMA PushFrames ==
    ASSUME TypeOK, NEW f \in Frame, frames' = Append(frames, f)
    PROVE  /\ frames' \in Seq(Frame) /\ frames' # <<>> /\ Len(frames') = Len(frames) + 1
           /\ Top' = f /\ frames'[Len(frames) + 1] = f
           /\ \A k \in 1 .. Len(frames) : frames'[k] = frames[k]
<1>1. Len(frames) \in Nat \ {0} /\ frames \in Seq(Frame)
  BY DEF TypeOK
<1>2. /\ frames' \in Seq(Frame) /\ Len(frames') = Len(frames) + 1
      /\ frames'[Len(frames) + 1] = f
      /\ \A k \in 1 .. Len(frames) : frames'[k] = frames[k]
  BY <1>1
<1>3. frames' # <<>>
  BY <1>1, <1>2
<1> QED
  BY <1>1, <1>2, <1>3 DEF Top

LEMMA PopFrames ==
    ASSUME TypeOK, Len(frames) > 1, Pop
    PROVE  /\ frames' \in Seq(Frame) /\ frames' # <<>> /\ Len(frames') = Len(frames) - 1
           /\ Top' = frames[Len(frames) - 1]
           /\ \A k \in 1 .. Len(frames) - 1 : frames'[k] = frames[k]
<1>1. Len(frames) \in Nat \ {0} /\ frames \in Seq(Frame)
  BY DEF TypeOK
<1>2. /\ frames' \in Seq(Frame) /\ Len(frames') = Len(frames) - 1
      /\ \A k \in 1 .. Len(frames) - 1 : frames'[k] = frames[k]
  BY <1>1 DEF Pop
<1>3. frames' # <<>>
  BY <1>1, <1>2
<1> QED
  BY <1>1, <1>2, <1>3 DEF Top

(* The offsets of the preemption count are integers. *)
LEMMA OffsetsInt ==
    /\ HARDIRQ_OFFSET \in Int /\ IRQ_EXIT_OFFSET \in Int /\ SOFTIRQ_DISABLE_OFFSET \in Int
    /\ \A n \in Int : softirq_count(n) \in Int
BY SMT DEF HARDIRQ_OFFSET, IRQ_EXIT_OFFSET, SOFTIRQ_DISABLE_OFFSET, softirq_count

-----------------------------------------------------------------------------
(* Initially. *)
LEMMA InitIInv == Init => IInv
<1> SUFFICES ASSUME Init PROVE IInv
  OBVIOUS
<1> USE DEF Init
<1>1. /\ frames = <<TaskFrame>> /\ Len(frames) = 1 /\ Top = TaskFrame /\ frames[1] = TaskFrame
      /\ TaskFrame \in Frame
  BY LinesAssumption DEF Top, TaskFrame, Frame
<1>2. TypeOK
  <2>1. preempt_count \in [Stacks -> Int]
    BY DEF INIT_PREEMPT_COUNT, PREEMPT_ACTIVE
  <2>2. frames \in Seq(Frame) /\ frames # <<>>
    BY <1>1
  <2>3. depth \in [Lines -> Nat] /\ action \in [Lines -> Seq(SUBSET AllFlags)]
    OBVIOUS
  <2> QED
    BY <2>1, <2>2, <2>3 DEF TypeOK, Stages
<1>3. EarlyBoot /\ MaskCoherent /\ DisabledIsMasked
  BY DEF EarlyBoot, MaskCoherent, DisabledIsMasked, Initialised
<1>4. FrameOrder /\ HandlerOnce
  BY <1>1 DEF FrameOrder, HandlerOnce, TaskFrame
<1>5. InService /\ InServiceMaster /\ OpenLines /\ MaskedLines /\ RequestsReachHandlers
  BY <1>1 DEF InService, InServiceMaster, OpenLines, MaskedLines, RequestsReachHandlers,
              TaskFrame, Initialised
<1> QED
  BY <1>2, <1>3, <1>4, <1>5 DEF IInv

(* The contexts keep their order when neither they nor the stage change. *)
LEMMA SameFrames ==
    ASSUME FrameOrder, HandlerOnce, UNCHANGED <<frames, stage, inprogress>>
    PROVE  FrameOrder' /\ HandlerOnce' /\ Top' = Top /\ (Initialised' <=> Initialised)
BY DEF FrameOrder, HandlerOnce, Top, Initialised

(* In the task nothing is in progress. *)
LEMMA TaskAlone ==
    ASSUME TypeOK, FrameOrder, HandlerOnce, Top.pc = "task"
    PROVE  Len(frames) = 1 /\ inprogress = {}
<1>1. Len(frames) = 1
  BY Zenon, TopIsFrame DEF FrameOrder
<1>2. inprogress = {}
  BY <1>1, TopIsFrame DEF HandlerOnce
<1> QED
  BY <1>1, <1>2

-----------------------------------------------------------------------------
(* Drivers. *)

LEMMA DisableStep ==
    ASSUME IInv, NEW i \in Lines, disable_irq_nosync(i)
    PROVE  IInv'
<1>0. /\ TypeOK /\ MaskCoherent /\ DisabledIsMasked /\ FrameOrder /\ HandlerOnce
      /\ InService /\ InServiceMaster /\ OpenLines /\ MaskedLines
  BY DEF IInv
<1>1. /\ UNCHANGED <<frames, stage, preempt_count, spurious, inprogress, oneshot, action, reopened>>
      /\ stage = "up" /\ Top.pc \in {"task", "handler"}
      /\ depth' = [depth EXCEPT ![i] = @ + 1]
  BY DEF disable_irq_nosync, InDriver, __disable_irq
<1>2. Initialised /\ imr = cached_irq_mask
  BY <1>0, <1>1 DEF Initialised, MaskCoherent
<1>3. /\ imr' = imr \cup {i} /\ disabled' = disabled \cup {i} /\ cached_irq_mask' = imr'
      /\ irr' = irr /\ isr' = isr /\ irq_err_count' = irq_err_count
  <2>1. CASE depth[i] = 0
    BY <2>1, <1>0, <1>2, MaskCloses DEF disable_irq_nosync, __disable_irq, irq_disable
  <2>2. CASE depth[i] # 0
    BY <2>2, <1>0, <1>2
      DEF disable_irq_nosync, __disable_irq, DisabledIsMasked, TypeOK, picvars
  <2> QED
    BY <2>1, <2>2
<1>4. TypeOK'
  BY <1>0, <1>1, <1>3 DEF TypeOK
<1>5. FrameOrder' /\ HandlerOnce' /\ Top' = Top /\ Initialised'
  BY <1>0, <1>1, <1>2, SameFrames
<1>6. EarlyBoot' /\ MaskCoherent'
  BY <1>3, <1>5 DEF EarlyBoot, MaskCoherent
<1>7. DisabledIsMasked'
  BY <1>0, <1>1, <1>2, <1>3 DEF DisabledIsMasked, TypeOK
<1>8. InService' /\ InServiceMaster' /\ MaskedLines' /\ RequestsReachHandlers'
  BY <1>0, <1>1, <1>2, <1>3, <1>5
    DEF InService, InServiceMaster, MaskedLines, RequestsReachHandlers
<1>9. OpenLines'
  BY <1>0, <1>1, <1>3, <1>5 DEF OpenLines, TypeOK
<1> QED
  BY <1>4, <1>5, <1>6, <1>7, <1>8, <1>9 DEF IInv

LEMMA EnableStep ==
    ASSUME IInv, NEW i \in Lines, enable_irq(i)
    PROVE  IInv'
<1>0. /\ TypeOK /\ MaskCoherent /\ DisabledIsMasked /\ FrameOrder /\ HandlerOnce
      /\ InService /\ InServiceMaster /\ OpenLines /\ MaskedLines
  BY DEF IInv
<1>1. /\ UNCHANGED <<frames, stage, preempt_count, spurious, inprogress, oneshot, action>>
      /\ stage = "up" /\ Top.pc \in {"task", "handler"}
  BY DEF enable_irq, InDriver, __enable_irq
<1>2. Initialised /\ imr = cached_irq_mask
  BY <1>0, <1>1 DEF Initialised, MaskCoherent
<1>3. FrameOrder' /\ HandlerOnce' /\ Top' = Top /\ Initialised'
  BY <1>0, <1>1, <1>2, SameFrames
<1>4. CASE depth[i] = 1
  <2>1. /\ imr' = imr \ {i} /\ disabled' = disabled \ {i} /\ cached_irq_mask' = imr'
        /\ irr' = irr /\ isr' = isr /\ irq_err_count' = irq_err_count
    BY <1>4, <1>0, <1>2, UnmaskOpens DEF enable_irq, __enable_irq, irq_enable
  <2>2. depth' = [depth EXCEPT ![i] = 0] /\ reopened' = reopened \cup ({i} \cap inprogress)
    BY <1>4, <1>0 DEF enable_irq, __enable_irq, TypeOK
  <2>3. TypeOK'
    BY <1>0, <1>1, <2>1, <2>2 DEF TypeOK
  <2>4. EarlyBoot' /\ MaskCoherent'
    BY <2>1, <1>3 DEF EarlyBoot, MaskCoherent
  <2>5. DisabledIsMasked'
    BY <1>0, <1>1, <1>2, <2>1, <2>2 DEF DisabledIsMasked, TypeOK
  <2>6. InService' /\ InServiceMaster' /\ MaskedLines' /\ RequestsReachHandlers'
    BY <1>0, <1>1, <1>2, <1>3, <2>1, <2>2
      DEF InService, InServiceMaster, MaskedLines, RequestsReachHandlers
  <2>7. OpenLines'
    BY <1>0, <1>1, <1>3, <2>1, <2>2 DEF OpenLines, TypeOK
  <2> QED
    BY <1>3, <2>3, <2>4, <2>5, <2>6, <2>7 DEF IInv
<1>5. CASE depth[i] # 1
  <2>1. UNCHANGED <<picvars, disabled, reopened>>
    BY <1>5 DEF enable_irq, __enable_irq
  <2>2. /\ depth' \in [Lines -> Nat]
        /\ \A j \in Lines : depth'[j] = 0 <=> depth[j] = 0
    BY <1>5, <1>0 DEF enable_irq, __enable_irq, TypeOK
  <2>3. TypeOK'
    BY <1>0, <1>1, <2>1, <2>2 DEF TypeOK, picvars
  <2>4. EarlyBoot' /\ MaskCoherent'
    BY <1>2, <2>1, <1>3 DEF EarlyBoot, MaskCoherent, picvars
  <2>5. DisabledIsMasked'
    BY <1>0, <1>1, <1>2, <2>1, <2>2 DEF DisabledIsMasked, TypeOK, picvars
  <2>6. InService' /\ InServiceMaster' /\ MaskedLines' /\ RequestsReachHandlers'
    BY <1>0, <1>1, <1>2, <1>3, <2>1
      DEF InService, InServiceMaster, MaskedLines, RequestsReachHandlers, picvars
  <2>7. OpenLines'
    BY <1>0, <1>1, <1>3, <2>1, <2>2 DEF OpenLines, picvars
  <2> QED
    BY <1>3, <2>3, <2>4, <2>5, <2>6, <2>7 DEF IInv
<1> QED
  BY <1>4, <1>5
(* A request for a line, at boot or later: nothing is in progress. *)
LEMMA SetupStep ==
    ASSUME IInv, NEW i \in Lines, NEW new \in SUBSET AllFlags, __setup_irq(i, new),
           Initialised, Initialised', Top.pc = "task",
           stage' \in Stages, stage' # "up" => stage # "up",
           UNCHANGED <<frames, preempt_count, spurious>>
    PROVE  IInv'
<1>0. /\ TypeOK /\ MaskCoherent /\ DisabledIsMasked /\ FrameOrder /\ HandlerOnce
      /\ InService /\ InServiceMaster /\ OpenLines /\ MaskedLines
  BY DEF IInv
<1>1. Len(frames) = 1 /\ inprogress = {} /\ Top' = Top
  BY <1>0, TaskAlone DEF Top
<1>2. imr = cached_irq_mask
  BY <1>0 DEF MaskCoherent
<1>3. inprogress' = {} /\ reopened' = reopened
  BY <1>1 DEF __setup_irq
<1>4. FrameOrder' /\ HandlerOnce'
  BY <1>0, <1>1, <1>3 DEF FrameOrder, HandlerOnce, Top
<1>5. EarlyBoot' /\ MaskedLines' /\ RequestsReachHandlers' /\ InServiceMaster'
  BY <1>1, <1>3 DEF EarlyBoot, MaskedLines, RequestsReachHandlers, InServiceMaster
<1>6. CASE action[i] # <<>>
  <2>1. UNCHANGED <<depth, disabled, oneshot, picvars>>
    BY <1>6 DEF __setup_irq
  <2>2. /\ action' \in [Lines -> Seq(SUBSET AllFlags)]
        /\ \A j \in Lines : action'[j] # <<>> => action[j] # <<>>
    <3>1. CASE mismatch(action[i][1], new)
      BY <3>1, <1>6, <1>0 DEF __setup_irq, TypeOK
    <3>2. CASE ~mismatch(action[i][1], new)
      <4>1. action' = [action EXCEPT ![i] = Append(@, new)]
        BY <3>2, <1>6 DEF __setup_irq
      <4>2. Append(action[i], new) \in Seq(SUBSET AllFlags)
        BY <1>0 DEF TypeOK
      <4> QED
        BY <4>1, <4>2, <1>6, <1>0 DEF TypeOK
    <3> QED
      BY <3>1, <3>2
  <2>3. TypeOK'
    BY <1>0, <1>3, <2>1, <2>2 DEF TypeOK, picvars
  <2>4. MaskCoherent' /\ DisabledIsMasked' /\ InService'
    BY <1>0, <1>1, <2>1 DEF MaskCoherent, DisabledIsMasked, InService, picvars
  <2>5. OpenLines'
    BY <1>0, <1>1, <1>3, <2>1, <2>2 DEF OpenLines, picvars
  <2> QED
    BY <1>4, <1>5, <2>3, <2>4, <2>5 DEF IInv
<1>7. CASE action[i] = <<>>
  <2>1. /\ imr' = imr \ {i} /\ disabled' = disabled \ {i} /\ cached_irq_mask' = imr'
        /\ irr' = irr /\ isr' = isr /\ irq_err_count' = irq_err_count
    BY <1>7, <1>0, <1>2, UnmaskOpens DEF __setup_irq, irq_enable
  <2>2. /\ depth' = [depth EXCEPT ![i] = 0]
        /\ action' = [action EXCEPT ![i] = <<new>>]
        /\ oneshot' = IF "ONESHOT" \in new THEN oneshot \cup {i} ELSE oneshot \ {i}
    BY <1>7 DEF __setup_irq
  <2>3. TypeOK'
    <3>1. <<new>> \in Seq(SUBSET AllFlags)
      OBVIOUS
    <3>2. action' \in [Lines -> Seq(SUBSET AllFlags)]
      BY <3>1, <2>2, <1>0 DEF TypeOK
    <3> QED
      BY <1>0, <1>3, <2>1, <2>2, <3>2 DEF TypeOK
  <2>4. MaskCoherent' /\ DisabledIsMasked' /\ InService'
    BY <1>0, <1>1, <2>1, <2>2 DEF MaskCoherent, DisabledIsMasked, InService, TypeOK
  <2>5. OpenLines'
    <3> SUFFICES ASSUME NEW j \in Lines, j \notin oneshot', action'[j] # <<>>, depth'[j] = 0
                 PROVE  j \notin imr'
      BY <1>3 DEF OpenLines
    <3>1. CASE j = i
      BY <3>1, <2>1
    <3>2. CASE j # i
      BY <3>2, <1>0, <1>1, <2>1, <2>2 DEF OpenLines, TypeOK
    <3> QED
      BY <3>1, <3>2
  <2> QED
    BY <1>4, <1>5, <2>3, <2>4, <2>5 DEF IInv
<1> QED
  BY <1>6, <1>7

-----------------------------------------------------------------------------
(* Boot. *)

LEMMA BootStep ==
    ASSUME IInv, start_kernel
    PROVE  IInv'
<1>0. /\ TypeOK /\ EarlyBoot /\ MaskCoherent /\ DisabledIsMasked /\ FrameOrder /\ HandlerOnce
      /\ InService /\ InServiceMaster /\ OpenLines /\ MaskedLines
  BY DEF IInv
<1>1. stage # "up"
  BY DEF start_kernel, early_irq_init, init_ISA_irqs, native_init_IRQ, irq_ctx_init,
         local_irq_enable, Boot
<1>2. Len(frames) = 1 /\ ~Top.on /\ Top.pc = "task" /\ inprogress = {}
  BY Zenon, <1>0, <1>1, TopIsFrame, TaskAlone DEF FrameOrder
<1>3. CASE early_irq_init
  <2> USE <1>3 DEF early_irq_init, Boot
  <2>1. Top' = Top /\ inprogress' = {}
    BY <1>2 DEF Top
  <2>2. TypeOK'
    BY <1>0 DEF TypeOK, picvars, Stages
  <2>3. EarlyBoot' /\ MaskCoherent' /\ DisabledIsMasked' /\ InService'
    BY <1>0 DEF EarlyBoot, MaskCoherent, DisabledIsMasked, InService, Initialised, picvars
  <2>4. FrameOrder' /\ HandlerOnce'
    BY <1>0, <1>2, <2>1 DEF FrameOrder, HandlerOnce
  <2>5. InServiceMaster' /\ OpenLines' /\ MaskedLines' /\ RequestsReachHandlers'
    BY <1>0, <1>2, <2>1
      DEF InServiceMaster, OpenLines, MaskedLines, RequestsReachHandlers
  <2> QED
    BY <2>2, <2>3, <2>4, <2>5 DEF IInv
<1>4. CASE init_ISA_irqs
  <2> USE <1>4 DEF init_ISA_irqs, Boot, init_8259A, descvars
  <2>1. Top' = Top /\ inprogress' = {}
    BY <1>2 DEF Top
  <2>2. TypeOK'
    BY <1>0 DEF TypeOK, Stages
  <2>3. /\ cached_irq_mask = Lines /\ disabled = Lines
        /\ \A i \in Lines : depth[i] = 1 /\ action[i] = <<>>
    BY <1>0 DEF EarlyBoot, Initialised
  <2>4. EarlyBoot' /\ MaskCoherent' /\ DisabledIsMasked' /\ InService'
    BY <2>3 DEF EarlyBoot, MaskCoherent, DisabledIsMasked, InService, Initialised
  <2>5. FrameOrder' /\ HandlerOnce'
    BY <1>0, <1>2, <2>1 DEF FrameOrder, HandlerOnce
  <2>6. InServiceMaster' /\ OpenLines' /\ MaskedLines' /\ RequestsReachHandlers'
    BY <2>3, <1>2, <2>1
      DEF InServiceMaster, OpenLines, MaskedLines, RequestsReachHandlers
  <2> QED
    BY <2>2, <2>4, <2>5, <2>6 DEF IInv
<1>5. CASE native_init_IRQ
  <2>1. /\ Initialised /\ Initialised' /\ stage' \in Stages /\ stage' # "up"
        /\ UNCHANGED <<frames, preempt_count, spurious>>
        /\ __setup_irq(PIC_CASCADE_IR, {})
    BY <1>5 DEF native_init_IRQ, Boot, Initialised, Stages
  <2> QED
    BY <2>1, <1>1, <1>2, SetupStep, LinesAssumption
<1>6. CASE irq_ctx_init
  <2> USE <1>6 DEF irq_ctx_init, Boot, descvars, picvars
  <2>1. Top' = Top /\ inprogress' = {} /\ Initialised /\ Initialised'
    BY <1>2 DEF Top, Initialised
  <2>2. TypeOK'
    BY Zenon, <1>0, OffsetsInt DEF TypeOK, Stages
  <2>3. EarlyBoot' /\ MaskCoherent' /\ DisabledIsMasked' /\ InService'
    BY <1>0, <2>1 DEF EarlyBoot, MaskCoherent, DisabledIsMasked, InService
  <2>4. FrameOrder' /\ HandlerOnce'
    BY <1>0, <1>2, <2>1 DEF FrameOrder, HandlerOnce
  <2>5. InServiceMaster' /\ OpenLines' /\ MaskedLines' /\ RequestsReachHandlers'
    BY <1>0, <1>2, <2>1
      DEF InServiceMaster, OpenLines, MaskedLines, RequestsReachHandlers
  <2> QED
    BY <2>2, <2>3, <2>4, <2>5 DEF IInv
<1>7. CASE local_irq_enable
  <2> USE <1>7 DEF local_irq_enable, Boot, descvars, picvars
  <2> DEFINE f == [Top EXCEPT !.on = TRUE]
  <2>1. f \in Frame /\ f.pc = "task" /\ f.on
    BY Zenon, <1>0, <1>2, TopIsFrame DEF Frame
  <2> HIDE DEF f
  <2>2. /\ frames' \in Seq(Frame) /\ frames' # <<>> /\ Len(frames') = 1
        /\ Top' = f /\ frames'[1] = f
    BY <1>0, <1>2, <2>1, SetTopFrames DEF f
  <2>3. inprogress' = {} /\ Initialised /\ Initialised'
    BY <1>2 DEF Initialised
  <2>4. TypeOK'
    BY <1>0, <2>2 DEF TypeOK, Stages
  <2>5. EarlyBoot' /\ MaskCoherent' /\ DisabledIsMasked'
    BY <1>0, <2>3 DEF EarlyBoot, MaskCoherent, DisabledIsMasked
  <2>6. FrameOrder' /\ HandlerOnce'
    BY <2>1, <2>2, <2>3 DEF FrameOrder, HandlerOnce
  <2>7. InService' /\ InServiceMaster' /\ OpenLines' /\ MaskedLines' /\ RequestsReachHandlers'
    BY <1>0, <1>2, <2>1, <2>2, <2>3
      DEF InService, InServiceMaster, OpenLines, MaskedLines, RequestsReachHandlers
  <2> QED
    BY <2>4, <2>5, <2>6, <2>7 DEF IInv
<1> QED
  BY <1>3, <1>4, <1>5, <1>6, <1>7 DEF start_kernel
-----------------------------------------------------------------------------
(* Steps that change the running context only, and keep where it is. *)
LEMMA TopStep ==
    ASSUME IInv, NEW f \in Frame, SetTop(f), f.pc = Top.pc, f.irq = Top.irq,
           f.real = Top.real, f.on => f.pc \in {"task", "handler"}, stage = "up",
           UNCHANGED <<picvars, stage, descvars, spurious, reopened>>,
           preempt_count' \in [Stacks -> Int]
    PROVE  IInv'
<1>0. /\ TypeOK /\ MaskCoherent /\ DisabledIsMasked /\ FrameOrder /\ HandlerOnce
      /\ InService /\ InServiceMaster /\ OpenLines /\ MaskedLines /\ RequestsReachHandlers
  BY DEF IInv
<1>1. /\ frames' \in Seq(Frame) /\ frames' # <<>> /\ Len(frames') = Len(frames)
      /\ Top' = f /\ frames'[Len(frames)] = f
      /\ \A k \in 1 .. Len(frames) - 1 : frames'[k] = frames[k]
  BY <1>0, SetTopFrames
<1>2. Len(frames) \in Nat \ {0} /\ Top = frames[Len(frames)]
  BY <1>0, TopIsFrame
<1>3. \A k \in 1 .. Len(frames) : /\ frames'[k].pc = frames[k].pc
                                 /\ frames'[k].irq = frames[k].irq
  <2> SUFFICES ASSUME NEW k \in 1 .. Len(frames)
               PROVE  frames'[k].pc = frames[k].pc /\ frames'[k].irq = frames[k].irq
    OBVIOUS
  <2>1. CASE k = Len(frames)
    BY <2>1, <1>1, <1>2
  <2>2. CASE k \in 1 .. Len(frames) - 1
    BY <2>2, <1>1
  <2> QED
    BY <2>1, <2>2, <1>2
<1>4. Initialised /\ Initialised'
  BY DEF Initialised
<1>5. TypeOK'
  BY <1>0, <1>1 DEF TypeOK, picvars, descvars
<1>6. EarlyBoot' /\ MaskCoherent' /\ DisabledIsMasked'
  BY <1>0, <1>4 DEF EarlyBoot, MaskCoherent, DisabledIsMasked, picvars, descvars
<1>7. FrameOrder'
  <2>1. \A k \in 1 .. Len(frames') : frames'[k].pc = "task" <=> k = 1
    BY <1>0, <1>1, <1>3 DEF FrameOrder
  <2>2. \A k \in 1 .. Len(frames') - 1 : frames'[k].on
    BY <1>0, <1>1 DEF FrameOrder
  <2>3. \A k \in 1 .. Len(frames') : frames'[k].on => frames'[k].pc \in {"task", "handler"}
    BY <1>0, <1>1, <1>2 DEF FrameOrder
  <2> QED
    BY <2>1, <2>2, <2>3 DEF FrameOrder
<1>8. HandlerOnce'
  <2>0. inprogress' = inprogress /\ Len(frames') = Len(frames)
    BY <1>1 DEF descvars
  <2>1. \A k, l \in 1 .. Len(frames') :
           frames'[k].pc = "handler" /\ frames'[l].pc = "handler" /\ frames'[k].irq = frames'[l].irq
               => k = l
    BY Zenon, <1>0, <2>0, <1>3 DEF HandlerOnce
  <2>2. \A k \in 1 .. Len(frames') : frames'[k].pc = "handler" => frames'[k].irq \in inprogress'
    BY <1>0, <2>0, <1>3 DEF HandlerOnce
  <2>3. ASSUME NEW i \in inprogress'
        PROVE  \E k \in 1 .. Len(frames') : frames'[k].pc = "handler" /\ frames'[k].irq = i
    <3>1. PICK k \in 1 .. Len(frames) : frames[k].pc = "handler" /\ frames[k].irq = i
      BY <1>0, <2>0 DEF HandlerOnce
    <3> QED
      BY <3>1, <2>0, <1>3
  <2> QED
    BY Zenon, <2>1, <2>2, <2>3 DEF HandlerOnce
<1>9. InService' /\ InServiceMaster' /\ OpenLines' /\ MaskedLines' /\ RequestsReachHandlers'
  BY <1>0, <1>1, <1>4 DEF InService, InServiceMaster, OpenLines, MaskedLines,
     RequestsReachHandlers, picvars, descvars
<1> QED
  BY <1>5, <1>6, <1>7, <1>8, <1>9 DEF IInv

LEMMA TaskStep ==
    ASSUME IInv, Task
    PROVE  IInv'
<1>0. TypeOK /\ FrameOrder /\ HandlerOnce
  BY DEF IInv
<1>1. stage = "up" /\ Top.pc = "task" /\ Top \in Frame
  BY <1>0, TopIsFrame DEF Task, TaskIrqOff, TaskIrqOn, local_bh_disable, _local_bh_enable, InTask
<1>2. CASE TaskIrqOff \/ TaskIrqOn
  <2>1. PICK b \in BOOLEAN : SetTop([Top EXCEPT !.on = b])
    BY Zenon, <1>2 DEF TaskIrqOff, TaskIrqOn
  <2> DEFINE f == [Top EXCEPT !.on = b]
  <2>2. f \in Frame /\ f.pc = Top.pc /\ f.irq = Top.irq /\ f.real = Top.real
    BY <1>1 DEF Frame
  <2>3. /\ UNCHANGED <<picvars, stage, descvars, spurious, reopened>>
        /\ preempt_count' \in [Stacks -> Int]
    BY <1>2, <1>0 DEF TaskIrqOff, TaskIrqOn, TypeOK
  <2> HIDE DEF f
  <2> QED
    BY Zenon, <2>1, <2>2, <2>3, <1>1, TopStep DEF f
<1>3. CASE local_bh_disable \/ _local_bh_enable
  <2>1. /\ UNCHANGED <<picvars, stage, descvars, spurious, reopened, frames>>
        /\ preempt_count' \in [Stacks -> Int]
    <3>1. preempt_count \in [Stacks -> Int] /\ preempt_count["task"] \in Int
      BY <1>0 DEF TypeOK, Stacks
    <3>2. UNCHANGED <<picvars, stage, descvars, spurious, reopened, frames>>
      BY Zenon, <1>3 DEF local_bh_disable, _local_bh_enable
    <3>3. PICK n \in Int : preempt_count' = [preempt_count EXCEPT !["task"] = n]
      BY <3>1, <1>3, OffsetsInt DEF local_bh_disable, _local_bh_enable
    <3> QED
      BY Zenon, <3>1, <3>2, <3>3
  <2>2. SetTop(Top)
    BY <1>0, <2>1 DEF SetTop, Top, TypeOK
  <2> QED
    BY <2>1, <2>2, <1>1, TopStep
<1> QED
  BY <1>2, <1>3 DEF Task

(* A device raises its line. *)
LEMMA RaiseStep ==
    ASSUME IInv, NEW i \in Users, Raise(i)
    PROVE  IInv'
<1>0. /\ TypeOK /\ EarlyBoot /\ MaskCoherent /\ DisabledIsMasked /\ FrameOrder /\ HandlerOnce
      /\ InService /\ InServiceMaster /\ OpenLines /\ MaskedLines /\ RequestsReachHandlers
  BY DEF IInv
<1> USE DEF Raise, AssertLine, descvars
<1>1. FrameOrder' /\ HandlerOnce' /\ Top' = Top /\ (Initialised' <=> Initialised)
  BY <1>0, SameFrames
<1>2. TypeOK'
  BY <1>0, IrqAssumption DEF TypeOK
<1>3. EarlyBoot' /\ MaskCoherent' /\ DisabledIsMasked'
  BY <1>0, <1>1 DEF EarlyBoot, MaskCoherent, DisabledIsMasked
<1>4. InService' /\ InServiceMaster' /\ OpenLines' /\ MaskedLines' /\ RequestsReachHandlers'
  BY <1>0, <1>1
    DEF InService, InServiceMaster, OpenLines, MaskedLines, RequestsReachHandlers
<1> QED
  BY <1>1, <1>2, <1>3, <1>4 DEF IInv
-----------------------------------------------------------------------------
(* Interrupts. *)

(* Wherever interrupts are on, the kernel is up, no flow handler is running and   *)
(* nothing is in service.                                                         *)
LEMMA WhenOn ==
    ASSUME IInv, Top.on
    PROVE  stage = "up" /\ Top.pc \in {"task", "handler"} /\ isr = {} /\ Initialised
<1>0. TypeOK /\ FrameOrder /\ InService
  BY DEF IInv
<1>1. stage = "up" /\ Initialised
  BY <1>0 DEF FrameOrder, Initialised
<1>2. Top.pc \in {"task", "handler"}
  BY <1>0, TopIsFrame DEF FrameOrder
<1> QED
  BY <1>0, <1>1, <1>2 DEF InService

LEMMA EnterStep ==
    ASSUME IInv, NEW i \in Lines, NEW r \in BOOLEAN, Top.on, irq_enter(i, r),
           UNCHANGED <<stage, descvars, reopened, imr, cached_irq_mask, irq_err_count>>,
           irr' \subseteq Lines, spurious' \in Nat,
           isr' \subseteq {i, PIC_CASCADE_IR}, i < 8 => isr' \subseteq {i}, r => i \notin imr
    PROVE  IInv'
<1>0. /\ TypeOK /\ MaskCoherent /\ DisabledIsMasked /\ FrameOrder /\ HandlerOnce
      /\ InService /\ InServiceMaster /\ OpenLines /\ MaskedLines /\ RequestsReachHandlers
  BY DEF IInv
<1>1. stage = "up" /\ stage' = "up" /\ Top.pc \in {"task", "handler"} /\ Initialised /\ Initialised'
  BY WhenOn DEF Initialised
<1> DEFINE f == IrqFrame(i, r)
<1>2. f \in Frame /\ f.pc = "flow" /\ f.irq = i /\ f.real = r /\ f.on = FALSE
  BY DEF IrqFrame, Frame
<1>3. frames' = Append(frames, f)
  BY DEF irq_enter
<1> HIDE DEF f
<1>4. /\ frames' \in Seq(Frame) /\ frames' # <<>> /\ Len(frames') = Len(frames) + 1
      /\ Top' = f /\ frames'[Len(frames) + 1] = f
      /\ \A k \in 1 .. Len(frames) : frames'[k] = frames[k]
  BY <1>0, <1>2, <1>3, PushFrames
<1>5. Len(frames) \in Nat \ {0} /\ Top = frames[Len(frames)]
  BY <1>0, TopIsFrame
<1>6. TypeOK'
  <2>1. preempt_count \in [Stacks -> Int]
    BY <1>0 DEF TypeOK
  <2>2. PICK t \in Stacks : preempt_count' = [preempt_count EXCEPT ![t] = @ + HARDIRQ_OFFSET]
    BY Zenon DEF irq_enter, Stacks
  <2>3. preempt_count' \in [Stacks -> Int]
    BY <2>1, <2>2, OffsetsInt
  <2>4. isr' \subseteq Lines
    BY LinesAssumption
  <2> QED
    BY <1>0, <1>4, <2>3, <2>4 DEF TypeOK, descvars
<1>7. EarlyBoot' /\ MaskCoherent' /\ DisabledIsMasked'
  BY <1>0, <1>1 DEF EarlyBoot, MaskCoherent, DisabledIsMasked, descvars
<1>8. FrameOrder'
  <2>1. \A k \in 1 .. Len(frames') : frames'[k].pc = "task" <=> k = 1
    BY <1>0, <1>2, <1>4, <1>5 DEF FrameOrder
  <2>2. \A k \in 1 .. Len(frames') - 1 : frames'[k].on
    BY <1>0, <1>4, <1>5 DEF FrameOrder
  <2>3. \A k \in 1 .. Len(frames') : frames'[k].on => frames'[k].pc \in {"task", "handler"}
    BY <1>0, <1>2, <1>4, <1>5 DEF FrameOrder
  <2> QED
    BY <1>1, <2>1, <2>2, <2>3 DEF FrameOrder
<1>9. HandlerOnce'
  <2>0. /\ inprogress' = inprogress
        /\ \A k \in 1 .. Len(frames') :
              frames'[k].pc = "handler" => k \in 1 .. Len(frames) /\ frames'[k] = frames[k]
    BY <1>2, <1>4, <1>5 DEF descvars
  <2>1. \A k, l \in 1 .. Len(frames') :
           frames'[k].pc = "handler" /\ frames'[l].pc = "handler" /\ frames'[k].irq = frames'[l].irq
               => k = l
    BY ZenonT(60), <1>0, <2>0 DEF HandlerOnce
  <2>2. \A k \in 1 .. Len(frames') : frames'[k].pc = "handler" => frames'[k].irq \in inprogress'
    BY Zenon, <1>0, <2>0 DEF HandlerOnce
  <2>3. ASSUME NEW j \in inprogress'
        PROVE  \E k \in 1 .. Len(frames') : frames'[k].pc = "handler" /\ frames'[k].irq = j
    <3>1. PICK k \in 1 .. Len(frames) : frames[k].pc = "handler" /\ frames[k].irq = j
      BY <1>0, <2>0 DEF HandlerOnce
    <3> QED
      BY <3>1, <1>4, <1>5
  <2> QED
    BY Zenon, <2>1, <2>2, <2>3 DEF HandlerOnce
<1>10. InService' /\ InServiceMaster' /\ MaskedLines'
  BY <1>0, <1>2, <1>4 DEF InService, InServiceMaster, MaskedLines, descvars
<1>11. OpenLines'
  BY <1>0, <1>1, <1>2, <1>4 DEF OpenLines, descvars
<1>12. RequestsReachHandlers'
  BY <1>0, <1>1, <1>2, <1>4 DEF RequestsReachHandlers, DisabledIsMasked, MaskedLines, descvars
<1> QED
  BY <1>6, <1>7, <1>8, <1>9, <1>10, <1>11, <1>12 DEF IInv

LEMMA DoIrqStep ==
    ASSUME IInv, NEW i \in Lines, do_IRQ(i) \/ do_IRQ_spurious(i)
    PROVE  IInv'
<1>0. TypeOK /\ Top.on /\ isr = {}
  BY Zenon, WhenOn DEF IInv, do_IRQ, do_IRQ_spurious
<1>1. CASE do_IRQ(i)
  <2>1. /\ irq_enter(i, TRUE)
        /\ UNCHANGED <<stage, descvars, reopened, imr, cached_irq_mask, irq_err_count>>
        /\ irr' \subseteq Lines /\ spurious' \in Nat /\ i \notin imr
    BY Zenon, <1>0, <1>1 DEF do_IRQ, Acknowledge, Highest, Requesting, TypeOK
  <2>2. isr' \subseteq {i, PIC_CASCADE_IR} /\ (i < 8 => isr' \subseteq {i})
    BY <1>0, <1>1, LinesAssumption DEF do_IRQ, Acknowledge, Slave
  <2> QED
    BY Zenon, <1>0, <2>1, <2>2, EnterStep
<1>2. CASE do_IRQ_spurious(i)
  <2>1. /\ irq_enter(i, FALSE)
        /\ UNCHANGED <<stage, descvars, reopened, imr, cached_irq_mask, irq_err_count>>
        /\ irr' \subseteq Lines /\ spurious' \in Nat
    <3>1. irq_enter(i, FALSE) /\ UNCHANGED <<stage, descvars, reopened>> /\ spurious' = spurious + 1
      BY Zenon, <1>2 DEF do_IRQ_spurious
    <3>2. UNCHANGED <<imr, cached_irq_mask, irq_err_count, irr>>
      BY <1>2 DEF do_IRQ_spurious, AcknowledgeSpurious
    <3>3. irr' \subseteq Lines /\ spurious' \in Nat
      BY <1>0, <3>1, <3>2 DEF TypeOK
    <3> QED
      BY Zenon, <3>1, <3>2, <3>3
  <2>2. isr' \subseteq {i, PIC_CASCADE_IR} /\ (i < 8 => isr' \subseteq {i})
    BY <1>0, <1>2 DEF do_IRQ_spurious, AcknowledgeSpurious
  <2> QED
    BY Zenon, <1>0, <2>1, <2>2, EnterStep
<1> QED
  BY <1>1, <1>2
(* The flow handler acknowledges, then refuses the interrupt or starts handlers.  *)
LEMMA FlowStep ==
    ASSUME IInv, handle_irq
    PROVE  IInv'
<1>0. /\ TypeOK /\ MaskCoherent /\ DisabledIsMasked /\ FrameOrder /\ HandlerOnce
      /\ InService /\ InServiceMaster /\ OpenLines /\ MaskedLines
  BY DEF IInv
<1> DEFINE i == Top.irq
           start == ~(i \in inprogress \/ action[i] = <<>> \/ i \in disabled)
           f == IF start THEN [Top EXCEPT !.pc = "handler", !.idx = 1]
                         ELSE [Top EXCEPT !.pc = "exit"]
<1>1. /\ Len(frames) \in Nat \ {0} /\ Top = frames[Len(frames)] /\ Top \in Frame
      /\ Len(frames) \in 1 .. Len(frames)
  BY <1>0, TopIsFrame
<1>2. Top.pc = "flow" /\ i \in Lines /\ ~Top.on /\ Len(frames) # 1
  BY <1>0, <1>1 DEF FrameOrder, handle_irq, Frame
<1>3. stage = "up" /\ stage' = "up" /\ Initialised /\ Initialised' /\ imr = cached_irq_mask
  BY <1>0, <1>2 DEF FrameOrder, handle_irq, Initialised, MaskCoherent
<1>4. /\ imr' = imr \cup {i} /\ cached_irq_mask' = imr'
      /\ irr' = irr /\ isr' = {} /\ irq_err_count' \in Nat
  <2>1. isr \subseteq {i, PIC_CASCADE_IR} /\ (i < 8 => isr \subseteq {i})
    BY <1>0, <1>2, <1>3 DEF InService, InServiceMaster
  <2> HIDE DEF i
  <2>2. mask_and_ack_8259A(i)
    BY DEF handle_irq, handle_level_irq, i
  <2> QED
    BY <1>0, <1>2, <1>3, <2>1, <2>2, MaskAndAckCloses
<1>5. /\ f \in Frame /\ f.irq = i /\ f.on = FALSE
      /\ f.pc = IF start THEN "handler" ELSE "exit"
  BY Zenon, <1>1, <1>2 DEF Frame
<1>6. /\ SetTop(f)
      /\ inprogress' = IF start THEN inprogress \cup {i} ELSE inprogress
      /\ UNCHANGED <<depth, disabled, oneshot, action, spurious, reopened>>
  BY DEF handle_irq, handle_level_irq
<1>7. start => i \notin inprogress
  OBVIOUS
<1>8. ~start => i \in inprogress \/ action[i] = <<>> \/ i \in disabled
  OBVIOUS
<1> HIDE DEF start, f, i
<1>9. /\ frames' \in Seq(Frame) /\ frames' # <<>> /\ Len(frames') = Len(frames)
      /\ Top' = f /\ frames'[Len(frames)] = f
      /\ \A k \in 1 .. Len(frames) - 1 : frames'[k] = frames[k]
  BY <1>0, <1>5, <1>6, SetTopFrames
<1>10. TypeOK'
  <2>1. preempt_count \in [Stacks -> Int] /\ preempt_count["irq"] \in Int /\ preempt_count["task"] \in Int
    BY <1>0 DEF TypeOK, Stacks
  <2> DEFINE n == preempt_count["irq"] - softirq_count(preempt_count["irq"])
                                       + softirq_count(preempt_count["task"])
  <2>0. n \in Int
    BY <2>1, OffsetsInt
  <2>2. preempt_count' = preempt_count \/ preempt_count' = [preempt_count EXCEPT !["irq"] = n]
    BY Zenon DEF handle_irq, execute_on_irq_stack
  <2> HIDE DEF n
  <2>3. preempt_count' \in [Stacks -> Int]
    BY <2>0, <2>1, <2>2
  <2>4. inprogress' \subseteq Lines /\ imr' \subseteq Lines
    BY <1>0, <1>2, <1>4, <1>6 DEF TypeOK
  <2> QED
    BY <1>0, <1>3, <1>4, <1>6, <1>9, <2>3, <2>4 DEF TypeOK, Stages
<1>11. EarlyBoot' /\ MaskCoherent'
  BY <1>3, <1>4 DEF EarlyBoot, MaskCoherent
<1>12. DisabledIsMasked'
  BY <1>0, <1>3, <1>4, <1>6 DEF DisabledIsMasked
<1>13. FrameOrder'
  <2>1. \A k \in 1 .. Len(frames') : frames'[k].pc = "task" <=> k = 1
    BY <1>0, <1>1, <1>2, <1>5, <1>9 DEF FrameOrder
  <2>2. \A k \in 1 .. Len(frames') - 1 : frames'[k].on
    BY <1>0, <1>9 DEF FrameOrder
  <2>3. \A k \in 1 .. Len(frames') : frames'[k].on => frames'[k].pc \in {"task", "handler"}
    BY <1>0, <1>1, <1>5, <1>9 DEF FrameOrder
  <2> QED
    BY <1>3, <2>1, <2>2, <2>3 DEF FrameOrder
<1>14. HandlerOnce'
  <2>0. \A k \in 1 .. Len(frames') :
           \/ k \in 1 .. Len(frames) /\ k # Len(frames) /\ frames'[k] = frames[k]
           \/ k = Len(frames) /\ frames'[k] = f
    BY <1>1, <1>9
  <2>1. \A k \in 1 .. Len(frames') : frames'[k].pc = "handler" =>
           \/ k \in 1 .. Len(frames) /\ frames'[k] = frames[k] /\ frames[k].irq \in inprogress
           \/ k = Len(frames) /\ frames'[k].irq = i /\ start
    BY <2>0, <1>0, <1>5 DEF HandlerOnce
  <2>2. ASSUME NEW k \in 1 .. Len(frames'), NEW l \in 1 .. Len(frames'),
               frames'[k].pc = "handler", frames'[l].pc = "handler", frames'[k].irq = frames'[l].irq
        PROVE  k = l
    <3>1. CASE k = Len(frames) \/ l = Len(frames)
      BY <3>1, <2>0, <2>1, <2>2, <1>5, <1>7
    <3>2. CASE k # Len(frames) /\ l # Len(frames)
      BY <3>2, <2>0, <2>2, <1>0 DEF HandlerOnce
    <3> QED
      BY <3>1, <3>2
  <2>3. \A k \in 1 .. Len(frames') : frames'[k].pc = "handler" => frames'[k].irq \in inprogress'
    BY <2>1, <1>6
  <2>4. ASSUME NEW j \in inprogress'
        PROVE  \E k \in 1 .. Len(frames') : frames'[k].pc = "handler" /\ frames'[k].irq = j
    <3>1. CASE j \in inprogress
      <4>1. PICK k \in 1 .. Len(frames) : frames[k].pc = "handler" /\ frames[k].irq = j
        BY <3>1, <1>0 DEF HandlerOnce
      <4>2. k # Len(frames)
        BY <4>1, <1>1, <1>2
      <4> QED
        BY <4>1, <4>2, <1>1, <1>9
    <3>2. CASE start /\ j = i
      BY <3>2, <1>1, <1>5, <1>9
    <3> QED
      BY <3>1, <3>2, <1>6
  <2> QED
    BY Zenon, <2>2, <2>3, <2>4 DEF HandlerOnce
<1>15. InService' /\ InServiceMaster' /\ RequestsReachHandlers'
  BY <1>4, <1>5, <1>9 DEF InService, InServiceMaster, RequestsReachHandlers
<1>16. MaskedLines'
  BY <1>0, <1>4, <1>6 DEF MaskedLines
<1>17. OpenLines'
  <2> SUFFICES ASSUME NEW j \in Lines, j \notin oneshot', j \notin inprogress', action'[j] # <<>>,
                      depth'[j] = 0
               PROVE  j \notin imr'
    BY DEF OpenLines
  <2>1. CASE j = i
    BY <2>1, <1>0, <1>2, <1>3, <1>6, <1>8 DEF DisabledIsMasked, TypeOK
  <2>2. CASE j # i
    BY <2>2, <1>0, <1>2, <1>4, <1>6 DEF OpenLines, i
  <2> QED
    BY <2>1, <2>2
<1> QED
  BY <1>10, <1>11, <1>12, <1>13, <1>14, <1>15, <1>16, <1>17 DEF IInv

(* A handler enables interrupts, or returns and the next one of its line starts.  *)
LEMMA HandlerStep ==
    ASSUME IInv, HandlerEnable \/ handle_irq_event_percpu
    PROVE  IInv'
<1>0. TypeOK /\ FrameOrder
  BY DEF IInv
<1>1. Top.pc = "handler" /\ Top \in Frame /\ Len(frames) # 1
  BY <1>0, TopIsFrame DEF HandlerEnable, handle_irq_event_percpu, FrameOrder
<1>2. stage = "up"
  BY <1>0, <1>1 DEF FrameOrder
<1>3. PICK f \in Frame : SetTop(f) /\ f.pc = Top.pc /\ f.irq = Top.irq /\ f.real = Top.real
  <2>1. CASE HandlerEnable
    <3> DEFINE g == [Top EXCEPT !.on = TRUE]
    <3>1. g \in Frame /\ g.pc = Top.pc /\ g.irq = Top.irq /\ g.real = Top.real
      BY Zenon, <1>1 DEF Frame
    <3>2. SetTop(g)
      BY <2>1 DEF HandlerEnable
    <3> QED
      BY Zenon, <3>1, <3>2
  <2>2. CASE handle_irq_event_percpu
    <3> DEFINE n == Top.idx + 1
               g == [Top EXCEPT !.idx = n, !.on = FALSE]
    <3>0. n \in Nat
      BY <1>1 DEF Frame
    <3> HIDE DEF n
    <3>1. g \in Frame /\ g.pc = Top.pc /\ g.irq = Top.irq /\ g.real = Top.real
      BY Zenon, <3>0, <1>1 DEF Frame
    <3>2. SetTop(g)
      BY <2>2 DEF handle_irq_event_percpu, n
    <3> QED
      BY Zenon, <3>1, <3>2
  <2> QED
    BY <2>1, <2>2
<1>4. /\ UNCHANGED <<picvars, stage, descvars, spurious, reopened>>
      /\ preempt_count' \in [Stacks -> Int]
  BY Zenon, <1>0 DEF HandlerEnable, handle_irq_event_percpu, TypeOK
<1> QED
  BY <1>1, <1>2, <1>3, <1>4, TopStep
(* The last handler of a line returns. *)
LEMMA FinishStep ==
    ASSUME IInv, handle_irq_event
    PROVE  IInv'
<1>0. /\ TypeOK /\ MaskCoherent /\ DisabledIsMasked /\ FrameOrder /\ HandlerOnce
      /\ InService /\ InServiceMaster /\ OpenLines /\ MaskedLines
  BY DEF IInv
<1> DEFINE i == Top.irq
           f == [Top EXCEPT !.pc = "exit", !.on = FALSE]
<1>1. /\ Len(frames) \in Nat \ {0} /\ Top = frames[Len(frames)] /\ Top \in Frame
      /\ Len(frames) \in 1 .. Len(frames)
  BY <1>0, TopIsFrame
<1>2. Top.pc = "handler" /\ i \in Lines /\ Len(frames) # 1
  BY <1>0, <1>1 DEF FrameOrder, handle_irq_event, Frame
<1>3. stage = "up" /\ stage' = "up" /\ Initialised /\ Initialised' /\ imr = cached_irq_mask
  BY <1>0, <1>2 DEF FrameOrder, handle_irq_event, Initialised, MaskCoherent
<1>4. f \in Frame /\ f.pc = "exit" /\ f.on = FALSE
  BY Zenon, <1>1, <1>2 DEF Frame
<1>5. /\ SetTop(f) /\ finish_level_irq(i)
      /\ UNCHANGED <<depth, disabled, oneshot, action, preempt_count, spurious>>
  BY Zenon DEF handle_irq_event
<1> HIDE DEF f, i
<1>6. /\ cached_irq_mask' = imr' /\ irr' = irr /\ isr' = isr /\ irq_err_count' = irq_err_count
      /\ imr' = IF i \in disabled \/ i \in oneshot THEN imr ELSE imr \ {i}
  <2>1. CASE i \in disabled \/ i \in oneshot
    BY <2>1, <1>3, <1>5 DEF finish_level_irq, picvars
  <2>2. CASE ~(i \in disabled \/ i \in oneshot)
    BY <2>2, <1>0, <1>2, <1>3, <1>5, UnmaskOpens DEF finish_level_irq
  <2> QED
    BY <2>1, <2>2
<1>7. inprogress' = inprogress \ {i} /\ reopened' = reopened \ {i}
  BY <1>5 DEF finish_level_irq
<1>8. /\ frames' \in Seq(Frame) /\ frames' # <<>> /\ Len(frames') = Len(frames)
      /\ Top' = f /\ frames'[Len(frames)] = f
      /\ \A k \in 1 .. Len(frames) - 1 : frames'[k] = frames[k]
  BY <1>0, <1>4, <1>5, SetTopFrames
<1>9. TypeOK'
  BY <1>0, <1>3, <1>5, <1>6, <1>7, <1>8 DEF TypeOK, Stages
<1>10. EarlyBoot' /\ MaskCoherent'
  BY <1>3, <1>6 DEF EarlyBoot, MaskCoherent
<1>11. DisabledIsMasked'
  BY <1>0, <1>3, <1>5, <1>6 DEF DisabledIsMasked
<1>12. FrameOrder'
  <2>1. \A k \in 1 .. Len(frames') : frames'[k].pc = "task" <=> k = 1
    BY <1>0, <1>1, <1>2, <1>4, <1>8 DEF FrameOrder
  <2>2. \A k \in 1 .. Len(frames') - 1 : frames'[k].on
    BY <1>0, <1>8 DEF FrameOrder
  <2>3. \A k \in 1 .. Len(frames') : frames'[k].on => frames'[k].pc \in {"task", "handler"}
    BY <1>0, <1>1, <1>4, <1>8 DEF FrameOrder
  <2> QED
    BY <1>3, <2>1, <2>2, <2>3 DEF FrameOrder
<1>13. HandlerOnce'
  <2>0. \A k \in 1 .. Len(frames') : frames'[k].pc = "handler" =>
           k \in 1 .. Len(frames) /\ k # Len(frames) /\ frames'[k] = frames[k]
    BY <1>1, <1>4, <1>8
  <2>1. \A k, l \in 1 .. Len(frames') :
           frames'[k].pc = "handler" /\ frames'[l].pc = "handler" /\ frames'[k].irq = frames'[l].irq
               => k = l
    BY Zenon, <1>0, <2>0 DEF HandlerOnce
  <2>2. \A k \in 1 .. Len(frames') : frames'[k].pc = "handler" => frames'[k].irq \in inprogress'
    BY <1>0, <1>1, <1>2, <1>7, <2>0 DEF HandlerOnce, i
  <2>3. ASSUME NEW j \in inprogress'
        PROVE  \E k \in 1 .. Len(frames') : frames'[k].pc = "handler" /\ frames'[k].irq = j
    <3>1. PICK k \in 1 .. Len(frames) : frames[k].pc = "handler" /\ frames[k].irq = j
      BY <1>0, <1>7 DEF HandlerOnce
    <3>2. k # Len(frames)
      BY <3>1, <1>1, <1>7 DEF i
    <3> QED
      BY <3>1, <3>2, <1>1, <1>8
  <2> QED
    BY Zenon, <2>1, <2>2, <2>3 DEF HandlerOnce
<1>14. InService' /\ InServiceMaster' /\ RequestsReachHandlers'
  BY <1>0, <1>2, <1>3, <1>4, <1>6, <1>8 DEF InService, InServiceMaster, RequestsReachHandlers
<1>15. MaskedLines'
  BY <1>0, <1>6, <1>7 DEF MaskedLines
<1>16. OpenLines'
  <2> SUFFICES ASSUME NEW j \in Lines, j \notin oneshot', j \notin inprogress', action'[j] # <<>>,
                      depth'[j] = 0
               PROVE  j \notin imr'
    BY DEF OpenLines
  <2>1. CASE j = i
    BY <2>1, <1>0, <1>3, <1>5, <1>6 DEF DisabledIsMasked, TypeOK
  <2>2. CASE j # i
    BY <2>2, <1>0, <1>2, <1>5, <1>6, <1>7 DEF OpenLines
  <2> QED
    BY <2>1, <2>2
<1> QED
  BY <1>9, <1>10, <1>11, <1>12, <1>13, <1>14, <1>15, <1>16 DEF IInv

(* An interrupt returns to the context it interrupted. *)
LEMMA ExitStep ==
    ASSUME IInv, irq_exit
    PROVE  IInv'
<1>0. /\ TypeOK /\ MaskCoherent /\ DisabledIsMasked /\ FrameOrder /\ HandlerOnce
      /\ InService /\ InServiceMaster /\ OpenLines /\ MaskedLines
  BY DEF IInv
<1>1. /\ Len(frames) \in Nat \ {0} /\ Top = frames[Len(frames)]
      /\ Len(frames) \in 1 .. Len(frames)
  BY <1>0, TopIsFrame
<1>2. Top.pc = "exit" /\ Len(frames) > 1
  BY <1>0, <1>1 DEF FrameOrder, irq_exit
<1>3. stage = "up" /\ stage' = "up" /\ Initialised /\ Initialised'
  BY <1>0, <1>2 DEF FrameOrder, irq_exit, Initialised
<1>4. /\ frames' \in Seq(Frame) /\ frames' # <<>> /\ Len(frames') = Len(frames) - 1
      /\ Top' = frames[Len(frames) - 1]
      /\ \A k \in 1 .. Len(frames) - 1 : frames'[k] = frames[k]
  BY <1>0, <1>2, PopFrames DEF irq_exit
<1>5. Top'.pc \in {"task", "handler"}
  BY <1>0, <1>1, <1>2, <1>4 DEF FrameOrder
<1>6. UNCHANGED <<cached_irq_mask, imr, irr, isr, irq_err_count, depth, disabled, inprogress,
                  oneshot, action, spurious, reopened>>
  BY DEF irq_exit, picvars, descvars
<1>7. TypeOK'
  <2>1. preempt_count \in [Stacks -> Int] /\ EntryStack \in Stacks
    BY <1>0 DEF TypeOK, EntryStack, Stacks
  <2>2. PICK n \in Int : preempt_count' = [preempt_count EXCEPT ![EntryStack] = n]
    <3> DEFINE n == preempt_count[EntryStack] - IRQ_EXIT_OFFSET - 1
    <3>1. n \in Int
      BY <2>1, OffsetsInt
    <3>2. preempt_count' = [preempt_count EXCEPT ![EntryStack] = n]
      BY Zenon DEF irq_exit
    <3> QED
      BY Zenon, <3>1, <3>2
  <2>3. preempt_count' \in [Stacks -> Int]
    BY <2>1, <2>2
  <2> QED
    BY <1>0, <1>3, <1>4, <1>6, <2>3 DEF TypeOK, Stages
<1>8. EarlyBoot' /\ MaskCoherent' /\ DisabledIsMasked'
  BY <1>0, <1>3, <1>6 DEF EarlyBoot, MaskCoherent, DisabledIsMasked
<1>9. FrameOrder'
  <2>1. \A k \in 1 .. Len(frames') : frames'[k].pc = "task" <=> k = 1
    BY <1>0, <1>1, <1>4 DEF FrameOrder
  <2>2. \A k \in 1 .. Len(frames') - 1 : frames'[k].on
    BY <1>0, <1>1, <1>4 DEF FrameOrder
  <2>3. \A k \in 1 .. Len(frames') : frames'[k].on => frames'[k].pc \in {"task", "handler"}
    BY <1>0, <1>1, <1>4 DEF FrameOrder
  <2> QED
    BY <1>3, <2>1, <2>2, <2>3 DEF FrameOrder
<1>10. HandlerOnce'
  <2>0. \A k \in 1 .. Len(frames') : k \in 1 .. Len(frames) /\ frames'[k] = frames[k]
    BY <1>1, <1>4
  <2>1. \A k, l \in 1 .. Len(frames') :
           frames'[k].pc = "handler" /\ frames'[l].pc = "handler" /\ frames'[k].irq = frames'[l].irq
               => k = l
    BY Zenon, <1>0, <2>0 DEF HandlerOnce
  <2>2. \A k \in 1 .. Len(frames') : frames'[k].pc = "handler" => frames'[k].irq \in inprogress'
    BY <1>0, <1>6, <2>0 DEF HandlerOnce
  <2>3. ASSUME NEW j \in inprogress'
        PROVE  \E k \in 1 .. Len(frames') : frames'[k].pc = "handler" /\ frames'[k].irq = j
    <3>1. PICK k \in 1 .. Len(frames) : frames[k].pc = "handler" /\ frames[k].irq = j
      BY <1>0, <1>6 DEF HandlerOnce
    <3>2. k # Len(frames)
      BY <3>1, <1>1, <1>2
    <3> QED
      BY <3>1, <3>2, <1>1, <1>4
  <2> QED
    BY Zenon, <2>1, <2>2, <2>3 DEF HandlerOnce
<1>11. InService' /\ InServiceMaster' /\ OpenLines' /\ MaskedLines' /\ RequestsReachHandlers'
  BY Zenon, <1>0, <1>2, <1>3, <1>5, <1>6
    DEF InService, InServiceMaster, OpenLines, MaskedLines, RequestsReachHandlers
<1> QED
  BY <1>7, <1>8, <1>9, <1>10, <1>11 DEF IInv
-----------------------------------------------------------------------------
(* Every step preserves the invariant. *)
LEMMA NextIInv == IInv /\ [Next]_vars => IInv'
<1> SUFFICES ASSUME IInv, [Next]_vars PROVE IInv'
  OBVIOUS
<1>1. CASE start_kernel
  BY <1>1, BootStep
<1>2. CASE Task
  BY <1>2, TaskStep
<1>3. CASE \E i \in Users : Driver(i) \/ Raise(i)
  <2>1. PICK i \in Users : Driver(i) \/ Raise(i)
    BY <1>3
  <2>2. i \in Lines
    BY IrqAssumption
  <2>3. CASE \E new \in Flags : setup_irq(i, new)
    <3>1. PICK new \in Flags : setup_irq(i, new)
      BY <2>3
    <3>2. /\ __setup_irq(i, new) /\ stage = "up" /\ Top.pc = "task"
          /\ UNCHANGED <<stage, frames, preempt_count, spurious>>
      BY <3>1 DEF setup_irq, InTask
    <3>3. Initialised /\ Initialised' /\ stage' \in Stages
      BY <3>2 DEF Initialised, Stages
    <3>4. new \in SUBSET AllFlags
      BY IrqAssumption
    <3> QED
      BY <3>2, <3>3, <3>4, <2>2, SetupStep
  <2> QED
    BY <2>1, <2>2, <2>3, DisableStep, EnableStep, RaiseStep DEF Driver
<1>4. CASE Processor
  BY <1>4, DoIrqStep, FlowStep, HandlerStep, FinishStep, ExitStep DEF Processor
<1>5. CASE UNCHANGED vars
  <2>1. UNCHANGED <<cached_irq_mask, imr, irr, isr, irq_err_count, stage, depth, disabled,
                    inprogress, oneshot, action, frames, preempt_count, spurious, reopened>>
    BY <1>5 DEF vars, picvars, descvars
  <2> QED
    BY ZenonT(60), <2>1 DEF IInv, TypeOK, EarlyBoot, MaskCoherent, DisabledIsMasked, FrameOrder, HandlerOnce,
       InService, InServiceMaster, OpenLines, MaskedLines, RequestsReachHandlers, Top, Initialised
<1> QED
  BY <1>1, <1>2, <1>3, <1>4, <1>5 DEF Next

(* IInv holds in every state: the masks, depths and in-progress flags agree with  *)
(* the stack of interrupted contexts whatever interrupts what.                    *)
THEOREM Invariance == Spec => []IInv
<1>1. Init => IInv
  BY InitIInv
<1>2. IInv /\ [Next]_vars => IInv'
  BY NextIInv
<1> QED
  BY <1>1, <1>2, PTL DEF Spec

(* The mask registers always hold the driver's copy (mask_8259A_irq and           *)
(* unmask_8259A_irq write one chip from it).                                      *)
THEOREM MasksAgree == Spec => []MaskCoherent
<1>1. IInv => MaskCoherent
  BY DEF IInv
<1> QED
  BY <1>1, Invariance, PTL

(* A line is disabled exactly while its depth is positive, and masked then        *)
(* (__disable_irq, __enable_irq, handle_level_irq).                               *)
THEOREM DisabledStaysMasked == Spec => []DisabledIsMasked
<1>1. IInv => DisabledIsMasked
  BY DEF IInv
<1> QED
  BY <1>1, Invariance, PTL

(* No line with a handler is left masked when none of its interrupts is being     *)
(* handled (handle_level_irq).                                                    *)
THEOREM EnabledStaysOpen == Spec => []EnabledIsOpen
<1>1. IInv => EnabledIsOpen
  <2> SUFFICES ASSUME IInv, NEW i \in Lines, action[i] # <<>>, depth[i] = 0, i \notin oneshot, Idle(i)
               PROVE  i \notin imr
    BY DEF EnabledIsOpen
  <2>0. TypeOK /\ HandlerOnce /\ OpenLines
    BY DEF IInv
  <2>1. i \notin inprogress
    BY <2>0 DEF Idle, HandlerOnce
  <2>2. ~(Top.pc = "flow" /\ Top.irq = i)
    BY <2>0, TopIsFrame DEF Idle
  <2> QED
    BY <2>0, <2>1, <2>2 DEF OpenLines
<1> QED
  BY <1>1, Invariance, PTL

(* Nothing is in service while handlers run (mask_and_ack_8259A). *)
THEOREM AcknowledgedFirst == Spec => []AckBeforeHandlers
<1>1. IInv => AckBeforeHandlers
  BY DEF IInv, InService, AckBeforeHandlers
<1> QED
  BY <1>1, Invariance, PTL

(* The handlers of a line are not re-entered, and IRQD_IRQ_INPROGRESS tells when  *)
(* they run (handle_irq_event).                                                   *)
THEOREM HandlersNotReentered == Spec => []NoReentry
<1>1. IInv => NoReentry
  <2> SUFFICES ASSUME IInv, NEW i \in Lines
               PROVE  /\ \A k, l \in HandlerFrames(i) : k = l
                      /\ i \in inprogress <=> HandlerFrames(i) # {}
    BY Zenon DEF NoReentry
  <2>0. HandlerOnce
    BY DEF IInv
  <2>1. \A k, l \in HandlerFrames(i) : k = l
    BY Zenon, <2>0 DEF HandlerOnce, HandlerFrames
  <2>2. i \in inprogress <=> HandlerFrames(i) # {}
    BY <2>0 DEF HandlerOnce, HandlerFrames
  <2> QED
    BY <2>1, <2>2
<1> QED
  BY <1>1, Invariance, PTL

(* A request is lost only to a missing handler or to a handler that enabled the   *)
(* line while the line was in progress (handle_level_irq).                        *)
THEOREM RequestsNotLost == Spec => []RequestsReachHandlers
<1>1. IInv => RequestsReachHandlers
  BY DEF IInv
<1> QED
  BY <1>1, Invariance, PTL

(* Once a line has a handler, its depth changes by single enables and disables,   *)
(* and not by a further request (__setup_irq starts a line for its first handler  *)
(* only).                                                                         *)
THEOREM DisablesHeld == Spec => DisableHeld
<1>1. IInv /\ [Next]_vars =>
        [\A i \in Lines : action[i] # <<>> => DepthKept(i)]_vars
  <2> SUFFICES ASSUME IInv, Next, NEW i \in Lines, action[i] # <<>>
               PROVE  DepthKept(i)
    OBVIOUS
  <2>0. depth \in [Lines -> Nat] /\ EarlyBoot
    BY DEF IInv, TypeOK
  <2>1. CASE depth' = depth
    BY <2>0, <2>1 DEF DepthKept
  <2>2. CASE start_kernel
    <3>1. CASE early_irq_init
      BY <3>1, <2>0 DEF early_irq_init, Boot, EarlyBoot, Initialised
    <3>2. CASE native_init_IRQ
      BY <3>2, <2>0, LinesAssumption DEF native_init_IRQ, __setup_irq, DepthKept
    <3> QED
      BY <2>1, <2>2, <3>1, <3>2
        DEF start_kernel, init_ISA_irqs, irq_ctx_init, local_irq_enable, descvars
  <2>3. CASE Task
    BY <2>1, <2>3 DEF Task, TaskIrqOff, TaskIrqOn, local_bh_disable, _local_bh_enable, descvars
  <2>4. CASE \E j \in Users : Driver(j) \/ Raise(j)
    <3>1. PICK j \in Users : Driver(j) \/ Raise(j)
      BY <2>4
    <3>2. j \in Lines
      BY IrqAssumption
    <3>3. CASE Raise(j)
      BY <2>1, <3>3 DEF Raise, descvars
    <3>4. CASE disable_irq_nosync(j)
      <4>1. action' = action /\ depth' = [depth EXCEPT ![j] = depth[j] + 1]
        BY Zenon, <3>4 DEF disable_irq_nosync, __disable_irq
      <4> QED BY <2>0, <3>2, <4>1 DEF DepthKept
    <3>5. CASE enable_irq(j)
      <4>1. /\ action' = action
            /\ depth' = [depth EXCEPT ![j] = IF depth[j] = 0 THEN 0 ELSE depth[j] - 1]
        BY Zenon, <3>5 DEF enable_irq, __enable_irq
      <4> QED BY <2>0, <3>2, <4>1 DEF DepthKept
    <3>6. CASE \E new \in Flags : setup_irq(j, new)
      BY <2>0, <3>2, <3>6 DEF setup_irq, __setup_irq, DepthKept
    <3> QED
      BY <3>1, <3>3, <3>4, <3>5, <3>6 DEF Driver
  <2>5. CASE Processor
    BY Zenon, <2>1, <2>5 DEF Processor, do_IRQ, do_IRQ_spurious, handle_irq, handle_level_irq,
       HandlerEnable, handle_irq_event_percpu, handle_irq_event, irq_exit, descvars
  <2> QED
    BY <2>2, <2>3, <2>4, <2>5 DEF Next
<1> QED
  BY <1>1, Invariance, PTL DEF Spec, DisableHeld
=============================================================================
