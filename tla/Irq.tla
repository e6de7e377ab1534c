-------------------------------- MODULE Irq --------------------------------
(***************************************************************************)
(* Interrupts of the soft processor: the HAL's tables and masks over the   *)
(* processor's status.PIE, ienable and ipending (alt_irq.h,                *)
(* alt_legacy_irq.h, alt_iic_isr_register.c, alt_irq_handler.c).           *)
(*                                                                         *)
(* The program registers and removes handlers, a step per access; an       *)
(* interrupt comes between any two of them while PIE is set.  Handlers     *)
(* serve the device that asked, and may let interrupts of a higher         *)
(* priority (a lower number) in.  The processor and the devices are        *)
(* external: a device asks until it is served, and a pending interrupt is  *)
(* taken before the next step.                                             *)
(*                                                                         *)
(* Handlers do not themselves register or remove handlers.                 *)
(***************************************************************************)
EXTENDS Naturals, Sequences, FiniteSetsExt

CONSTANTS
    IRQS,       \* interrupt numbers, from 0 up; a mask is a set of them
    ISRS        \* handlers; each is registered with a context of its own, that has its name

NULL == "NULL"

ASSUME IrqAssumption == 0 \in IRQS /\ IRQS \subseteq Nat /\ NULL \notin ISRS

VARIABLES
    pie,                    \* status.PIE
    ienable, alt_irq_active, alt_priority_mask,
    alt_irq,                \* the table: handler and context of each interrupt
    asks,                   \* the interrupts whose device asks
    stack                   \* the program and the handlers that interrupt it, the innermost first

irqVars == <<pie, ienable, alt_irq_active, alt_priority_mask, alt_irq, asks, stack>>
masks == <<ienable, alt_irq_active, alt_priority_mask>>

\* A level of the stack: its next step; the interrupt and handler it is about; the PIE bits
\* it will restore, the innermost first; and the priority mask it will restore.
Level(at, saved) ==
    [at |-> at, irq |-> 0, isr |-> NULL, context |-> NULL, saved |-> saved, old |-> IRQS]

\* After alt_irq_init: every interrupt disabled by itself, and PIE set.
IrqInit ==
    /\ pie = TRUE
    /\ ienable = {} /\ alt_irq_active = {} /\ alt_priority_mask = IRQS
    /\ alt_irq = [i \in IRQS |-> [handler |-> NULL, context |-> NULL]]
    /\ asks = {} /\ stack = <<Level("runs", << >>)>>

\* alt_irq_pending().
Pending == asks \cap ienable

Top == Head(stack)
Becomes(level) == stack' = <<level>> \o Tail(stack)
Goes(to) == Becomes([Top EXCEPT !.at = to])
\* The running level does its next step: no interrupt is about to be taken.
At(step) == Top.at = step /\ ~ (pie /\ Pending # {})

\* alt_irq_disable_all(), and alt_irq_enable_all() with what it returned.
ReadStatus(from, to) ==
    /\ At(from) /\ Becomes([Top EXCEPT !.at = to, !.saved = <<pie>> \o @])
    /\ UNCHANGED <<pie, masks, alt_irq, asks>>
ClearPie(from, to) ==
    /\ At(from) /\ Goes(to)
    /\ pie' = FALSE
    /\ UNCHANGED <<masks, alt_irq, asks>>
RestorePie(from, to) ==
    /\ At(from) /\ Becomes([Top EXCEPT !.at = to, !.saved = Tail(@)])
    /\ pie' = Head(Top.saved)
    /\ UNCHANGED <<masks, alt_irq, asks>>

----------------------------------------------------------------------------
(* alt_iic_isr_register, of a handler or of NULL                            *)

Register ==
    /\ At("runs") /\ Len(stack) = 1
    /\ \E i \in IRQS, isr \in ISRS \union {NULL} :
         Becomes([Top EXCEPT !.at = "lock", !.irq = i, !.isr = isr])
    /\ UNCHANGED <<pie, masks, alt_irq, asks>>

SetHandler ==
    /\ At("handler") /\ Goes("context")
    /\ alt_irq' = [alt_irq EXCEPT ![Top.irq].handler = Top.isr]
    /\ UNCHANGED <<pie, masks, asks>>
SetContext ==
    /\ At("context") /\ Goes("inner lock")
    /\ alt_irq' = [alt_irq EXCEPT ![Top.irq].context = Top.isr]
    /\ UNCHANGED <<pie, masks, asks>>

\* alt_irq_enable and alt_irq_disable, by way of alt_ic_irq_enable and _disable.
MarkActive ==
    /\ At("active") /\ Goes("ienable")
    /\ alt_irq_active' = IF Top.isr # NULL THEN alt_irq_active \union {Top.irq}
                                           ELSE alt_irq_active \ {Top.irq}
    /\ UNCHANGED <<pie, ienable, alt_priority_mask, alt_irq, asks>>
Enable ==
    /\ At("ienable") /\ Goes("inner unlock")
    /\ ienable' = alt_irq_active
    /\ UNCHANGED <<pie, alt_irq_active, alt_priority_mask, alt_irq, asks>>

Registers ==
    \/ ReadStatus("lock", "locked") \/ ClearPie("locked", "handler")
    \/ SetHandler \/ SetContext
    \/ ReadStatus("inner lock", "inner locked") \/ ClearPie("inner locked", "active")
    \/ MarkActive \/ Enable
    \/ RestorePie("inner unlock", "unlock") \/ RestorePie("unlock", "runs")

----------------------------------------------------------------------------
(* Interrupts                                                               *)

\* The processor takes an interrupt: PIE is saved and cleared.
Interrupt ==
    /\ pie /\ Pending # {}
    /\ pie' = FALSE
    /\ stack' = <<Level("first", <<TRUE>>)>> \o stack
    /\ UNCHANGED <<masks, alt_irq, asks>>

\* alt_irq_handler: the lowest bit that is pending.  If none were, the inner loop would
\* shift its mask for ever.
Dispatch ==
    /\ At("first") \/ (At("again") /\ Pending # {})
    /\ IF Pending = {} THEN Goes("shifts for ever")
       ELSE LET i == Min(Pending)
            IN  Becomes([Top EXCEPT !.at = "called", !.irq = i, !.isr = alt_irq[i].handler,
                                    !.context = alt_irq[i].context])
    /\ UNCHANGED <<pie, masks, alt_irq, asks>>

\* Nothing is pending any more: the exception returns.
Return ==
    /\ At("again") /\ Pending = {}
    /\ pie' = Head(Top.saved) /\ stack' = Tail(stack)
    /\ UNCHANGED <<masks, alt_irq, asks>>

\* A handler serves its device, and is done or lets higher priorities in for a while.
Serve ==
    /\ At("called")
    /\ \E to \in {"again", "interruptible"} : Goes(to)
    /\ asks' = asks \ {Top.irq}
    /\ UNCHANGED <<pie, masks, alt_irq>>

\* alt_irq_interruptible.
HigherOrSame(priority) == {i \in IRQS : i <= priority}
Higher(priority) == {i \in IRQS : i < priority}
Narrow ==
    /\ At("interruptible") /\ Becomes([Top EXCEPT !.at = "open", !.old = alt_priority_mask])
    /\ alt_priority_mask' = Higher(Top.irq)
    /\ ienable' = alt_irq_active \cap alt_priority_mask'
    /\ UNCHANGED <<pie, alt_irq_active, alt_irq, asks>>
LetIn ==
    /\ At("open") /\ Goes("preemptible")
    /\ pie' = TRUE
    /\ UNCHANGED <<masks, alt_irq, asks>>

\* alt_irq_non_interruptible.
Widen ==
    /\ At("widen") /\ Goes("again")
    /\ alt_priority_mask' = Top.old
    /\ ienable' = alt_irq_active \cap Top.old
    /\ UNCHANGED <<pie, alt_irq_active, alt_irq, asks>>

Handles ==
    \/ Dispatch \/ Return \/ Serve
    \/ Narrow \/ LetIn \/ ClearPie("preemptible", "widen") \/ Widen

\* A device asks.
Ask ==
    /\ \E i \in IRQS \ asks : asks' = asks \union {i}
    /\ UNCHANGED <<pie, masks, alt_irq, stack>>

\* The processor goes on: whatever has begun is done to its end.
IrqContinues == Registers \/ Interrupt \/ Handles

IrqNext == Register \/ IrqContinues \/ Ask

IrqSpec == IrqInit /\ [][IrqNext]_irqVars
IrqFairSpec == IrqSpec /\ WF_irqVars(IrqContinues)

----------------------------------------------------------------------------
(* Properties                                                               *)

Serving == {"called", "interruptible", "open", "preemptible", "widen"}
Serves(level) == level.at \in Serving

IrqTypeOK ==
    /\ pie \in BOOLEAN /\ {ienable, alt_irq_active, alt_priority_mask, asks} \subseteq SUBSET IRQS
    /\ alt_irq \in [IRQS -> [handler : ISRS \union {NULL}, context : ISRS \union {NULL}]]
    /\ \A k \in DOMAIN stack : stack[k].irq \in IRQS /\ stack[k].old \subseteq IRQS

\* "interrupts are disabled while the handler tables are updated to ensure that an interrupt
\* doesn't occur while the tables are in an inconsistant state": no handler is called
\* with the context of another one, and none that has been removed.
CalledWithItsOwn ==
    \A k \in DOMAIN stack :
      Serves(stack[k]) => stack[k].isr # NULL /\ stack[k].isr = stack[k].context

\* "used to allow higer priority interrupts to interrupt the current ISR", and only those,
\* however deep they nest.
HigherInterruptsLower ==
    \A j, k \in DOMAIN stack : j < k /\ Serves(stack[j]) /\ Serves(stack[k]) => stack[j].irq < stack[k].irq

\* The program finds the masks as it left them, with every registered interrupt enabled.
MasksRestored ==
    Top.at = "runs" =>
      /\ pie /\ alt_priority_mask = IRQS /\ ienable = alt_irq_active
      /\ \A i \in IRQS : i \in ienable <=> alt_irq[i].handler # NULL

NeverHangs == Top.at # "shifts for ever"

\* All of this together: no interrupt disturbs the program or another interrupt.
InterruptsInOrder ==
    IrqTypeOK /\ NeverHangs /\ CalledWithItsOwn /\ HigherInterruptsLower /\ MasksRestored

\* A device with the highest priority is served, or its handler removed.
FirstWaits == 0 \in Pending
FirstServed == FirstWaits ~> ~ FirstWaits
==============================================================================
