-------------------------------- MODULE Pic --------------------------------
(***************************************************************************)
(* The pair of 8259A interrupt controllers as src/src/kernel/interrupt.c   *)
(* programs it (edge-triggered, fully nested, normal end of interrupt, the *)
(* slave at input 2 of the master), and the table its vectors are          *)
(* dispatched through.  A vector is identified with its irq.               *)
(***************************************************************************)
EXTENDS Integers, FiniteSetsExt

IRQ_CLOCK   == 0
IRQ_CASCADE == 2
IRQ_RTC     == 8

Irqs   == 0 .. 15
Master == 0 .. 7
Slave  == 8 .. 15

VARIABLES
    mask,           \* the interrupt mask registers: the irqs held back
    request,        \* the requests the controllers have latched
    in_service,     \* the interrupts delivered and not yet ended
    handler_table,  \* by irq; "default_handler", "clock_handler" or "rtc_handler"
    intr            \* EFLAGS.IF

picVars == <<mask, request, in_service, handler_table, intr>>

\* interrupt_init: everything is masked and goes to default_handler.
PicInit ==
    /\ mask = Irqs
    /\ request = {}
    /\ in_service = {}
    /\ handler_table = [irq \in Irqs |-> "default_handler"]
    /\ intr = FALSE

SetInterruptHandler(irq, handler) ==
    handler_table' = [handler_table EXCEPT ![irq] = handler]

SetInterruptMask(irq, enable) ==
    mask' = IF enable THEN mask \ {irq} ELSE mask \cup {irq}

\* What a controller does with the end-of-interrupt command: the interrupt of
\* the highest priority that it has in service is over.
Ended(chip) ==
    LET serving == in_service \cap chip
    IN  IF serving = {} THEN {} ELSE {Min(serving)}

\* Fault: the slave is not told.
SendEoiToMaster(irq) == in_service' = in_service \ Ended(Master)

\* Fault: the first vector of the slave is taken for none.
SendEoiAbove(irq) ==
    in_service' = in_service \ (IF irq = 8 THEN {} ELSE Ended(Master))

SendEoi(irq) ==
    in_service' = in_service \ (Ended(Master) \cup
                                (IF irq \in Slave THEN Ended(Slave) ELSE {}))

\* Nothing of the same or a higher priority is in service on the chip.
Idles(chip, irq) == \A s \in in_service \cap chip : s > irq

\* The interrupts a controller may deliver as soon as IF is set.
Pending ==
    {irq \in request \ mask :
        IF irq \in Master THEN Idles(Master, irq)
        ELSE /\ IRQ_CASCADE \notin mask
             /\ Idles(Slave, irq)
             /\ Idles(Master, IRQ_CASCADE)}

\* The priority on the master decides, where the slave has that of input 2.
Priority(irq) == IF irq \in Slave THEN IRQ_CASCADE ELSE irq

\* The CPU acknowledges irq through an interrupt gate.
Acknowledge(irq) ==
    /\ intr
    /\ irq \in Pending
    /\ \A other \in Pending : Priority(irq) <= Priority(other)
    /\ intr' = FALSE
    /\ request' = request \ {irq}
    /\ in_service' = in_service \cup {irq, Priority(irq)}
    /\ UNCHANGED <<mask, handler_table>>

PicTypeOK ==
    /\ mask \subseteq Irqs
    /\ request \subseteq Irqs
    /\ in_service \subseteq Irqs
    /\ handler_table \in [Irqs -> {"default_handler", "clock_handler", "rtc_handler"}]
    /\ intr \in BOOLEAN

=============================================================================
