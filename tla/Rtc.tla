-------------------------------- MODULE Rtc --------------------------------
(***************************************************************************)
(* The real-time clock: time_init of src/src/kernel/time.c, then rtc_init  *)
(* of rtc.c and its interrupt handler, in the order kernel_init has for    *)
(* them (it calls them no longer: main.c:37-38), beside the clock.  The    *)
(* first clock interrupt ends kernel_init wherever it is: schedule() then  *)
(* switches to a task, and the context of kernel_init is in no table.      *)
(*                                                                         *)
(* A CMOS access is two port accesses, the index and then the data; each   *)
(* is a step, between two of which the chip may count a second and, with   *)
(* IF = 1, an interrupt may be taken.                                      *)
(***************************************************************************)
EXTENDS Calendar, Pic, Sequences

CONSTANTS
    StartDates,  \* what the chip shows when the kernel is entered
    MaxAge,      \* how many seconds may pass while the registers are read
    MaxSeconds   \* bound: the chip counts no further

ASSUME RtcAssumption ==
    /\ \A d \in StartDates : IsDate(d)
    /\ MaxAge \in 0 .. 59   \* nine port accesses take less than a minute
    /\ MaxSeconds \in Nat

\* The flows of control that access the CMOS: kernel_init and rtc_handler.
Contexts == {"boot", "rtc_handler"}

VARIABLES
    now,           \* chip: date and time
    seconds,       \* how often the chip has counted
    age,           \* by context: how often since it last read the seconds
    alarm,         \* chip: the alarm registers
    alarm_enable,  \* chip: AIE of register B
    alarm_flag,    \* chip: AF of register C
    index,         \* chip: the register that CMOS_DATA accesses
    startup_time,
    century,       \* the global, which every time_read uses as a variable
    running,       \* "boot", "tasks", or the handler the CPU is in
    interrupted,   \* what the handler returns to
    pc,            \* by context: the routine it is in ...
    step,          \* ... the CMOS access it is at ...
    selected,      \* ... and whether it has written the index for it
    tm             \* by context: the struct tm on its stack

chipVars == <<now, seconds, age, alarm, alarm_enable, alarm_flag>>
codeVars == <<startup_time, century, pc, step, selected, tm>>
vars == <<picVars, chipVars, index, running, interrupted, codeVars>>

-----------------------------------------------------------------------------
(* The CMOS accesses of the routines *)

TimeFields == <<"sec", "min", "hour", "wday", "mday", "mon", "year", "century">>
AlarmRegs  == {"alarm_hour", "alarm_min", "alarm_sec"}

Read(reg)  == [op |-> "read", reg |-> reg]
Write(reg) == [op |-> "write", reg |-> reg]

\* time_read_bcd reads the seconds once more at the end of its loop.
TimeRead == [i \in 1 .. 9 |-> Read(TimeFields[IF i = 9 THEN 1 ELSE i])]

Accesses(routine) ==
    CASE routine \in {"time_init", "time_read"} -> TimeRead
      [] routine = "rtc_init" -> <<Write("B"), Read("C")>>
      [] routine = "clear_flag" -> <<Read("C")>>
      [] routine = "write_alarm" ->
            <<Write("alarm_hour"), Write("alarm_min"), Write("alarm_sec"),
              Write("B"), Read("C")>>

Routines == {"time_init", "time_read", "rtc_init", "clear_flag", "write_alarm"}

Access(c) == Accesses(pc[c])[step[c]]

\* Fault: rtc_init lets the interrupt in before it sets the alarm.
OpenFirst ==
    <<"clock_init", "sti", "time_init", "set_handler", "unmask",
      "unmask_cascade", "rtc_init", "set_rate", "time_read", "write_alarm", "spin">>

\* Fault: the handler is set once the masks are open.
HandlerLast ==
    <<"clock_init", "sti", "time_init", "rtc_init", "set_rate", "time_read",
      "write_alarm", "unmask", "unmask_cascade", "set_handler", "spin">>

\* What kernel_init does, set_alarm being time_read and then write_alarm.
BootOrder ==
    <<"clock_init", "sti", "time_init", "rtc_init", "set_rate", "time_read",
      "write_alarm", "set_handler", "unmask", "unmask_cascade", "spin">>

HandlerOrder ==
    <<"send_eoi", "clear_flag", "time_read", "write_alarm", "iret">>

After(c) ==
    LET order == IF c = "boot" THEN BootOrder ELSE HandlerOrder
    IN  order[1 + CHOOSE i \in DOMAIN order : order[i] = pc[c]]

-----------------------------------------------------------------------------
(* The chip *)

TimeOfDay(d) ==
    [alarm_hour |-> BinToBcd(d.hour), alarm_min |-> BinToBcd(d.min),
     alarm_sec |-> BinToBcd(d.sec)]

\* What CMOS_DATA yields; the day of the week is used nowhere.
Cmos(reg) ==
    CASE reg \in DOMAIN now -> BinToBcd(now[reg])
      [] reg = "century" -> BinToBcd(IF now.year >= 70 THEN 19 ELSE 20)
      [] OTHER -> 0

\* The interrupt line is AF and AIE; the slave latches its rising edge.
LatchEdge ==
    request' = IF alarm_flag' /\ alarm_enable' /\ ~(alarm_flag /\ alarm_enable)
               THEN request \cup {IRQ_RTC} ELSE request

\* In the loop of time_read_bcd, with the seconds read.
InLoop(c) == pc[c] \in {"time_init", "time_read"} /\ step[c] > 1

\* One second passes; the chip changes all of its time registers at once.
Tick ==
    /\ seconds < MaxSeconds
    /\ \A c \in Contexts : InLoop(c) => age[c] < MaxAge
    /\ seconds' = seconds + 1
    /\ age' = [c \in Contexts |-> IF InLoop(c) THEN age[c] + 1 ELSE 0]
    /\ now' = NextSecond(now)
    /\ alarm_flag' = (alarm_flag \/ alarm = TimeOfDay(now'))
    /\ UNCHANGED <<alarm, alarm_enable>>
    /\ LatchEdge
    /\ UNCHANGED <<mask, in_service, handler_table, intr, index, running,
                   interrupted, codeVars>>

\* The timer requests an interrupt; clock_handler takes less than its period.
ClockRequest ==
    /\ running # "clock_handler"
    /\ request' = request \cup {IRQ_CLOCK}
    /\ UNCHANGED <<mask, in_service, handler_table, intr, chipVars, index,
                   running, interrupted, codeVars>>

-----------------------------------------------------------------------------
(* CMOS accesses *)

AtAccess(c) == running = c /\ pc[c] \in Routines

\* outb(CMOS_ADDR, ...).
Select(c) ==
    /\ AtAccess(c) /\ ~selected[c]
    /\ index' = Access(c).reg
    /\ selected' = [selected EXCEPT ![c] = TRUE]
    /\ UNCHANGED <<picVars, chipVars, running, interrupted, startup_time, century,
                   pc, step, tm>>

Blank == [field \in {"sec", "min", "hour", "mday", "mon", "year"} |-> 0]

\* The access is over, and with the last of them the routine.
Proceed(c) ==
    LET last == step[c] = Len(Accesses(pc[c]))
    IN  /\ selected' = [selected EXCEPT ![c] = FALSE]
        /\ step' = [step EXCEPT ![c] = IF last THEN 1 ELSE @ + 1]
        /\ pc' = [pc EXCEPT ![c] = IF last THEN After(c) ELSE @]

\* Fault: the minute that is carried is not counted when the hour is.
CarriedApart(t, secs) ==
    [hour |-> (t.hour + (IF t.min >= 60 THEN 1 ELSE 0)) % 24,
     min |-> (t.min + (IF t.sec + secs >= 60 THEN 1 ELSE 0)) % 60,
     sec |-> (t.sec + secs) % 60]

\* Fault: the 60th second is no minute.
NotCarried(t, secs) == [hour |-> t.hour, min |-> t.min, sec |-> t.sec + secs]

\* set_alarm: `secs` seconds after t, carried by hand.
Carried(t, secs) ==
    LET sec  == t.sec + (secs % 60)
        min  == t.min + (IF sec >= 60 THEN 1 ELSE 0) + ((secs \div 60) % 60)
        hour == t.hour + (IF min >= 60 THEN 1 ELSE 0) + (secs \div 3600)
    IN  [hour |-> hour % 24, min |-> min % 60, sec |-> sec % 60]

\* cmos_write: what goes to the register the index selects.
WriteData(c) ==
    /\ AtAccess(c) /\ selected[c] /\ Access(c).op = "write"
    /\ alarm' = IF index \in AlarmRegs
                THEN [alarm EXCEPT ![index] =
                        TimeOfDay(Carried(tm[c], 1))[Access(c).reg]]
                ELSE alarm
    /\ alarm_enable' = (alarm_enable \/ index = "B")
    /\ UNCHANGED <<now, seconds, age, alarm_flag>>
    /\ LatchEdge
    /\ Proceed(c)
    /\ UNCHANGED <<mask, in_service, handler_table, intr, index, running,
                   interrupted, startup_time, century, tm>>

\* cmos_read(CMOS_C): AF is cleared; a request of its that is still latched may
\* go away with it, which depends on the make of the controller.
ReadFlags(c) ==
    /\ AtAccess(c) /\ selected[c] /\ Access(c).reg = "C"
    /\ alarm_flag' = (alarm_flag /\ index # "C")
    /\ \/ request' = request
       \/ alarm_flag /\ ~alarm_flag' /\ request' = request \ {IRQ_RTC}
    /\ Proceed(c)
    /\ tm' = IF pc[c] = "write_alarm" THEN [tm EXCEPT ![c] = Blank] ELSE tm
    /\ UNCHANGED <<mask, in_service, handler_table, intr, now, seconds, age,
                   alarm, alarm_enable, index, running, interrupted, startup_time,
                   century>>

\* One register of the loop of time_read_bcd.
ReadTime(c) ==
    /\ AtAccess(c) /\ selected[c] /\ step[c] < 9
    /\ pc[c] \in {"time_init", "time_read"}
    /\ tm' = IF Access(c).reg \in DOMAIN Blank
             THEN [tm EXCEPT ![c][Access(c).reg] = Cmos(index)] ELSE tm
    /\ century' = IF Access(c).reg = "century" THEN Cmos(index) ELSE century
    /\ age' = IF step[c] = 1 THEN [age EXCEPT ![c] = 0] ELSE age
    /\ Proceed(c)
    /\ UNCHANGED <<picVars, now, seconds, alarm, alarm_enable, alarm_flag, index,
                   running, interrupted, startup_time>>

\* Fault: the registers are read once only.
SameTime(c) == TRUE

\* The condition that ends the loop of time_read_bcd.
SecondUnchanged(c) == tm[c].sec = Cmos(index)

\* The seconds have changed: the loop goes round.
ReadTimeAgain(c) ==
    /\ AtAccess(c) /\ selected[c] /\ step[c] = 9
    /\ ~SecondUnchanged(c)
    /\ step' = [step EXCEPT ![c] = 1]
    /\ selected' = [selected EXCEPT ![c] = FALSE]
    /\ UNCHANGED <<picVars, chipVars, index, running, interrupted, startup_time,
                   century, pc, tm>>

\* The loop ends, and time_read converts what it has read, the global included;
\* in time_init mktime follows.
ReadTimeDone(c) ==
    LET decoded == [field \in DOMAIN Blank |-> BcdToBin(tm[c][field])]
    IN  /\ AtAccess(c) /\ selected[c] /\ step[c] = 9
        /\ SecondUnchanged(c)
        /\ century' = BcdToBin(century)
        /\ startup_time' = IF pc[c] = "time_init" THEN MkTime(decoded)
                           ELSE startup_time
        /\ tm' = [tm EXCEPT ![c] = IF pc[c] = "time_init" THEN Blank ELSE decoded]
        /\ Proceed(c)
        /\ UNCHANGED <<picVars, chipVars, index, running, interrupted>>

-----------------------------------------------------------------------------
(* kernel_init *)

BootStep(label) ==
    /\ running = "boot" /\ pc["boot"] = label
    /\ pc' = [pc EXCEPT !["boot"] = After("boot")]
    /\ UNCHANGED <<request, in_service, chipVars, index, running, interrupted,
                   startup_time, century, step, selected, tm>>

\* clock_init, with IF = 0.
ClockInit ==
    /\ BootStep("clock_init")
    /\ SetInterruptHandler(IRQ_CLOCK, "clock_handler")
    /\ SetInterruptMask(IRQ_CLOCK, TRUE)
    /\ UNCHANGED intr

\* set_interrupt_state(true).
EnableInterrupts ==
    /\ BootStep("sti")
    /\ intr' = TRUE
    /\ UNCHANGED <<mask, handler_table>>

\* outb(CMOS_A, ...) goes to port 0x0a, which belongs to the DMA controller: the
\* rate of the chip stays what it was, and nothing else here changes.
RtcSetRate ==
    /\ BootStep("set_rate")
    /\ UNCHANGED <<mask, handler_table, intr>>

\* The end of rtc_init, after set_alarm(1).
RtcSetHandler ==
    /\ BootStep("set_handler")
    /\ SetInterruptHandler(IRQ_RTC, "rtc_handler")
    /\ UNCHANGED <<mask, intr>>

RtcUnmask ==
    /\ BootStep("unmask")
    /\ SetInterruptMask(IRQ_RTC, TRUE)
    /\ UNCHANGED <<handler_table, intr>>

CascadeUnmask ==
    /\ BootStep("unmask_cascade")
    /\ SetInterruptMask(IRQ_CASCADE, TRUE)
    /\ UNCHANGED <<handler_table, intr>>

-----------------------------------------------------------------------------
(* Interrupts *)

\* interrupt_entry calls what the table has for the vector.
Accept(irq) ==
    /\ Acknowledge(irq)
    /\ running' = handler_table[irq]
    /\ UNCHANGED <<chipVars, index, interrupted, codeVars>>

\* clock_handler sends the EOI and schedules.
ClockHandler ==
    /\ running = "clock_handler"
    /\ SendEoi(IRQ_CLOCK)
    /\ running' = "tasks"
    /\ interrupted' = "tasks"
    /\ intr' = TRUE
    /\ UNCHANGED <<mask, request, handler_table, chipVars, index, codeVars>>

\* A step of rtc_handler that accesses no CMOS register.
RtcHandlerStep(label) ==
    /\ running = "rtc_handler" /\ pc["rtc_handler"] = label
    /\ UNCHANGED <<mask, request, handler_table, chipVars, index, interrupted,
                   startup_time, century, step, selected, tm>>

RtcHandlerEoi ==
    /\ RtcHandlerStep("send_eoi")
    /\ SendEoi(IRQ_RTC)
    /\ pc' = [pc EXCEPT !["rtc_handler"] = After("rtc_handler")]
    /\ UNCHANGED <<intr, running>>

\* interrupt_exit.
RtcHandlerExit ==
    /\ RtcHandlerStep("iret")
    /\ running' = interrupted
    /\ intr' = TRUE
    /\ pc' = [pc EXCEPT !["rtc_handler"] = "send_eoi"]
    /\ UNCHANGED in_service

-----------------------------------------------------------------------------
Init ==
    /\ PicInit
    /\ now \in StartDates
    /\ seconds = 0
    /\ age = [c \in Contexts |-> 0]
    /\ alarm = [reg \in AlarmRegs |-> 0]
    /\ alarm_enable = FALSE
    /\ alarm_flag = FALSE
    /\ index = "sec"
    /\ startup_time = 0
    /\ century = 0
    /\ running = "boot"
    /\ interrupted = "boot"
    /\ pc = [c \in Contexts |-> IF c = "boot" THEN "clock_init" ELSE "send_eoi"]
    /\ step = [c \in Contexts |-> 1]
    /\ selected = [c \in Contexts |-> FALSE]
    /\ tm = [c \in Contexts |-> Blank]

CmosStep(c) ==
    Select(c) \/ WriteData(c) \/ ReadFlags(c) \/ ReadTime(c)
    \/ ReadTimeAgain(c) \/ ReadTimeDone(c)

Boot ==
    \/ CmosStep("boot")
    \/ ClockInit \/ EnableInterrupts \/ RtcSetRate \/ RtcSetHandler \/ RtcUnmask
    \/ CascadeUnmask

Handler ==
    CmosStep("rtc_handler") \/ ClockHandler \/ RtcHandlerEoi \/ RtcHandlerExit

Next ==
    \/ Tick
    \/ ClockRequest
    \/ \E irq \in {IRQ_CLOCK, IRQ_RTC} : Accept(irq)
    \/ Boot
    \/ Handler

Spec == Init /\ [][Next]_vars

\* A handler runs to its end, and the requests are delivered in the end, since
\* the timer leaves the CPU almost all of the time.
FairSpec ==
    /\ Spec
    /\ WF_vars(Handler)
    /\ WF_vars(Accept(IRQ_CLOCK))
    /\ SF_vars(Accept(IRQ_RTC))

-----------------------------------------------------------------------------
(* Properties *)

\* Every variable has a value of its type; the registers hold BCD numbers.
TypeOK ==
    /\ PicTypeOK
    /\ IsDate(now)
    /\ seconds \in 0 .. MaxSeconds
    /\ age \in [Contexts -> 0 .. MaxAge]
    /\ alarm \in [AlarmRegs -> 0 .. 89]
    /\ alarm_enable \in BOOLEAN
    /\ alarm_flag \in BOOLEAN
    /\ startup_time \in Nat
    /\ century \in 0 .. 32
    /\ running \in Contexts \cup {"clock_handler", "tasks"}
    /\ interrupted \in {"boot", "tasks"}
    /\ step \in [Contexts -> 1 .. 9]
    /\ selected \in [Contexts -> BOOLEAN]
    /\ tm \in [Contexts -> [DOMAIN Blank -> 0 .. 153]]

\* time.c:109-111: the time that time_read returns is one the chip has shown,
\* no mixture of two, although it reads the registers one by one and compares
\* the seconds only.  It is the present one when the last of them is read.
TimeReadIsExact ==
    [][\A c \in Contexts :
         pc[c] = "time_read" /\ pc'[c] # "time_read" => 
            \A field \in DOMAIN Blank : tm'[c][field] = now[field]]_vars

\* The same of the time of the start, converted to the seconds since 1970 with
\* the table of the months: startup_time is what counting the days yields.
StartupTimeIsTrue ==
    [][startup_time' # startup_time => startup_time' = SecondsTo(now)]_vars

\* rtc.c and time.c use the index and the data port as a pair with interrupts
\* on, and the global century as a variable.  Nothing comes in between: the
\* handler that does the same is let in by the last statements of rtc_init only.
NoCmosInterference ==
    /\ \A c \in Contexts :
            running = c /\ selected[c] => index = Access(c).reg
    /\ (\A c \in Contexts : pc[c] \notin {"time_init", "time_read"}) =>
            century \in {0, 19, 20}

\* The alarm that set_alarm(1) sets, carrying at 59 and 23 by hand, is the
\* second after the one it has read, over every minute, hour and midnight.
AlarmIsNextSecond ==
    \A c \in Contexts : pc[c] = "write_alarm" /\ step[c] > 3 =>
        alarm = TimeOfDay(NextSecond(tm[c]))

\* Outside the handlers no interrupt is in service in either controller, so
\* that none stays locked out for ever.
NothingLeftInService == running \in {"boot", "tasks"} => in_service = {}

\* No interrupt can reach default_handler, which would end it without clearing
\* its cause: the handler is in the table before both masks are open.
OwnHandler == \A irq \in Pending : handler_table[irq] # "default_handler"

\* Once rtc_init is through, an alarm is answered in the end: before register C
\* is read there is no further one.
AlarmAnswered ==
    alarm_flag /\ alarm_enable /\ {IRQ_RTC, IRQ_CASCADE} \cap mask = {}
        ~> ~alarm_flag

=============================================================================
