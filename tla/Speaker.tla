------------------------------ MODULE Speaker ------------------------------
(***************************************************************************)
(* The bell: start_beep, which console_write calls for BEL, beside         *)
(* stop_beep in the handler of the clock (src/src/kernel/clock.c).  The    *)
(* writer runs with IF = 1, so that a clock interrupt may come between any *)
(* two of its accesses to beeping, jiffies and the port.  There is one     *)
(* writer at a time: the threads print under a lock.                       *)
(***************************************************************************)
EXTENDS Console

CONSTANTS
    BEEP_TICKS,  \* how long a beep lasts: 5
    MaxJiffies   \* bound: far from the wrap of jiffies, which is not modelled

ASSUME SpeakerAssumption == BEEP_TICKS \in Nat \ {0} /\ MaxJiffies \in Nat

VARIABLES
    jiffies,
    beeping,    \* when the beep is to end; 0 when there is none
    speaker,    \* bits 0 and 1 of SPEAKER_REG: the speaker sounds
    until,      \* what it has computed for beeping
    writer,     \* where the writer is in start_beep; "console" when it is not
    last_bell   \* history: jiffies when start_beep last returned

speakerVars == <<jiffies, beeping, speaker, until, writer, last_bell>>
allVars == <<vars, speakerVars>>

SpeakerInit ==
    /\ Init
    /\ jiffies = 0
    /\ beeping = 0
    /\ speaker = FALSE
    /\ until = 0
    /\ writer = "console"
    /\ last_bell = 0

BellStep(from, to) ==
    /\ writer = from
    /\ writer' = to
    /\ UNCHANGED <<vars, jiffies>>

\* console_write has a BEL: if (!beeping).
Bell ==
    /\ BellStep("console", IF beeping = 0 THEN "outb" ELSE "add")
    /\ UNCHANGED <<beeping, speaker, until, last_bell>>

\* The port is written back with bits 0 and 1 set.  What was read from it does
\* not matter: stop_beep changes no other bit.
SpeakerOn ==
    /\ BellStep("outb", "add")
    /\ speaker' = TRUE
    /\ UNCHANGED <<beeping, until, last_bell>>

\* jiffies + 5 ...
AddTicks ==
    /\ BellStep("add", "store")
    /\ until' = jiffies + BEEP_TICKS
    /\ UNCHANGED <<beeping, speaker, last_bell>>

\* ... is stored, however many ticks later.
StoreDeadline ==
    /\ BellStep("store", "console")
    /\ beeping' = until
    /\ until' = 0
    /\ last_bell' = jiffies
    /\ UNCHANGED speaker

\* Fault: the beep ends at its deadline only, not at any later tick.
OverdueExactly == beeping # 0 /\ jiffies = beeping

\* The condition of stop_beep.
Overdue == beeping # 0 /\ jiffies > beeping

\* clock_handler: stop_beep, then jiffies++.
ClockTick ==
    /\ jiffies < MaxJiffies
    /\ IF Overdue THEN speaker' = FALSE /\ beeping' = 0
                  ELSE UNCHANGED <<speaker, beeping>>
    /\ jiffies' = jiffies + 1
    /\ UNCHANGED <<vars, until, writer, last_bell>>

\* Every other character is written between two bells.
Character == writer = "console" /\ Next /\ UNCHANGED speakerVars

SpeakerNext ==
    \/ Character
    \/ Bell \/ SpeakerOn \/ AddTicks \/ StoreDeadline
    \/ ClockTick

SpeakerSpec == SpeakerInit /\ [][SpeakerNext]_allVars

-----------------------------------------------------------------------------
\* A beep ends: whatever ticks come between the accesses of start_beep, the
\* speaker is silent when more than BEEP_TICKS + 1 ticks have passed since the
\* last bell, even if the deadline was already over when it was stored.
BeepEnds ==
    speaker /\ writer = "console" => jiffies <= last_bell + BEEP_TICKS + 1

=============================================================================
