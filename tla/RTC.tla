---------------------------------- MODULE RTC ----------------------------------
(***************************************************************************)
(* The virtualized real-time clock (devices/RTC.c).  The chip interrupts   *)
(* RTC_MAX_FREQ times a second; every terminal has a counter of these      *)
(* interrupts and an upper bound set from the frequency its process asked  *)
(* for, and rtc_read spins until the counter reaches the bound.            *)
(*                                                                         *)
(* One process per terminal is considered, at "user", in the loop of       *)
(* rtc_read ("spin") or past it ("reset").  It moves when running_term     *)
(* names its terminal; RTC interrupts and ticks come at any time.  The     *)
(* descriptor checks of the handlers cannot fail, since sys_read and       *)
(* sys_write have made them (module FileSystem).                           *)
(***************************************************************************)
EXTENDS Integers

CONSTANTS
    TERM_NUM,           \* number of terminals (3 in the code)
    RTC_MAX_FREQ,       \* frequency of the chip (1024 in the code)
    RTC_MIN_FREQ,       \* lowest frequency (2 in the code)
    Freqs               \* frequencies that programs write

ASSUME RTCAssumption ==
    /\ TERM_NUM \in Nat \ {0}
    /\ RTC_MAX_FREQ \in Nat \ {0} /\ RTC_MIN_FREQ \in Nat \ {0}
    /\ RTC_MAX_FREQ % RTC_MIN_FREQ = 0
    /\ RTC_MIN_FREQ <= RTC_MAX_FREQ
    /\ Freqs \subseteq Nat

VARIABLES
    rtc_interrupt_counter, rtc_counter_upperbound,   \* per terminal
    running_term,
    pc,
    since       \* history: interrupts since the last read returned, or the open

clockVars == <<rtc_interrupt_counter, rtc_counter_upperbound, since>>
vars == <<clockVars, running_term, pc>>

Terms == 1 .. TERM_NUM

\* The largest upper bound.  Counters stop there in this module: no test tells
\* larger counts apart, and the 32 bits of the code last for 48 days.
MaxCount == RTC_MAX_FREQ \div RTC_MIN_FREQ

Init ==
    /\ rtc_interrupt_counter  = [t \in Terms |-> 0]
    /\ rtc_counter_upperbound = [t \in Terms |-> MaxCount]
    /\ running_term = 1
    /\ pc = [t \in Terms |-> "user"]
    /\ since = [t \in Terms |-> 0]

-----------------------------------------------------------------------------
\* Mutant: the loop of rtc_interrupt stops before the last terminal.
CountedShort == 1 .. TERM_NUM - 1

\* The terminals whose counters an interrupt increments
Counted == Terms

OneMore(n) == IF n < MaxCount THEN n + 1 ELSE n

rtc_interrupt ==
    /\ rtc_interrupt_counter' =
          [t \in Terms |-> IF t \in Counted THEN OneMore(rtc_interrupt_counter[t])
                           ELSE rtc_interrupt_counter[t]]
    /\ since'  = [t \in Terms |-> OneMore(since[t])]
    /\ UNCHANGED <<rtc_counter_upperbound, running_term, pc>>

scheduler ==
    /\ running_term' = (running_term % TERM_NUM) + 1
    /\ UNCHANGED <<clockVars, pc>>

-----------------------------------------------------------------------------
rtc_open(t) ==
    /\ running_term = t /\ pc[t] = "user"
    /\ rtc_counter_upperbound' = [rtc_counter_upperbound EXCEPT ![t] = MaxCount]
    /\ rtc_interrupt_counter' = [rtc_interrupt_counter EXCEPT ![t] = 0]
    /\ since' = [since EXCEPT ![t] = 0]
    /\ UNCHANGED <<running_term, pc>>

\* (freq & (freq - 1)) == 0 for a frequency below 2^31
NoTwoBits(freq) == freq = 0 \/ \E k \in 0 .. 30 : freq = 2 ^ k

\* Mutant: only the upper end of the range is checked.
AcceptedUpperOnly(freq) == NoTwoBits(freq) /\ freq # 0 /\ freq <= RTC_MAX_FREQ

Accepted(freq) == NoTwoBits(freq) /\ freq >= RTC_MIN_FREQ /\ freq <= RTC_MAX_FREQ

\* A rejected frequency changes nothing.
rtc_write(t, freq) ==
    /\ running_term = t /\ pc[t] = "user"
    /\ Accepted(freq)
    /\ rtc_counter_upperbound' =
          [rtc_counter_upperbound EXCEPT ![t] = RTC_MAX_FREQ \div freq]
    /\ UNCHANGED <<rtc_interrupt_counter, since, running_term, pc>>

ReadCall(t) ==
    /\ running_term = t /\ pc[t] = "user"
    /\ pc' = [pc EXCEPT ![t] = "spin"]
    /\ UNCHANGED <<clockVars, running_term>>

SpinExit(t) ==
    /\ running_term = t /\ pc[t] = "spin"
    /\ rtc_interrupt_counter[t] >= rtc_counter_upperbound[t]
    /\ pc' = [pc EXCEPT ![t] = "reset"]
    /\ UNCHANGED <<clockVars, running_term>>

\* Mutant: only one period is taken off the counter.
CounterLessOne(t) == rtc_interrupt_counter[t] - 1

\* The counter after a read: interrupts that came late are dropped.
CounterAfterRead(t) == 0

ReadReturn(t) ==
    /\ running_term = t /\ pc[t] = "reset"
    /\ rtc_interrupt_counter' =
          [rtc_interrupt_counter EXCEPT ![t] = CounterAfterRead(t)]
    /\ since' = [since EXCEPT ![t] = 0]
    /\ pc' = [pc EXCEPT ![t] = "user"]
    /\ UNCHANGED <<rtc_counter_upperbound, running_term>>

-----------------------------------------------------------------------------
Next == \/ rtc_interrupt
        \/ scheduler
        \/ \E t \in Terms : \/ rtc_open(t)
                            \/ \E freq \in Freqs : rtc_write(t, freq)
                            \/ ReadCall(t) \/ SpinExit(t) \/ ReadReturn(t)

Spec == Init /\ [][Next]_vars

\* Both clocks go on ticking, and a quantum is long enough for the process that
\* has the CPU to make a step of rtc_read.
Fairness == /\ WF_vars(rtc_interrupt) /\ WF_vars(scheduler)
            /\ \A t \in Terms : SF_vars(SpinExit(t) \/ ReadReturn(t))

FairSpec == Spec /\ Fairness

-----------------------------------------------------------------------------
(***************************************************************************)
(* Properties                                                              *)
(***************************************************************************)

\* Type invariant; in particular no upper bound is zero or out of reach.
RtcTypeOK ==
    /\ rtc_interrupt_counter  \in [Terms -> 0 .. MaxCount]
    /\ rtc_counter_upperbound \in [Terms -> 1 .. MaxCount]
    /\ running_term \in Terms
    /\ pc \in [Terms -> {"user", "spin", "reset"}]
    /\ since  \in [Terms -> 0 .. MaxCount]

\* The rate is never exceeded: two reads of a terminal do not return less than
\* one period of its frequency apart, however late the first one returned.
ReadsPaced ==
    \A t \in Terms : pc[t] = "reset" => since[t] >= rtc_counter_upperbound[t]

\* Every rtc_read returns, however the clock and the scheduler interleave.
ReadsAnswered == \A t \in Terms : pc[t] = "spin" ~> pc[t] = "user"
=============================================================================
