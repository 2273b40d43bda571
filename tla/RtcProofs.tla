------------------------------- MODULE RtcProofs -------------------------------
(***************************************************************************)
(* Proofs about RTC, for every number of terminals and every chip: no      *)
(* accepted frequency gives a bound that is zero or out of reach of the    *)
(* counter, and reads are paced.                                           *)
(***************************************************************************)
EXTENDS RTC, TLAPS

-----------------------------------------------------------------------------
(***************************************************************************)
(* Arithmetic                                                              *)
(***************************************************************************)

\* What a quotient is.
LEMMA Quotient ==
    ASSUME NEW a \in Nat, NEW d \in Nat \ {0}
    PROVE  /\ a \div d \in Nat
           /\ d * (a \div d) <= a
           /\ a < d * ((a \div d) + 1)
BY Z3

\* Products of naturals grow with their factors.
LEMMA ProductGrows ==
    ASSUME NEW a \in Nat, NEW b \in Nat, NEW c \in Nat, NEW d \in Nat,
           a <= c, b <= d
    PROVE  a * b <= c * d
<1>1. a * b <= c * b
  BY Z3
<1>2. c * b <= c * d
  BY Z3
<1>3. QED
  BY <1>1, <1>2

\* A larger divisor gives a smaller quotient, positive up to the dividend.
LEMMA QuotientRange ==
    ASSUME NEW a \in Nat, NEW m \in Nat \ {0}, NEW f \in Nat, m <= f, f <= a
    PROVE  a \div f \in 1 .. a \div m
<1> DEFINE q == a \div f
           p == a \div m
<1>1. /\ q \in Nat /\ f * q <= a /\ a < f * (q + 1)
      /\ p \in Nat /\ a < m * (p + 1)
  BY Quotient
<1> HIDE DEF q, p
<1>2. q # 0
  <2>1. SUFFICES ASSUME q = 0 PROVE FALSE
    OBVIOUS
  <2>2. a < f * 1
    BY <1>1, <2>1
  <2>3. QED
    BY <2>2
<1>3. q <= p
  <2>1. SUFFICES ASSUME p + 1 <= q PROVE FALSE
    BY <1>1
  <2>2. m * (p + 1) <= f * q
    BY <1>1, <2>1, ProductGrows
  <2>3. m * (p + 1) \in Nat /\ f * q \in Nat
    BY <1>1
  <2>4. QED
    BY <1>1, <2>2, <2>3
<1>4. QED
  BY <1>1, <1>2, <1>3 DEF q, p

\* The slowest rate is a bound the counter can reach, and it is not zero.
LEMMA MaxCountPositive == MaxCount \in Nat \ {0}
<1>1. MaxCount \in 1 .. MaxCount
  BY RTCAssumption, QuotientRange DEF MaxCount
<1>2. MaxCount \in Nat
  BY RTCAssumption, Quotient DEF MaxCount
<1>3. QED
  BY <1>1, <1>2

\* Every frequency that rtc_write accepts gives a bound in range.
LEMMA AcceptedBound ==
    ASSUME NEW freq \in Freqs, Accepted(freq)
    PROVE  RTC_MAX_FREQ \div freq \in 1 .. MaxCount
BY RTCAssumption, QuotientRange DEF Accepted, MaxCount

\* The next terminal is a terminal.
LEMMA NextTermOK ==
    ASSUME running_term \in Terms
    PROVE  (running_term % TERM_NUM) + 1 \in Terms
BY RTCAssumption DEF Terms

-----------------------------------------------------------------------------
(***************************************************************************)
(* Types                                                                   *)
(***************************************************************************)

\* RtcTypeOK is inductive: in particular no upper bound is zero, which would let
\* reads return at once, or above what the counter can reach, which would keep
\* them for ever.
THEOREM RtcTypeCorrect == Spec => []RtcTypeOK
<1>1. Init => RtcTypeOK
  BY RTCAssumption, MaxCountPositive DEF Init, RtcTypeOK, Terms
<1>2. RtcTypeOK /\ [Next]_vars => RtcTypeOK'
  <2> SUFFICES ASSUME RtcTypeOK, [Next]_vars PROVE RtcTypeOK'
    OBVIOUS
  <2> USE MaxCountPositive DEF RtcTypeOK, clockVars
  <2>1. CASE rtc_interrupt
    BY <2>1 DEF rtc_interrupt, OneMore
  <2>2. CASE scheduler
    BY <2>2, NextTermOK DEF scheduler
  <2>3. ASSUME NEW t \in Terms, rtc_open(t) PROVE RtcTypeOK'
    BY <2>3 DEF rtc_open
  <2>4. ASSUME NEW t \in Terms, NEW freq \in Freqs, rtc_write(t, freq)
        PROVE  RtcTypeOK'
    BY <2>4, AcceptedBound DEF rtc_write
  <2>5. ASSUME NEW t \in Terms, ReadCall(t) PROVE RtcTypeOK'
    BY <2>5 DEF ReadCall
  <2>6. ASSUME NEW t \in Terms, SpinExit(t) PROVE RtcTypeOK'
    BY <2>6 DEF SpinExit
  <2>7. ASSUME NEW t \in Terms, ReadReturn(t) PROVE RtcTypeOK'
    BY <2>7 DEF ReadReturn, CounterAfterRead
  <2>8. CASE UNCHANGED vars
    BY <2>8 DEF vars
  <2>9. QED
    BY <2>1, <2>2, <2>3, <2>4, <2>5, <2>6, <2>7, <2>8 DEF Next
<1>3. QED
  BY <1>1, <1>2, PTL DEF Spec

-----------------------------------------------------------------------------
(***************************************************************************)
(* Pacing                                                                  *)
(***************************************************************************)

\* The counter never runs ahead of the interrupts that came since the last read,
\* and a reader past its loop has seen as many of them as its bound asks for.
\* Interrupts go on between the two steps of the read, so the second part is
\* kept in terms of the interrupts and not of the counter.
PaceInv ==
    /\ \A t \in Terms : rtc_interrupt_counter[t] <= since[t]
    /\ ReadsPaced

\* Two reads of a terminal are never less than one period apart.
THEOREM PaceTheorem == Spec => []ReadsPaced
<1>1. Init => PaceInv
  BY DEF Init, PaceInv, ReadsPaced
<1>2. RtcTypeOK /\ PaceInv /\ [Next]_vars => PaceInv'
  <2> SUFFICES ASSUME RtcTypeOK, PaceInv, [Next]_vars PROVE PaceInv'
    OBVIOUS
  <2> USE MaxCountPositive DEF RtcTypeOK, PaceInv, ReadsPaced, clockVars
  <2>1. CASE rtc_interrupt
    BY <2>1 DEF rtc_interrupt, OneMore, Counted
  <2>2. CASE scheduler
    BY <2>2 DEF scheduler
  <2>3. ASSUME NEW t \in Terms, rtc_open(t) PROVE PaceInv'
    BY <2>3 DEF rtc_open
  <2>4. ASSUME NEW t \in Terms, NEW freq \in Freqs, rtc_write(t, freq)
        PROVE  PaceInv'
    BY <2>4 DEF rtc_write
  <2>5. ASSUME NEW t \in Terms, ReadCall(t) PROVE PaceInv'
    BY <2>5 DEF ReadCall
  <2>6. ASSUME NEW t \in Terms, SpinExit(t) PROVE PaceInv'
    BY <2>6 DEF SpinExit
  <2>7. ASSUME NEW t \in Terms, ReadReturn(t) PROVE PaceInv'
    BY <2>7 DEF ReadReturn, CounterAfterRead
  <2>8. CASE UNCHANGED vars
    BY <2>8 DEF vars
  <2>9. QED
    BY <2>1, <2>2, <2>3, <2>4, <2>5, <2>6, <2>7, <2>8 DEF Next
<1>3. PaceInv => ReadsPaced
  BY DEF PaceInv
<1>4. QED
  BY <1>1, <1>2, <1>3, RtcTypeCorrect, PTL DEF Spec
=============================================================================
