-------------------------- MODULE TimeWindowProofs --------------------------
(***************************************************************************)
(* Proofs about the clock-driven TimeWindowAnalyzer (TimeWindow): type    *)
(* correctness, and that with an on-time timer the window always covers  *)
(* the present and the recent past, for every resolution, column count    *)
(* and event age the margin of advance() allows.                          *)
(***************************************************************************)
EXTENDS TimeWindow, TLAPS

(***************************************************************************)
(* TwIInv: the clock is frozen while advance() runs, so its target is the *)
(* present and the timer was just restarted; the timer is never overdue  *)
(* by more than Lateness; while idle the window's edge is at most 5/4 of  *)
(* a column ahead, and after an advance it lies between the next firing  *)
(* and one column beyond it.                                               *)
(***************************************************************************)
TwIInv ==
    /\ TwTypeOK
    /\ now <= due + Lateness
    /\ due <= now + Period
    /\ target # NoTarget => /\ target = now
                            /\ due = now + Period
                            /\ 4 * (start - target) <= 5 * Resolution
    /\ target = NoTarget => 4 * (start - now) <= 5 * Resolution
    /\ ticked /\ target = NoTarget => due < start /\ start <= due + Resolution

\* Four periods make a column, since Resolution is a multiple of 4.
LEMMA PeriodFacts == Period \in Nat /\ 4 * Period = Resolution
  BY TimeWindowAssumption DEF Period

\* The initial states of __init__ satisfy the invariant.
LEMMA TwIInvInit == TwInit => TwIInv
<1> SUFFICES ASSUME TwInit PROVE TwIInv
  OBVIOUS
<1>1. TwTypeOK
  <2>1. counts \in [1..Columns -> 0..MaxCount]
    BY TimeWindowAssumption DEF TwInit
  <2>2. now \in Nat /\ start \in Int /\ due \in Nat
    BY TimeWindowAssumption, PeriodFacts DEF TwInit
  <2>3. target \in Nat \cup {NoTarget} /\ ticked \in BOOLEAN
    BY DEF TwInit
  <2>4. QED
    BY <2>1, <2>2, <2>3 DEF TwTypeOK
<1>2. 4 * (start - now) <= 5 * Resolution
  BY TimeWindowAssumption DEF TwInit
<1>3. QED
  BY <1>1, <1>2, PeriodFacts, TimeWindowAssumption DEF TwInit, TwIInv, NoTarget

\* Every step keeps the invariant.
LEMMA TwIInvStep == TwIInv /\ [TwNext]_twVars => TwIInv'
<1> SUFFICES ASSUME TwIInv, [TwNext]_twVars PROVE TwIInv'
  OBVIOUS
<1> USE TimeWindowAssumption, PeriodFacts DEF TwIInv, TwTypeOK, NoTarget
<1>1. CASE ClockAdvance
  BY <1>1 DEF ClockAdvance
<1>2. CASE OnTick
  BY <1>2 DEF OnTick
<1>3. CASE AddColumn
  <2>1. counts' \in [1..Columns -> 0..MaxCount]
    BY <1>3 DEF AddColumn
  <2>2. 4 * (start' - target') <= 5 * Resolution
    BY <1>3 DEF AddColumn, MarginReached
  <2>3. QED
    BY <1>3, <2>1, <2>2 DEF AddColumn
<1>4. CASE AdvanceDone
  <2>1. due < start /\ start <= due + Resolution
    BY <1>4 DEF AdvanceDone, MarginReached
  <2>2. QED
    BY <1>4, <2>1 DEF AdvanceDone
<1>5. ASSUME NEW ts \in RecentTimes, Process(ts) PROVE TwIInv'
  <2> DEFINE k == ColumnOf(ts)
  <2>1. counts' \in [1..Columns -> 0..MaxCount]
    <3>1. CASE k \in 1..Columns
      BY <1>5, <3>1 DEF Process
    <3>2. CASE k \notin 1..Columns
      BY <1>5, <3>2 DEF Process
    <3>3. QED
      BY <3>1, <3>2
  <2>2. QED
    BY <1>5, <2>1 DEF Process
<1>6. CASE UNCHANGED twVars
  BY <1>6 DEF twVars
<1>7. QED
  BY <1>1, <1>2, <1>3, <1>4, <1>5, <1>6 DEF TwNext

(***************************************************************************)
(* TwTypeCorrect: in every behaviour the counts stay within their bound,  *)
(* the timer's due time and advance()'s target are clock readings.        *)
(***************************************************************************)
THEOREM TwTypeCorrect == TwSpec => []TwTypeOK
<1>1. TwIInv => TwTypeOK
  BY DEF TwIInv
<1>2. QED
  BY TwIInvInit, TwIInvStep, <1>1, PTL DEF TwSpec

(***************************************************************************)
(* With a timer that is never late, the invariant gives both edges of     *)
(* the window: the present is before the edge because the timer fires    *)
(* before the clock passes it, and the oldest column reaches back         *)
(* MaxEventAge because the edge is at most a column and a period ahead.   *)
(***************************************************************************)
LEMMA CoversFromIInv ==
  ASSUME Lateness = 0,
         4 * MaxEventAge <= (4 * Columns - 5) * Resolution
  PROVE  TwIInv => WindowCoversRecent
<1> SUFFICES ASSUME TwIInv, ticked, target = NoTarget
             PROVE  /\ now < start
                    /\ start - Columns * Resolution <= now - MaxEventAge
  BY DEF WindowCoversRecent
<1> USE TimeWindowAssumption, PeriodFacts DEF TwIInv, TwTypeOK
<1>1. now < start
  OBVIOUS
<1>2. start <= now + Period + Resolution
  OBVIOUS
<1>3. (4 * Columns - 5) * Resolution = 4 * (Columns * Resolution) - 5 * Resolution
  OBVIOUS
<1>4. start - Columns * Resolution <= now - MaxEventAge
  BY <1>2, <1>3
<1>5. QED
  BY <1>1, <1>4

(***************************************************************************)
(* WindowCovered: advance()'s 25% margin makes a timer at a quarter of    *)
(* the resolution enough, provided the timer task is never late: then    *)
(* every event stamped with the present, or up to (Columns - 5/4)         *)
(* columns in the past, finds its column, for every resolution and        *)
(* column count.  MCTimeWindowLate shows the proviso is needed.           *)
(***************************************************************************)
THEOREM WindowCovered ==
  ASSUME Lateness = 0,
         4 * MaxEventAge <= (4 * Columns - 5) * Resolution
  PROVE  TwSpec => []WindowCoversRecent
<1>1. TwIInv => WindowCoversRecent
  BY CoversFromIInv
<1>2. QED
  BY TwIInvInit, TwIInvStep, <1>1, PTL DEF TwSpec

=============================================================================
