----------------------------- MODULE TimeWindow -----------------------------
(***************************************************************************)
(* A clock-driven TimeWindowAnalyzer (src/bspump/analyzer/               *)
(* timewindowanalyzer.py) and the Analyzer.process it inherits            *)
(* (src/bspump/analyzer/analyzer.py), over its TimeWindowMatrix.          *)
(*                                                                         *)
(* Time is an integer number of ticks of a fine clock; Resolution is the  *)
(* column width in those units.  The matrix (not under src/, spec.md 4.4)  *)
(* is reduced to what advance() and the events see: `start`, the          *)
(* TimeWindow.Start that advance() compares with the target time, is the  *)
(* upper edge of the newest column, the Columns columns cover             *)
(* [start - Columns*Resolution, start), and add_column() moves the edge   *)
(* one column forward, evicting the oldest one.  advance() only ends if   *)
(* add_column() increases Start, which fixes that direction.               *)
(*                                                                         *)
(* __init__ starts an asab.Timer (not under src/) with period             *)
(* resolution/4; on each firing it restarts itself and runs the _on_tick  *)
(* task, which reads time.time() and advances the window.  A firing may   *)
(* be late by up to Lateness units (a busy loop, the task's scheduling).  *)
(***************************************************************************)
EXTENDS Integers

CONSTANTS
    Resolution,   \* column width, in clock units
    Columns,      \* number of columns of the matrix (tw_dimensions[0])
    MaxEventAge,  \* events processed are at most this old
    Lateness,     \* how late the timer task may run after it is due
    MaxTime,      \* the clock stops here (bound of the model)
    MaxCount      \* bound on the count accumulated in one column

ASSUME TimeWindowAssumption ==
    /\ Resolution \in Nat \ {0}
    /\ Resolution % 4 = 0
    /\ Columns \in Nat \ {0}
    /\ MaxEventAge \in Nat
    /\ Lateness \in Nat
    /\ MaxTime \in Nat
    /\ MaxCount \in Nat

\* Timer.start(resolution / 4) (line 83).
Period == Resolution \div 4

\* No _on_tick task is advancing the window.
NoTarget == -1

VARIABLES
    now,      \* time.time()
    start,    \* TimeWindow.Start: upper edge of the newest column
    counts,   \* the matrix: column (1 = oldest) -> accumulated count
    due,      \* when the timer fires next
    target,   \* target_ts of the running advance(), or NoTarget
    ticked    \* an advance() driven by the timer has completed

twVars == <<now, start, counts, due, target, ticked>>

TwTypeOK ==
    /\ now \in Nat
    /\ start \in Int
    /\ counts \in [1..Columns -> 0..MaxCount]
    /\ due \in Nat
    /\ target \in Nat \cup {NoTarget}
    /\ ticked \in BOOLEAN

(***************************************************************************)
(* __init__ with start_time None: the matrix is built around the current  *)
(* time, its newest column ending somewhere in the next Resolution units; *)
(* the timer is started and first fires one period later.  advance() is  *)
(* not called by __init__.                                                 *)
(***************************************************************************)
TwInit ==
    /\ now = 0
    /\ start \in 1..Resolution
    /\ counts = [c \in 1..Columns |-> 0]
    /\ due = Period
    /\ target = NoTarget
    /\ ticked = FALSE

\* The column of the matrix holding timestamp ts, if the window covers it.
InWindow(ts) == start - Columns * Resolution <= ts /\ ts < start
ColumnOf(ts) == Columns - (start - 1 - ts) \div Resolution

(***************************************************************************)
(* The clock moves on; it never passes the latest moment the timer task   *)
(* runs at.  advance() is synchronous and takes no time on this clock.     *)
(***************************************************************************)
ClockAdvance ==
    /\ target = NoTarget
    /\ now < MaxTime
    /\ now + 1 <= due + Lateness
    /\ now' = now + 1
    /\ UNCHANGED <<start, counts, due, target, ticked>>

(***************************************************************************)
(* The timer fires (autorestart: due again one period later) and the      *)
(* _on_tick task reads target_ts = time.time() and enters advance().      *)
(***************************************************************************)
OnTick ==
    /\ target = NoTarget
    /\ now >= due
    /\ target' = now
    /\ due' = now + Period
    /\ UNCHANGED <<now, start, counts, ticked>>

\* Mutant of MarginReached: the loop breaks at dt >= 0.25.
MarginReachedAtEdge(s, t) == 4 * (s - t) >= Resolution

(***************************************************************************)
(* advance()'s test `dt = (Start - target_ts) / Resolution; if dt > 0.25: *)
(* break`, exact in integers because Resolution is a multiple of 4.       *)
(***************************************************************************)
MarginReached(s, t) == 4 * (s - t) > Resolution

(***************************************************************************)
(* One iteration of advance()'s loop: dt = (Start - target_ts) /          *)
(* Resolution is not above 0.25, so add_column() (the newest column is    *)
(* empty, the oldest one is dropped).                                      *)
(***************************************************************************)
AddColumn ==
    /\ target # NoTarget
    /\ ~MarginReached(start, target)
    /\ start' = start + Resolution
    /\ counts' = [c \in 1..Columns |-> IF c < Columns THEN counts[c + 1] ELSE 0]
    /\ UNCHANGED <<now, due, target, ticked>>

(***************************************************************************)
(* dt > 0.25: the loop breaks and the _on_tick task ends.                 *)
(***************************************************************************)
AdvanceDone ==
    /\ target # NoTarget
    /\ MarginReached(start, target)
    /\ target' = NoTarget
    /\ ticked' = TRUE
    /\ UNCHANGED <<now, start, counts, due>>

\* Mutant of Process: evaluate() is called twice for one event.
ProcessTwice(ts) ==
    /\ target = NoTarget
    /\ InWindow(ts)
    /\ counts[ColumnOf(ts)] < MaxCount
    /\ counts' = [counts EXCEPT ![ColumnOf(ts)] = @ + 2]
    /\ UNCHANGED <<now, start, due, target, ticked>>

(***************************************************************************)
(* Analyzer.process(context, event) for an event stamped ts that the      *)
(* predicate accepts: evaluate() adds it to its column.  An event the     *)
(* predicate rejects, or one outside the window, leaves the matrix as it  *)
(* is, and every event is returned unchanged.  process runs in the        *)
(* pipeline's task, never inside the synchronous advance().               *)
(***************************************************************************)
Process(ts) ==
    /\ target = NoTarget
    /\ InWindow(ts)
    /\ counts[ColumnOf(ts)] < MaxCount
    /\ counts' = [counts EXCEPT ![ColumnOf(ts)] = @ + 1]
    /\ UNCHANGED <<now, start, due, target, ticked>>

RecentTimes == {ts \in 0..now : now - ts <= MaxEventAge}

TwNext ==
    \/ ClockAdvance
    \/ OnTick
    \/ AddColumn
    \/ AdvanceDone
    \/ \E ts \in RecentTimes : Process(ts)

TwSpec == TwInit /\ [][TwNext]_twVars

-----------------------------------------------------------------------------
(***************************************************************************)
(* WindowCoversRecent: once the timer has advanced the window, whenever   *)
(* no advance() is running the window holds a column for the present      *)
(* moment (the margin of advance() covers the timer period) and for       *)
(* every event up to MaxEventAge old (advance() does not run so far ahead *)
(* that it evicts them).                                                   *)
(***************************************************************************)
WindowCoversRecent ==
    ticked /\ target = NoTarget =>
        /\ now < start
        /\ start - Columns * Resolution <= now - MaxEventAge

=============================================================================
