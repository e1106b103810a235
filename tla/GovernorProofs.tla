--------------------------- MODULE GovernorProofs ---------------------------
(***************************************************************************)
(* Proofs about the application governor (Governor): type correctness,   *)
(* and that the publication history and the stop event obey the          *)
(* lifecycle for every value of the constants.                             *)
(***************************************************************************)
EXTENDS Governor, SequenceTheorems, TLAPS

(***************************************************************************)
(* GovIInv strengthens the checked invariants: before run() no tick has   *)
(* been published, which Lifecycle needs when Run starts the tick count.  *)
(***************************************************************************)
TicksBeforeRun == phase \in {"init", "initialized"} => ticks = 0

GovIInv == GovTypeOK /\ Lifecycle /\ ExitOnlyOnStop /\ TicksBeforeRun

\* The governor's type: every step keeps each variable in its set.
LEMMA GovTypeStep == GovTypeOK /\ [GovNext]_govVars => GovTypeOK'
<1> SUFFICES ASSUME GovTypeOK, [GovNext]_govVars PROVE GovTypeOK'
  OBVIOUS
<1> USE GovernorAssumption DEF GovTypeOK, Phases, Topics
<1>1. CASE InitTimeGovernor
  BY <1>1, AppendProperties DEF InitTimeGovernor
<1>2. CASE Run
  BY <1>2, AppendProperties DEF Run
<1>3. CASE Tick
  BY <1>3, AppendProperties DEF Tick
<1>4. CASE StopObservedByRun
  BY <1>4 DEF StopObservedByRun
<1>5. CASE ExitTimeGovernor
  BY <1>5, AppendProperties DEF ExitTimeGovernor
<1>6. CASE Stop
  BY <1>6 DEF Stop
<1>7. ASSUME NEW n \in ServiceNames, NEW s \in ServiceObjects,
             RegisterService(n, s)
      PROVE GovTypeOK'
  BY <1>7 DEF RegisterService
<1>8. ASSUME NEW c \in ModuleClasses, AddModule(c) PROVE GovTypeOK'
  BY <1>8, AppendProperties DEF AddModule
<1>9. CASE UNCHANGED govVars
  BY <1>9 DEF govVars
<1>10. QED
  BY <1>1, <1>2, <1>3, <1>4, <1>5, <1>6, <1>7, <1>8, <1>9 DEF GovNext

\* The initial state of __init__ is well typed.
LEMMA GovTypeInit == GovInit => GovTypeOK
<1> SUFFICES ASSUME GovInit PROVE GovTypeOK
  OBVIOUS
<1>1. << >> \in Seq(Topics) /\ << >> \in Seq(ModuleClasses) /\ Len(<< >>) = 0
  BY EmptySeq
<1>2. phase \in Phases
  BY DEF GovInit, Phases
<1>6. stopEvent \in BOOLEAN
  BY DEF GovInit
<1>7. ticks \in 0..MaxTicks
  BY GovernorAssumption DEF GovInit
<1>3. services \in [ServiceNames -> ServiceObjects \cup {NoService}]
  BY DEF GovInit
<1>4. published \in Seq(Topics) /\ modules \in Seq(ModuleClasses)
      /\ Len(modules) <= MaxModules
  BY <1>1, GovernorAssumption DEF GovInit
<1>5. QED
  BY <1>2, <1>3, <1>4, <1>6, <1>7 DEF GovTypeOK

(***************************************************************************)
(* GovTypeCorrect: in every behaviour of the governor each variable keeps *)
(* its type: phase is one of the five positions of application.py, the   *)
(* tick count stays within its bound, only the four lifecycle topics are *)
(* published.                                                              *)
(***************************************************************************)
THEOREM GovTypeCorrect == GovSpec => []GovTypeOK
  BY GovTypeInit, GovTypeStep, PTL DEF GovSpec

(***************************************************************************)
(* Appending the topic the lifecycle expects next keeps the history       *)
(* consistent, provided the earlier positions expect the same topics in   *)
(* the new phase.                                                          *)
(***************************************************************************)
LEMMA LifecycleAppend ==
  ASSUME NEW ph, NEW ph2, NEW seq \in Seq(Topics), NEW t \in Topics,
         \A i \in 1..Len(seq) : seq[i] = ExpectedTopic(ph, Len(seq), i),
         \A i \in 1..Len(seq) :
            ExpectedTopic(ph2, Len(seq) + 1, i) = ExpectedTopic(ph, Len(seq), i),
         t = ExpectedTopic(ph2, Len(seq) + 1, Len(seq) + 1)
  PROVE  \A i \in 1..Len(Append(seq, t)) :
            Append(seq, t)[i] = ExpectedTopic(ph2, Len(Append(seq, t)), i)
BY AppendProperties

\* Positions below the last one expect the same topic in every phase but
\* "closed", whatever the length of the history.
LEMMA ExpectedTopicOpen ==
  ASSUME NEW ph, NEW ph2, NEW len \in Nat, NEW i \in 1..len,
         ph # "closed", ph2 # "closed" \/ i # len + 1
  PROVE  ExpectedTopic(ph2, len + 1, i) = ExpectedTopic(ph, len, i)
BY DEF ExpectedTopic

LEMMA GovIInvInit == GovInit => GovIInv
<1> SUFFICES ASSUME GovInit PROVE GovIInv
  OBVIOUS
<1>1. GovTypeOK
  BY GovTypeInit
<1>2. Len(published) = 0
  BY EmptySeq DEF GovInit
<1>3. QED
  BY <1>1, <1>2 DEF GovInit, GovIInv, Lifecycle, ExpectedLength,
                    ExitOnlyOnStop, TicksBeforeRun

LEMMA GovIInvStep == GovIInv /\ [GovNext]_govVars => GovIInv'
<1> SUFFICES ASSUME GovIInv, [GovNext]_govVars PROVE GovIInv'
  OBVIOUS
<1>0. GovTypeOK'
  BY GovTypeStep DEF GovIInv
<1> DEFINE len == Len(published)
<1>a. len \in Nat /\ published \in Seq(Topics) /\ ticks \in Nat
  BY GovernorAssumption DEF GovIInv, GovTypeOK
<1>1. CASE InitTimeGovernor
  <2>1. phase = "init" /\ len = 0 /\ ticks = 0
    BY <1>1 DEF InitTimeGovernor, GovIInv, Lifecycle, ExpectedLength, TicksBeforeRun
  <2>2. Lifecycle'
    BY <1>1, <1>a, <2>1, AppendProperties
       DEF InitTimeGovernor, Lifecycle, ExpectedLength, ExpectedTopic, Topics
  <2>3. QED
    BY <1>0, <1>1, <2>1, <2>2 DEF InitTimeGovernor, GovIInv, ExitOnlyOnStop, TicksBeforeRun
<1>2. CASE Run
  <2>1. phase = "initialized" /\ len = 1 /\ ticks = 0
    BY <1>2 DEF Run, GovIInv, Lifecycle, ExpectedLength, TicksBeforeRun
  <2>2. \A i \in 1..len : published[i] = ExpectedTopic(phase, len, i)
    BY DEF GovIInv, Lifecycle
  <2>3. Lifecycle'
    <3>1. \A i \in 1..len :
             ExpectedTopic("running", len + 1, i) = ExpectedTopic(phase, len, i)
      BY <2>1 DEF ExpectedTopic
    <3>2. "run" = ExpectedTopic("running", len + 1, len + 1)
      BY <2>1 DEF ExpectedTopic
    <3>3. \A i \in 1..Len(Append(published, "run")) :
             Append(published, "run")[i]
               = ExpectedTopic("running", Len(Append(published, "run")), i)
      BY <1>a, <2>2, <3>1, <3>2, LifecycleAppend DEF Topics
    <3>4. Len(Append(published, "run")) = ExpectedLength("running", ticks)
      <4>1. Len(Append(published, "run")) = len + 1
        BY <1>a, AppendProperties DEF Topics
      <4>2. ExpectedLength("running", ticks) = 2 + ticks
        BY DEF ExpectedLength
      <4>3. QED
        BY <1>a, <2>1, <4>1, <4>2
    <3>5. QED
      BY <1>2, <2>1, <3>3, <3>4 DEF Run, Lifecycle
  <2>4. QED
    BY <1>0, <1>2, <2>3 DEF Run, GovIInv, ExitOnlyOnStop, TicksBeforeRun
<1>3. CASE Tick
  <2>1. phase = "running" /\ len = 2 + ticks
    BY <1>3 DEF Tick, GovIInv, Lifecycle, ExpectedLength
  <2>2. \A i \in 1..len : published[i] = ExpectedTopic(phase, len, i)
    BY DEF GovIInv, Lifecycle
  <2>3. Lifecycle'
    <3>1. \A i \in 1..len :
             ExpectedTopic("running", len + 1, i) = ExpectedTopic(phase, len, i)
      <4> TAKE i \in 1..len
      <4>1. i # len + 1
        BY <1>a
      <4>2. QED
        BY <1>a, <2>1, <4>1, ExpectedTopicOpen
    <3>2. "tick" = ExpectedTopic("running", len + 1, len + 1)
      BY <1>a, <2>1 DEF ExpectedTopic
    <3>3. \A i \in 1..Len(Append(published, "tick")) :
             Append(published, "tick")[i]
               = ExpectedTopic("running", Len(Append(published, "tick")), i)
      BY <1>a, <2>1, <2>2, <3>1, <3>2, LifecycleAppend DEF Topics
    <3>4. Len(Append(published, "tick")) = ExpectedLength("running", ticks + 1)
      <4>1. Len(Append(published, "tick")) = len + 1
        BY <1>a, AppendProperties DEF Topics
      <4>2. ExpectedLength("running", ticks + 1) = 2 + (ticks + 1)
        BY DEF ExpectedLength
      <4>3. QED
        BY <1>a, <2>1, <4>1, <4>2
    <3>5. QED
      BY <1>3, <2>1, <3>3, <3>4 DEF Tick, Lifecycle
  <2>4. QED
    BY <1>0, <1>3, <2>3 DEF Tick, GovIInv, ExitOnlyOnStop, TicksBeforeRun
<1>4. CASE StopObservedByRun
  <2>1. Lifecycle'
    BY <1>4 DEF StopObservedByRun, GovIInv, Lifecycle, ExpectedLength, ExpectedTopic
  <2>2. QED
    BY <1>0, <1>4, <2>1 DEF StopObservedByRun, GovIInv, ExitOnlyOnStop, TicksBeforeRun
<1>5. CASE ExitTimeGovernor
  <2>1. phase = "exiting" /\ len = 2 + ticks
    BY <1>5 DEF ExitTimeGovernor, GovIInv, Lifecycle, ExpectedLength
  <2>2. \A i \in 1..len : published[i] = ExpectedTopic(phase, len, i)
    BY DEF GovIInv, Lifecycle
  <2>3. Lifecycle'
    <3>1. \A i \in 1..len :
             ExpectedTopic("closed", len + 1, i) = ExpectedTopic(phase, len, i)
      <4> TAKE i \in 1..len
      <4>1. i # len + 1
        BY <1>a
      <4>2. QED
        BY <1>a, <2>1, <4>1, ExpectedTopicOpen
    <3>2. "exit" = ExpectedTopic("closed", len + 1, len + 1)
      BY <1>a, <2>1 DEF ExpectedTopic
    <3>3. \A i \in 1..Len(Append(published, "exit")) :
             Append(published, "exit")[i]
               = ExpectedTopic("closed", Len(Append(published, "exit")), i)
      BY <1>a, <2>1, <2>2, <3>1, <3>2, LifecycleAppend DEF Topics
    <3>4. Len(Append(published, "exit")) = ExpectedLength("closed", ticks)
      <4>1. Len(Append(published, "exit")) = len + 1
        BY <1>a, AppendProperties DEF Topics
      <4>2. ExpectedLength("closed", ticks) = 3 + ticks
        BY DEF ExpectedLength
      <4>3. QED
        BY <1>a, <2>1, <4>1, <4>2
    <3>5. QED
      BY <1>5, <2>1, <3>3, <3>4 DEF ExitTimeGovernor, Lifecycle
  <2>4. QED
    BY <1>0, <1>5, <2>3 DEF ExitTimeGovernor, GovIInv, ExitOnlyOnStop, TicksBeforeRun
<1>6. CASE Stop
  BY <1>0, <1>6 DEF Stop, GovIInv, Lifecycle, ExitOnlyOnStop, TicksBeforeRun
<1>7. ASSUME NEW n \in ServiceNames, NEW s \in ServiceObjects,
             RegisterService(n, s)
      PROVE GovIInv'
  BY <1>0, <1>7 DEF RegisterService, GovIInv, Lifecycle, ExitOnlyOnStop, TicksBeforeRun
<1>8. ASSUME NEW c \in ModuleClasses, AddModule(c) PROVE GovIInv'
  BY <1>0, <1>8 DEF AddModule, GovIInv, Lifecycle, ExitOnlyOnStop, TicksBeforeRun
<1>9. CASE UNCHANGED govVars
  BY <1>0, <1>9 DEF govVars, GovIInv, Lifecycle, ExitOnlyOnStop, TicksBeforeRun
<1>10. QED
  BY <1>1, <1>2, <1>3, <1>4, <1>5, <1>6, <1>7, <1>8, <1>9 DEF GovNext

(***************************************************************************)
(* GovSafety: in every behaviour, for every bound and registry, the topics *)
(* the governor has published are "init", "run", ticks and finally "exit" *)
(* in that order and each lifecycle topic once (Lifecycle), and the run    *)
(* phase ends only on a stop() that stays visible (ExitOnlyOnStop).        *)
(***************************************************************************)
THEOREM GovSafety == GovSpec => [](Lifecycle /\ ExitOnlyOnStop)
<1>1. GovIInv => Lifecycle /\ ExitOnlyOnStop
  BY DEF GovIInv
<1>2. QED
  BY <1>1, GovIInvInit, GovIInvStep, PTL DEF GovSpec

(***************************************************************************)
(* GovExitOnlyOnStop: for every value of the constants, run() leaves the  *)
(* run-time governor only after stop() has set StopEvent, and StopEvent   *)
(* stays set through the exit governor and the closed loop.               *)
(***************************************************************************)
THEOREM GovExitOnlyOnStop == GovSpec => []ExitOnlyOnStop
<1>1. (Lifecycle /\ ExitOnlyOnStop) => ExitOnlyOnStop
  OBVIOUS
<1>2. QED
  BY <1>1, GovSafety, PTL

=============================================================================
