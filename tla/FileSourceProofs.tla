-------------------------- MODULE FileSourceProofs --------------------------
(***************************************************************************)
(* Proofs about FileSource: type correctness, the exclusiveness of the    *)
(* "-locked" rename, and that the sources implement FileClaims, for any   *)
(* number of sources and files and any 'post' configuration.              *)
(***************************************************************************)
EXTENDS FileSource, GovernorProofs, FiniteSetTheorems, TLAPS

\* No source subscribes its health check to the governor's "tick".
LEMMA NoTickSubscribers == TickSubscribers = {}
BY DEF TickSubscribers, HealthCheckTopic

\* A health check leaves a pending task as it is and starts none that is
\* already reading: it never changes who reads which file.
LEMMA HealthCheckKeepsReaders ==
    ASSUME NEW s \in Sources, NEW f \in Files \cup {NoFile}
    PROVE  /\ HealthCheckFuture(s, f) = "reading" <=> future[s] = "reading"
           /\ future[s] = "reading" => HealthCheckTarget(s, f) = target[s]
BY DEF HealthCheckFuture, HealthCheckTarget, Pending

(***************************************************************************)
(* Every step of the composition is a governor step or leaves the         *)
(* governor unchanged: the only governor variable a source touches is     *)
(* StopEvent, set by post "stop" while the loop runs, which is stop().    *)
(***************************************************************************)
LEMMA FsGovStep ==
    ASSUME FsNext
    PROVE  [GovNext]_govVars
<1>1. CASE GovernorStep
    BY <1>1 DEF GovernorStep, GovNext
<1>2. ASSUME NEW s \in Sources, SourceStep(s) PROVE [GovNext]_govVars
    <2>1. CASE ReadSucceeded(s)
        <3>1. CASE stopEvent' = TRUE /\ UNCHANGED <<phase, ticks, published, services, modules>>
            BY <2>1, <3>1 DEF ReadSucceeded, SourceLoop, Stop, LoopRunning, GovNext
        <3>2. CASE UNCHANGED govVars
            BY <3>2 DEF govVars
        <3>3. QED
            BY <2>1, <3>1, <3>2 DEF ReadSucceeded
    <2>2. QED
        BY <1>2, <2>1 DEF SourceStep, StartSource, ScheduledHealthCheck, LockFile,
                          ReadFailed, PipelineReady, StageError, govVars
<1>3. ASSUME NEW f \in Files, FileArrives(f) PROVE [GovNext]_govVars
    BY <1>3 DEF FileArrives, govVars
<1>4. QED
    BY <1>1, <1>2, <1>3 DEF FsNext

-----------------------------------------------------------------------------
LEMMA FsTypeInit ==
    FsInit => FsTypeOK
BY GovTypeInit, FileSourceAssumption DEF FsInit, FsTypeOK, DiskNames, FutureStates

\* The source variables keep their types in every source step.
LEMMA SrcTypeStep ==
    ASSUME FsTypeOK, NEW s \in Sources, SourceStep(s)
    PROVE  /\ disk' \in [Files -> DiskNames]
           /\ pipeline' \in [Sources -> {"built", "ready", "error"}]
           /\ started' \in [Sources -> BOOLEAN]
           /\ future' \in [Sources -> FutureStates]
           /\ target' \in [Sources -> Files \cup {NoFile}]
           /\ rescan' \in [Sources -> BOOLEAN]
           /\ reads' \in [Files -> 0..2]
<1> USE DEF FsTypeOK, DiskNames, FutureStates
<1>1. ASSUME NEW f \in Files \cup {NoFile}
      PROVE  /\ HealthCheckFuture(s, f) \in FutureStates
             /\ HealthCheckTarget(s, f) \in Files \cup {NoFile}
    BY DEF HealthCheckFuture, HealthCheckTarget, Pending
<1>2. CASE StartSource(s)
    BY <1>1, <1>2 DEF StartSource, HealthCheck
<1>3. CASE ScheduledHealthCheck(s)
    BY <1>1, <1>3 DEF ScheduledHealthCheck, HealthCheck
<1>4. CASE LockFile(s)
    BY <1>4 DEF LockFile
<1>5. CASE ReadSucceeded(s)
    <2>1. /\ reads' \in [Files -> 0..2]
          /\ future' \in [Sources -> FutureStates]
          /\ UNCHANGED <<started, target>>
        <3>1. CASE target[s] \in Files
            BY <1>5, <3>1 DEF ReadSucceeded
        <3>2. CASE target[s] \notin Files
            <4>1. reads' = reads
                BY <1>5, <3>2 DEF ReadSucceeded
            <4>2. QED
                BY <1>5, <4>1 DEF ReadSucceeded
        <3>3. QED
            BY <3>1, <3>2
    <2>2. /\ disk' \in [Files -> DiskNames]
          /\ pipeline' \in [Sources -> {"built", "ready", "error"}]
          /\ rescan' \in [Sources -> BOOLEAN]
        BY <1>5 DEF ReadSucceeded, govVars
    <2>3. QED
        BY <2>1, <2>2
<1>6. CASE ReadFailed(s)
    BY <1>6 DEF ReadFailed
<1>7. CASE PipelineReady(s) \/ StageError(s)
    BY <1>7 DEF PipelineReady, StageError
<1>8. QED
    BY <1>2, <1>3, <1>4, <1>5, <1>6, <1>7 DEF SourceStep


\* A governor step leaves the sources' variables as they are: the fan-out
\* of "tick" has no subscriber among them.
LEMMA GovernorStepKeepsSources ==
    ASSUME FsTypeOK, GovernorStep
    PROVE  UNCHANGED srcVars
<1>1. CASE Tick /\ TickFanOut
    <2>1. PICK pick \in [TickSubscribers -> Files \cup {NoFile}] :
                /\ future' = [t \in Sources |->
                                IF t \in TickSubscribers THEN HealthCheckFuture(t, pick[t])
                                ELSE future[t]]
                /\ target' = [t \in Sources |->
                                IF t \in TickSubscribers THEN HealthCheckTarget(t, pick[t])
                                ELSE target[t]]
                /\ UNCHANGED <<disk, pipeline, started, rescan, reads>>
        BY <1>1 DEF TickFanOut
    <2>2. future' = future /\ target' = target
        BY <2>1, NoTickSubscribers DEF FsTypeOK
    <2>3. QED
        BY <2>1, <2>2 DEF srcVars
<1>2. QED
    BY <1>1 DEF GovernorStep

LEMMA FsTypeStep ==
    FsTypeOK /\ [FsNext]_vars => FsTypeOK'
<1> SUFFICES ASSUME FsTypeOK, [FsNext]_vars PROVE FsTypeOK'
    OBVIOUS
<1>1. GovTypeOK'
    <2>1. CASE FsNext
        BY <2>1, FsGovStep, GovTypeStep DEF FsTypeOK
    <2>2. CASE UNCHANGED vars
        BY <2>2, GovTypeStep DEF vars, FsTypeOK
    <2>3. QED
        BY <2>1, <2>2
<1>2. CASE GovernorStep
    BY <1>1, <1>2, GovernorStepKeepsSources DEF FsTypeOK, srcVars
<1>3. ASSUME NEW s \in Sources, SourceStep(s) PROVE FsTypeOK'
    BY <1>1, <1>3, SrcTypeStep DEF FsTypeOK
<1>4. ASSUME NEW f \in Files, FileArrives(f) PROVE FsTypeOK'
    BY <1>1, <1>4 DEF FileArrives, FsTypeOK, DiskNames
<1>5. CASE UNCHANGED vars
    BY <1>1, <1>5 DEF vars, srcVars, FsTypeOK
<1>6. QED
    BY <1>2, <1>3, <1>4, <1>5 DEF FsNext

\* Type correctness of the composition of the governor and the sources.
THEOREM FsTypeCorrect == FsSpec => []FsTypeOK
BY FsTypeInit, FsTypeStep, PTL DEF FsSpec

-----------------------------------------------------------------------------
(***************************************************************************)
(* The inductive invariant behind ExclusiveRead.  ExclusiveRead speaks of *)
(* the sources reading a file; it is preserved because a source starts    *)
(* reading only in the step that renames the file from its own name to    *)
(* -locked, which no other reader's file has.  That needs three facts per *)
(* source: a pending task was started for a real file (a health check    *)
(* starts one only when _glob_scan found a file), a reading task's file  *)
(* is locked, and two reading tasks read different files.                 *)
(***************************************************************************)
PendingTarget ==
    \A s \in Sources : future[s] \in Pending => target[s] \in Files

ReadersLocked ==
    \A s \in Sources : future[s] = "reading" => disk[target[s]] = "locked"

OneReader ==
    \A s, t \in Sources :
        (/\ future[s] = "reading" /\ future[t] = "reading"
         /\ target[s] = target[t]) => s = t

FsIInv == FsTypeOK /\ PendingTarget /\ ReadersLocked /\ OneReader

LEMMA FsIInvInit == FsInit => FsIInv
BY FsTypeInit DEF FsInit, FsIInv, PendingTarget, ReadersLocked, OneReader, Pending

\* The three conjuncts hold after every step of source s.
LEMMA SourceStepKeepsLocks ==
    ASSUME FsIInv, NEW s \in Sources, SourceStep(s)
    PROVE  (PendingTarget /\ ReadersLocked /\ OneReader)'
<1> USE DEF FsIInv, FsTypeOK, PendingTarget, ReadersLocked, OneReader, Pending
<1>1. CASE StartSource(s) \/ ScheduledHealthCheck(s)
    <2>1. PICK f \in Files \cup {NoFile} :
                /\ GlobScan(f)
                /\ future' = [future EXCEPT ![s] = HealthCheckFuture(s, f)]
                /\ target' = [target EXCEPT ![s] = HealthCheckTarget(s, f)]
        BY <1>1 DEF StartSource, ScheduledHealthCheck, HealthCheck
    <2>2. UNCHANGED disk
        BY <1>1 DEF StartSource, ScheduledHealthCheck
    <2>3. HealthCheckFuture(s, f) \in Pending => HealthCheckTarget(s, f) \in Files
        BY DEF HealthCheckFuture, HealthCheckTarget
    <2>4. QED
        BY <2>1, <2>2, <2>3, HealthCheckKeepsReaders
<1>2. CASE LockFile(s)
    <2> DEFINE f == target[s]
    <2>1. f \in Files /\ future[s] = "await_ready"
        BY <1>2 DEF LockFile
    <2>2. \A t \in Sources : future[t] = "reading" => target[t] # f \/ disk[f] # "present"
        OBVIOUS
    <2>3. QED
        BY <1>2, <2>1, <2>2 DEF LockFile
<1>3. CASE ReadSucceeded(s)
    BY <1>3 DEF ReadSucceeded
<1>4. CASE ReadFailed(s)
    BY <1>4 DEF ReadFailed
<1>5. CASE PipelineReady(s) \/ StageError(s)
    BY <1>5 DEF PipelineReady, StageError
<1>6. QED
    BY <1>1, <1>2, <1>3, <1>4, <1>5 DEF SourceStep

LEMMA FsIInvStep == FsIInv /\ [FsNext]_vars => FsIInv'
<1> SUFFICES ASSUME FsIInv, [FsNext]_vars PROVE FsIInv'
    OBVIOUS
<1>1. FsTypeOK'
    BY FsTypeStep DEF FsIInv
<1>2. CASE GovernorStep
    BY <1>1, <1>2, GovernorStepKeepsSources
       DEF FsIInv, srcVars, PendingTarget, ReadersLocked, OneReader
<1>3. ASSUME NEW s \in Sources, SourceStep(s) PROVE FsIInv'
    BY <1>1, <1>3, SourceStepKeepsLocks DEF FsIInv
<1>4. ASSUME NEW f \in Files, FileArrives(f) PROVE FsIInv'
    BY <1>1, <1>4 DEF FileArrives, FsIInv, FsTypeOK, PendingTarget, ReadersLocked, OneReader
<1>5. CASE UNCHANGED vars
    BY <1>1, <1>5 DEF vars, srcVars, FsIInv, PendingTarget, ReadersLocked, OneReader
<1>6. QED
    BY <1>2, <1>3, <1>4, <1>5 DEF FsNext

\* At most one source reads a file, and only under its -locked name.
LEMMA FsIInvExclusive == FsIInv => ExclusiveRead
<1> SUFFICES ASSUME FsIInv, NEW f \in Files
             PROVE  /\ Cardinality(Readers(f)) <= 1
                    /\ Readers(f) # {} => disk[f] = "locked"
    BY DEF ExclusiveRead
<1>1. Readers(f) = {} \/ \E s \in Sources : Readers(f) = {s}
    BY DEF FsIInv, OneReader, Readers
<1>2. Cardinality(Readers(f)) <= 1
    BY <1>1, FS_EmptySet, FS_Singleton
<1>3. Readers(f) # {} => disk[f] = "locked"
    BY DEF FsIInv, ReadersLocked, Readers
<1>4. QED
    BY <1>2, <1>3

(***************************************************************************)
(* The "-locked" rename is a lock, for any number of sources and files,  *)
(* whatever each source's 'post' value and whether or not renames, opens, *)
(* reads and stages fail: at most one source reads a file, and only while *)
(* it carries the -locked name.                                            *)
(***************************************************************************)
THEOREM ExclusiveReadHolds == FsSpec => []ExclusiveRead
<1>1. FsInit => FsIInv
    BY FsIInvInit
<1>2. FsIInv /\ [FsNext]_vars => FsIInv'
    BY FsIInvStep
<1>3. FsIInv => ExclusiveRead
    BY FsIInvExclusive
<1>4. QED
    BY <1>1, <1>2, <1>3, PTL DEF FsSpec

-----------------------------------------------------------------------------
(***************************************************************************)
(* Refinement of FileClaims.  NameBar and HolderBar are the state         *)
(* functions FC substitutes for FileClaims' name and holder.              *)
(***************************************************************************)
NameBar == [f \in Files |-> ClaimName(disk[f])]
HolderBar == [f \in Files |-> Readers(f)]

\* Renaming one file changes the abstract name of that file only.
LEMMA NameBarExcept ==
    ASSUME FsTypeOK, NEW f \in Files, NEW d, disk' = [disk EXCEPT ![f] = d]
    PROVE  NameBar' = [NameBar EXCEPT ![f] = ClaimName(d)]
BY DEF FsTypeOK, NameBar

\* Readers changing for one file change the abstract holder of that file.
LEMMA HolderBarExcept ==
    ASSUME NEW f \in Files, NEW h,
           \A g \in Files : Readers(g)' = IF g = f THEN h ELSE Readers(g)
    PROVE  HolderBar' = [HolderBar EXCEPT ![f] = h]
BY DEF HolderBar

\* A step that starts or ends no read leaves every holder as it is.
LEMMA HolderBarUnchanged ==
    ASSUME \A t \in Sources :
              /\ future'[t] = "reading" <=> future[t] = "reading"
              /\ future[t] = "reading" => target'[t] = target[t]
    PROVE  HolderBar' = HolderBar
<1>1. \A g \in Files : Readers(g)' = Readers(g)
    BY DEF Readers
<1>2. QED
    BY <1>1 DEF HolderBar

LEMMA ClaimsInitMapped == FsInit => FC!ClaimsInit
<1> SUFFICES ASSUME FsInit
             PROVE  /\ NameBar \in [Files -> {"absent", "visible"}]
                    /\ HolderBar = [f \in Files |-> {}]
    BY DEF FC!ClaimsInit, NameBar, HolderBar
<1>1. NameBar \in [Files -> {"absent", "visible"}]
    BY DEF FsInit, NameBar, ClaimName
<1>2. \A f \in Files : Readers(f) = {}
    BY DEF FsInit, Readers
<1>3. QED
    BY <1>1, <1>2 DEF HolderBar

\* The FileClaims steps, in terms of NameBar and HolderBar.
LEMMA ClaimMapped ==
    ASSUME NEW s \in Sources, NEW f \in Files, NEW h \in {{s}, {}},
           NameBar[f] = "visible",
           \A g \in Files : s \notin HolderBar[g],
           NameBar' = [NameBar EXCEPT ![f] = "claimed"],
           HolderBar' = [HolderBar EXCEPT ![f] = h]
    PROVE  FC!ClaimsNext
<1>1. FC!Claim(s, f)
    BY DEF FC!Claim, FC!Idle, NameBar, HolderBar
<1>2. QED
    BY <1>1 DEF FC!ClaimsNext

LEMMA ReleaseMapped ==
    ASSUME NEW s \in Sources, NEW f \in Files,
           NEW n \in {"done", "failed", "visible", "claimed"},
           s \in HolderBar[f],
           NameBar' = [NameBar EXCEPT ![f] = n],
           HolderBar' = [HolderBar EXCEPT ![f] = {}]
    PROVE  FC!ClaimsNext
<1>1. FC!Release(s, f)
    BY DEF FC!Release, NameBar, HolderBar
<1>2. QED
    BY <1>1 DEF FC!ClaimsNext

LEMMA StutterMapped ==
    ASSUME NameBar' = NameBar, HolderBar' = HolderBar
    PROVE  UNCHANGED FC!claimVars
BY DEF FC!claimVars, NameBar, HolderBar

\* LockFile is a FileClaims Claim when it renames the file, else a stutter.
LEMMA LockFileMapped ==
    ASSUME FsIInv, FsTypeOK', NEW s \in Sources, LockFile(s)
    PROVE  [FC!ClaimsNext]_FC!claimVars
<1> DEFINE f == target[s]
<1> USE DEF FsIInv, FsTypeOK
<1>1. /\ f \in Files
      /\ future[s] = "await_ready"
      /\ UNCHANGED target
      /\ \A t \in Sources \ {s} : future'[t] = future[t]
    BY DEF LockFile, PendingTarget, Pending
<1>2. \A t \in Sources : future[t] = "reading" /\ target[t] = f => disk[f] = "locked"
    BY DEF ReadersLocked
<1>3. CASE disk' = disk /\ future'[s] = "ok"
    <2>1. HolderBar' = HolderBar
        BY <1>1, <1>3, HolderBarUnchanged
    <2>2. NameBar' = NameBar
        BY <1>3 DEF NameBar
    <2>3. QED
        BY <2>1, <2>2, StutterMapped
<1>4. CASE disk[f] = "present" /\ disk' = [disk EXCEPT ![f] = "locked"]
      /\ future'[s] = "reading"
    <2>1. \A g \in Files : Readers(g)' = IF g = f THEN {s} ELSE Readers(g)
        BY <1>1, <1>2, <1>4 DEF Readers
    <2>2. HolderBar' = [HolderBar EXCEPT ![f] = {s}]
        BY <1>1, <2>1, HolderBarExcept
    <2>3. NameBar' = [NameBar EXCEPT ![f] = "claimed"]
        BY <1>1, <1>4, NameBarExcept DEF ClaimName
    <2>4. NameBar[f] = "visible" /\ \A g \in Files : s \notin HolderBar[g]
        BY <1>1, <1>4 DEF NameBar, ClaimName, HolderBar, Readers
    <2>5. QED
        BY <1>1, <2>2, <2>3, <2>4, ClaimMapped
<1>5. CASE disk[f] = "present" /\ disk' = [disk EXCEPT ![f] = "locked"]
      /\ future'[s] = "ok"
    <2>1. \A g \in Files : Readers(g)' = IF g = f THEN {} ELSE Readers(g)
        BY <1>1, <1>2, <1>5 DEF Readers
    <2>2. HolderBar' = [HolderBar EXCEPT ![f] = {}]
        BY <1>1, <2>1, HolderBarExcept
    <2>3. NameBar' = [NameBar EXCEPT ![f] = "claimed"]
        BY <1>1, <1>5, NameBarExcept DEF ClaimName
    <2>4. NameBar[f] = "visible" /\ \A g \in Files : s \notin HolderBar[g]
        BY <1>1, <1>5 DEF NameBar, ClaimName, HolderBar, Readers
    <2>5. QED
        BY <1>1, <2>2, <2>3, <2>4, ClaimMapped
<1>6. QED
    BY <1>3, <1>4, <1>5 DEF LockFile

\* A read ending, whatever it renames its file to, is a Release.
LEMMA ReadEndMapped ==
    ASSUME FsIInv, FsTypeOK', NEW s \in Sources,
           future[s] = "reading", future'[s] \in {"ok", "raised"},
           \A t \in Sources \ {s} : future'[t] = future[t],
           UNCHANGED target,
           NEW d \in {"deleted", "present", "processed", "failed", "locked"},
           disk' = [disk EXCEPT ![target[s]] = d]
    PROVE  FC!ClaimsNext
<1> DEFINE f == target[s]
<1> USE DEF FsIInv, FsTypeOK
<1>1. f \in Files /\ disk[f] = "locked"
    BY DEF PendingTarget, ReadersLocked, Pending
<1>2. \A t \in Sources : future[t] = "reading" /\ target[t] = f => t = s
    BY DEF OneReader
<1>3. \A g \in Files : Readers(g)' = IF g = f THEN {} ELSE Readers(g)
    BY <1>2 DEF Readers
<1>4. HolderBar' = [HolderBar EXCEPT ![f] = {}]
    BY <1>1, <1>3, HolderBarExcept
<1>5. NameBar' = [NameBar EXCEPT ![f] = ClaimName(d)]
    BY <1>1, NameBarExcept
<1>6. ClaimName(d) \in {"done", "failed", "visible", "claimed"}
    BY DEF ClaimName
<1>7. s \in HolderBar[f]
    BY <1>1 DEF HolderBar, Readers
<1>8. QED
    BY <1>1, <1>4, <1>5, <1>6, <1>7, ReleaseMapped

LEMMA ReadSucceededMapped ==
    ASSUME FsIInv, FsTypeOK', NEW s \in Sources, ReadSucceeded(s)
    PROVE  FC!ClaimsNext
<1> DEFINE f == target[s]
<1>1. /\ future[s] = "reading" /\ future'[s] = "ok"
      /\ \A t \in Sources \ {s} : future'[t] = future[t]
      /\ UNCHANGED target
    BY DEF ReadSucceeded, FsIInv, FsTypeOK
<1>2. f \in Files /\ disk[f] = "locked"
    BY <1>1 DEF FsIInv, ReadersLocked, PendingTarget, Pending
<1>3. \E d \in {"deleted", "present", "processed", "failed", "locked"} :
          disk' = [disk EXCEPT ![f] = d]
    <2>1. CASE UNCHANGED disk
        <3>1. disk' = [disk EXCEPT ![f] = "locked"]
            BY <1>2, <2>1 DEF FsIInv, FsTypeOK
        <3>2. QED
            BY <3>1
    <2>2. QED
        BY <2>1 DEF ReadSucceeded
<1>4. QED
    BY <1>1, <1>3, ReadEndMapped

LEMMA ReadFailedMapped ==
    ASSUME FsIInv, FsTypeOK', NEW s \in Sources, ReadFailed(s)
    PROVE  FC!ClaimsNext
<1> DEFINE f == target[s]
<1>1. /\ future[s] = "reading" /\ future'[s] = "raised"
      /\ \A t \in Sources \ {s} : future'[t] = future[t]
      /\ UNCHANGED target
    BY DEF ReadFailed, FsIInv, FsTypeOK
<1>2. f \in Files /\ disk[f] = "locked"
    BY <1>1 DEF FsIInv, ReadersLocked, PendingTarget, Pending
<1>3. \E d \in {"deleted", "present", "processed", "failed", "locked"} :
          disk' = [disk EXCEPT ![f] = d]
    <2>1. CASE UNCHANGED disk
        <3>1. disk' = [disk EXCEPT ![f] = "locked"]
            BY <1>2, <2>1 DEF FsIInv, FsTypeOK
        <3>2. QED
            BY <3>1
    <2>2. QED
        BY <2>1 DEF ReadFailed
<1>4. QED
    BY <1>1, <1>3, ReadEndMapped

\* Every step maps to a FileClaims step or a stutter of it.
LEMMA FsStepMapped ==
    FsIInv /\ FsIInv' /\ [FsNext]_vars => [FC!ClaimsNext]_FC!claimVars
<1> SUFFICES ASSUME FsIInv, FsIInv', [FsNext]_vars
             PROVE  [FC!ClaimsNext]_FC!claimVars
    OBVIOUS
<1>1. FsTypeOK'
    BY DEF FsIInv
<1>2. CASE GovernorStep
    <2>1. UNCHANGED srcVars
        BY <1>2, GovernorStepKeepsSources DEF FsIInv
    <2>2. NameBar' = NameBar /\ HolderBar' = HolderBar
        BY <2>1 DEF srcVars, NameBar, HolderBar, Readers
    <2>3. QED
        BY <2>2, StutterMapped
<1>3. ASSUME NEW s \in Sources, SourceStep(s)
      PROVE  [FC!ClaimsNext]_FC!claimVars
    <2>1. CASE StartSource(s) \/ ScheduledHealthCheck(s)
          \/ PipelineReady(s) \/ StageError(s)
        <3>1. UNCHANGED disk
            BY <2>1 DEF StartSource, ScheduledHealthCheck, PipelineReady, StageError
        <3>2. \A t \in Sources :
                 /\ future'[t] = "reading" <=> future[t] = "reading"
                 /\ future[t] = "reading" => target'[t] = target[t]
            <4>1. CASE StartSource(s) \/ ScheduledHealthCheck(s)
                <5>1. PICK f \in Files \cup {NoFile} :
                            /\ future' = [future EXCEPT ![s] = HealthCheckFuture(s, f)]
                            /\ target' = [target EXCEPT ![s] = HealthCheckTarget(s, f)]
                    BY <4>1 DEF StartSource, ScheduledHealthCheck, HealthCheck
                <5>2. QED
                    BY <5>1, HealthCheckKeepsReaders DEF FsIInv, FsTypeOK
            <4>2. CASE PipelineReady(s) \/ StageError(s)
                BY <4>2 DEF PipelineReady, StageError
            <4>3. QED
                BY <2>1, <4>1, <4>2
        <3>3. NameBar' = NameBar /\ HolderBar' = HolderBar
            BY <3>1, <3>2, HolderBarUnchanged DEF NameBar
        <3>4. QED
            BY <3>3, StutterMapped
    <2>2. CASE LockFile(s)
        BY <1>1, <2>2, LockFileMapped
    <2>3. CASE ReadSucceeded(s)
        BY <1>1, <2>3, ReadSucceededMapped
    <2>4. CASE ReadFailed(s)
        BY <1>1, <2>4, ReadFailedMapped
    <2>5. QED
        BY <1>3, <2>1, <2>2, <2>3, <2>4, Zenon DEF SourceStep
<1>4. ASSUME NEW f \in Files, FileArrives(f)
      PROVE  [FC!ClaimsNext]_FC!claimVars
    <2>1. NameBar[f] = "absent" /\ NameBar' = [NameBar EXCEPT ![f] = "visible"]
        BY <1>4, NameBarExcept DEF FsIInv, FileArrives, NameBar, ClaimName
    <2>2. HolderBar' = HolderBar
        BY <1>4, HolderBarUnchanged DEF FileArrives
    <2>3. FC!Arrive(f)
        BY <2>1, <2>2 DEF FC!Arrive, NameBar, HolderBar
    <2>4. QED
        BY <2>3 DEF FC!ClaimsNext
<1>5. CASE UNCHANGED vars
    <2>1. NameBar' = NameBar /\ HolderBar' = HolderBar
        BY <1>5 DEF vars, srcVars, NameBar, HolderBar, Readers
    <2>2. QED
        BY <2>1, StutterMapped
<1>6. QED
    BY <1>2, <1>3, <1>4, <1>5 DEF FsNext

(***************************************************************************)
(* The sources implement FileClaims, for any number of sources and files  *)
(* and any 'post' values and failures: a file is locked only from its own *)
(* name by a source with no other read in progress, only the task reading *)
(* a locked file renames it again, and processed, deleted and failed      *)
(* files never change.                                                     *)
(***************************************************************************)
THEOREM FileClaimsRefinement == FsSpec => ImplementsFileClaims
<1>1. FsInit => FC!ClaimsInit
    BY ClaimsInitMapped
<1>2. FsIInv /\ FsIInv' /\ [FsNext]_vars => [FC!ClaimsNext]_FC!claimVars
    BY FsStepMapped
<1>3. FsSpec => []FsIInv
    BY FsIInvInit, FsIInvStep, PTL DEF FsSpec
<1>4. QED
    BY <1>1, <1>2, <1>3, PTL DEF FsSpec, ImplementsFileClaims, FC!ClaimsSpec

-----------------------------------------------------------------------------
(***************************************************************************)
(* ReadAtMostOnce.  It needs a hypothesis: post "stop" renames a read     *)
(* file back to its own name, where the next health check finds it again. *)
(* The strengthening: a file read to the end is -processed, unlinked, or  *)
(* still -locked (its finalisation failed), and nobody is reading it.     *)
(***************************************************************************)
NoStopPost == \A s \in Sources : Post(s) # "stop"

ReadOnce ==
    \A f \in Files :
        /\ reads[f] <= 1
        /\ reads[f] = 1 => /\ disk[f] \in {"processed", "deleted", "locked"}
                           /\ Readers(f) = {}

LEMMA ReadOnceInit == FsInit => ReadOnce
BY DEF FsInit, ReadOnce

LEMMA ReadOnceStep ==
    ASSUME NoStopPost
    PROVE  FsIInv /\ ReadOnce /\ [FsNext]_vars => ReadOnce'
<1> SUFFICES ASSUME FsIInv, ReadOnce, [FsNext]_vars PROVE ReadOnce'
    OBVIOUS
<1>1. FsTypeOK'
    BY FsTypeStep DEF FsIInv
<1>2. CASE GovernorStep
    BY <1>2, GovernorStepKeepsSources DEF FsIInv, srcVars, ReadOnce, Readers
<1>3. ASSUME NEW s \in Sources, SourceStep(s) PROVE ReadOnce'
    <2>1. CASE StartSource(s) \/ ScheduledHealthCheck(s)
          \/ PipelineReady(s) \/ StageError(s)
        <3>1. UNCHANGED <<disk, reads>>
            BY <2>1 DEF StartSource, ScheduledHealthCheck, PipelineReady, StageError
        <3>2. \A g \in Files : Readers(g)' = Readers(g)
            <4>1. CASE StartSource(s) \/ ScheduledHealthCheck(s)
                <5>1. PICK tf \in Files \cup {NoFile} :
                            /\ future' = [future EXCEPT ![s] = HealthCheckFuture(s, tf)]
                            /\ target' = [target EXCEPT ![s] = HealthCheckTarget(s, tf)]
                    BY <4>1 DEF StartSource, ScheduledHealthCheck, HealthCheck
                <5>2. QED
                    BY <5>1, HealthCheckKeepsReaders DEF FsIInv, FsTypeOK, Readers
            <4>2. CASE PipelineReady(s) \/ StageError(s)
                BY <4>2 DEF PipelineReady, StageError, Readers
            <4>3. QED
                BY <2>1, <4>1, <4>2
        <3>3. QED
            BY <3>1, <3>2 DEF ReadOnce
    <2>2. CASE LockFile(s)
        <3> DEFINE tf == target[s]
        <3>1. tf \in Files /\ future[s] = "await_ready" /\ UNCHANGED <<target, reads>>
              /\ \A t \in Sources \ {s} : future'[t] = future[t]
            BY <2>2 DEF LockFile, FsIInv, FsTypeOK, PendingTarget, Pending
        <3>2. \/ disk' = disk
              \/ disk[tf] = "present" /\ disk' = [disk EXCEPT ![tf] = "locked"]
            BY <2>2 DEF LockFile
        <3>3. \A g \in Files \ {tf} : Readers(g)' = Readers(g)
            BY <3>1 DEF Readers
        <3>4. disk[tf] = "present" => reads[tf] = 0
            BY <3>1 DEF ReadOnce, FsIInv, FsTypeOK
        <3>5. disk' = disk => future'[s] # "reading"
            BY <2>2, <3>1 DEF LockFile, FsIInv, FsTypeOK
        <3>6. ASSUME NEW g \in Files, reads[g] = 1
              PROVE  disk'[g] \in {"processed", "deleted", "locked"} /\ Readers(g)' = {}
            <4>1. disk[g] \in {"processed", "deleted", "locked"} /\ Readers(g) = {}
                BY <3>6 DEF ReadOnce
            <4>2. CASE g # tf
                BY <3>1, <3>2, <3>3, <4>1, <4>2 DEF FsIInv, FsTypeOK
            <4>3. CASE g = tf
                <5>1. disk' = disk
                    BY <3>2, <3>4, <3>6, <4>3
                <5>2. Readers(g)' \subseteq Readers(g)
                    BY <3>1, <3>5, <5>1 DEF Readers
                <5>3. QED
                    BY <4>1, <5>1, <5>2
            <4>4. QED
                BY <4>2, <4>3
        <3>7. QED
            BY <3>1, <3>6 DEF ReadOnce, FsIInv, FsTypeOK
    <2>3. CASE ReadSucceeded(s)
        <3> DEFINE tf == target[s]
        <3>1. /\ future[s] = "reading" /\ future'[s] = "ok" /\ UNCHANGED target
              /\ \A t \in Sources \ {s} : future'[t] = future[t]
              /\ tf \in Files
            BY <2>3 DEF ReadSucceeded, FsIInv, FsTypeOK, PendingTarget, Pending
        <3>2. reads[tf] = 0
            BY <3>1 DEF ReadOnce, Readers, FsIInv, FsTypeOK
        <3>3. reads' = [reads EXCEPT ![tf] = 1]
            BY <2>3, <3>1, <3>2 DEF ReadSucceeded
        <3>4. \E d \in {"processed", "deleted", "locked"} : disk' = [disk EXCEPT ![tf] = d]
            <4>1. disk[tf] = "locked"
                BY <3>1 DEF FsIInv, ReadersLocked
            <4>2. CASE UNCHANGED disk
                BY <3>1, <4>1, <4>2 DEF FsIInv, FsTypeOK
            <4>3. QED
                BY <2>3, <4>2, NoStopPost DEF ReadSucceeded, NoStopPost
        <3>5. Readers(tf)' = {}
            BY <3>1 DEF FsIInv, OneReader, Readers
        <3>6. \A g \in Files \ {tf} : Readers(g)' = Readers(g)
            BY <3>1 DEF Readers
        <3>7. QED
            BY <3>1, <3>3, <3>4, <3>5, <3>6 DEF ReadOnce, FsIInv, FsTypeOK
    <2>4. CASE ReadFailed(s)
        <3> DEFINE tf == target[s]
        <3>1. /\ future[s] = "reading" /\ future'[s] = "raised" /\ UNCHANGED <<target, reads>>
              /\ \A t \in Sources \ {s} : future'[t] = future[t]
              /\ tf \in Files
            BY <2>4 DEF ReadFailed, FsIInv, FsTypeOK, PendingTarget, Pending
        <3>2. reads[tf] = 0
            BY <3>1 DEF ReadOnce, Readers, FsIInv, FsTypeOK
        <3>3. \E d : disk' = [disk EXCEPT ![tf] = d]
            <4>1. CASE UNCHANGED disk
                <5>1. disk' = [disk EXCEPT ![tf] = disk[tf]]
                    BY <3>1, <4>1 DEF FsIInv, FsTypeOK
                <5>2. QED
                    BY <5>1
            <4>2. QED
                BY <2>4, <4>1 DEF ReadFailed
        <3>4. \A g \in Files \ {tf} : Readers(g)' = Readers(g)
            BY <3>1 DEF Readers
        <3>5. ASSUME NEW g \in Files, reads[g] = 1
              PROVE  disk'[g] \in {"processed", "deleted", "locked"} /\ Readers(g)' = {}
            <4>1. g # tf
                BY <3>2, <3>5
            <4>2. disk'[g] = disk[g]
                BY <3>1, <3>3, <4>1 DEF FsIInv, FsTypeOK
            <4>3. QED
                BY <3>4, <3>5, <4>1, <4>2 DEF ReadOnce
        <3>6. \A g \in Files : reads'[g] <= 1
            BY <3>1 DEF ReadOnce
        <3>7. QED
            BY <3>1, <3>5, <3>6 DEF ReadOnce
    <2>5. QED
        BY <1>3, <2>1, <2>2, <2>3, <2>4 DEF SourceStep
<1>4. ASSUME NEW f \in Files, FileArrives(f) PROVE ReadOnce'
    <2>1. reads[f] = 0 /\ UNCHANGED <<reads, future, target>>
        BY <1>4 DEF FileArrives, ReadOnce, FsIInv, FsTypeOK
    <2>2. \A g \in Files : Readers(g)' = Readers(g)
        BY <2>1 DEF Readers
    <2>3. \A g \in Files \ {f} : disk'[g] = disk[g]
        BY <1>4 DEF FileArrives
    <2>4. QED
        BY <2>1, <2>2, <2>3 DEF ReadOnce
<1>5. CASE UNCHANGED vars
    BY <1>5 DEF vars, srcVars, ReadOnce, Readers
<1>6. QED
    BY <1>2, <1>3, <1>4, <1>5 DEF FsNext

(***************************************************************************)
(* With no source configured with post "stop", no file is read to the    *)
(* end twice, by one source or by two, for any number of sources and     *)
(* files and whatever fails: a read file leaves the directory's visible  *)
(* names for good.                                                         *)
(***************************************************************************)
THEOREM ReadAtMostOnceHolds ==
    ASSUME NoStopPost
    PROVE  FsSpec => []ReadAtMostOnce
<1>1. FsInit => FsIInv /\ ReadOnce
    BY FsIInvInit, ReadOnceInit
<1>2. FsIInv /\ ReadOnce /\ [FsNext]_vars => (FsIInv /\ ReadOnce)'
    BY FsIInvStep, ReadOnceStep
<1>3. ReadOnce => ReadAtMostOnce
    BY DEF ReadOnce, ReadAtMostOnce
<1>4. QED
    BY <1>1, <1>2, <1>3, PTL DEF FsSpec

=============================================================================
