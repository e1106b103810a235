----------------------------- MODULE FileSource -----------------------------
(***************************************************************************)
(* FileABCSource (src/bspump/file/fileabcsource.py) running under the     *)
(* application governor (Governor), each source feeding its own pipeline. *)
(*                                                                         *)
(* A source looks for a file on every health check (_on_health_check),    *)
(* starts a _read_file task for it, and that task waits for the pipeline, *)
(* locks the file by renaming it to "<name>-locked", reads it, and        *)
(* renames or deletes it according to the "post" option.  Several sources *)
(* (in one process or several) may watch the same directory: the rename  *)
(* is the only lock.                                                       *)
(*                                                                         *)
(* Not under src/, modelled from spec.md and marked so in PROJECT.json:   *)
(*   the Pipeline's readiness and error state (section 4.3), _glob_scan   *)
(*   (returns one file that is neither locked nor finalised, or None),    *)
(*   and the pipeline start that calls main() during the run phase.       *)
(*                                                                         *)
(* The directory is `disk`: the name each file currently has.             *)
(*   "absent"    not yet in the directory,                                 *)
(*   "present"   under its original name (visible to _glob_scan),         *)
(*   "locked"    renamed to <name>-locked,                                 *)
(*   "processed" renamed to <name>-processed,                              *)
(*   "failed"    renamed to <name>-failed,                                 *)
(*   "deleted"   unlinked.                                                 *)
(***************************************************************************)
EXTENDS Governor, FiniteSets

CONSTANTS
    Sources,       \* FileABCSource instances watching one directory
    Files,         \* file names that may appear in it
    InitialFiles,  \* the files already there when the application starts
    NoFile,        \* _glob_scan returned None
    PostConfig,    \* source -> its 'post' configuration value
    Faults         \* whether rename/open/read/stage failures may happen

ASSUME FileSourceAssumption ==
    /\ InitialFiles \subseteq Files
    /\ NoFile \notin Files
    /\ Faults \in BOOLEAN

\* __init__ lines 37-40: an unknown 'post' value falls back to 'move'.
Post(s) == IF PostConfig[s] \in {"delete", "stop", "move"} THEN PostConfig[s] ELSE "move"

\* The topic _on_health_check is subscribed to (__init__, line 33).
HealthCheckTopic == "Application.tick/10!"

VARIABLES
    disk,      \* file -> its name in the directory
    pipeline,  \* source -> state of its Pipeline: "built", "ready", "error"
    started,   \* source -> main() has been called
    future,    \* source -> self._future and where its _read_file task is
    target,    \* source -> the filename _read_file was started with
    rescan,    \* source -> a loop.call_soon(_on_health_check) is pending
    reads      \* ghost: file -> successful reads, saturated at 2

srcVars == <<disk, pipeline, started, future, target, rescan, reads>>
vars == <<govVars, srcVars>>

DiskNames == {"absent", "present", "locked", "processed", "failed", "deleted"}

(***************************************************************************)
(* self._future: "none" (None), a pending _read_file task waiting for the *)
(* pipeline ("await_ready") or inside self.read ("reading"), or a done    *)
(* task that returned ("ok") or raised ("raised").                        *)
(***************************************************************************)
FutureStates == {"none", "await_ready", "reading", "ok", "raised"}
Pending == {"await_ready", "reading"}

\* The asyncio loop runs source callbacks and tasks only while the
\* run-time or the exit-time governor is being run to completion.
SourceLoop == phase \in {"running", "exiting"}

FsTypeOK ==
    /\ GovTypeOK
    /\ disk \in [Files -> DiskNames]
    /\ pipeline \in [Sources -> {"built", "ready", "error"}]
    /\ started \in [Sources -> BOOLEAN]
    /\ future \in [Sources -> FutureStates]
    /\ target \in [Sources -> Files \cup {NoFile}]
    /\ rescan \in [Sources -> BOOLEAN]
    /\ reads \in [Files -> 0..2]

FsInit ==
    /\ GovInit
    /\ disk = [f \in Files |-> IF f \in InitialFiles THEN "present" ELSE "absent"]
    /\ pipeline = [s \in Sources |-> "built"]
    /\ started = [s \in Sources |-> FALSE]
    /\ future = [s \in Sources |-> "none"]
    /\ target = [s \in Sources |-> NoFile]
    /\ rescan = [s \in Sources |-> FALSE]
    /\ reads = [f \in Files |-> 0]

-----------------------------------------------------------------------------
(***************************************************************************)
(* _glob_scan(self.path) may return f: some visible file when there is    *)
(* one, None when there is none.                                           *)
(***************************************************************************)
GlobScan(f) ==
    IF f = NoFile THEN \A g \in Files : disk[g] # "present"
    ELSE disk[f] = "present"

(***************************************************************************)
(* _on_health_check as the future and filename it leaves for source s     *)
(* when _glob_scan returns f: a pending task makes it return at once; a   *)
(* done one is collected (its exception logged) and dropped; then a task  *)
(* is started for the file found, if any.                                  *)
(***************************************************************************)
HealthCheckFuture(s, f) ==
    IF future[s] \in Pending THEN future[s]
    ELSE IF f = NoFile THEN "none" ELSE "await_ready"

HealthCheckTarget(s, f) ==
    IF future[s] \in Pending THEN target[s] ELSE f

\* One _on_health_check call of source s; it changes only future, target.
HealthCheck(s) ==
    \E f \in Files \cup {NoFile} :
        /\ GlobScan(f)
        /\ future' = [future EXCEPT ![s] = HealthCheckFuture(s, f)]
        /\ target' = [target EXCEPT ![s] = HealthCheckTarget(s, f)]

(***************************************************************************)
(* main(): the pipeline starts its source; main runs one health check.    *)
(***************************************************************************)
StartSource(s) ==
    /\ SourceLoop
    /\ ~started[s]
    /\ started' = [started EXCEPT ![s] = TRUE]
    /\ HealthCheck(s)
    /\ UNCHANGED <<govVars, disk, pipeline, rescan, reads>>

(***************************************************************************)
(* A pending loop.call_soon(self._on_health_check, 'file.read!') runs.    *)
(***************************************************************************)
ScheduledHealthCheck(s) ==
    /\ SourceLoop
    /\ rescan[s]
    /\ rescan' = [rescan EXCEPT ![s] = FALSE]
    /\ HealthCheck(s)
    /\ UNCHANGED <<govVars, disk, pipeline, started, reads>>

\* Mutant of LockFile: a failed rename is not treated as a lost race and
\* the task reads the file anyway.
LockFileIgnoresNotFound(s) ==
    /\ SourceLoop
    /\ future[s] = "await_ready"
    /\ pipeline[s] = "ready"
    /\ disk' = [disk EXCEPT ![target[s]] = "locked"]
    /\ future' = [future EXCEPT ![s] = "reading"]
    /\ UNCHANGED <<govVars, pipeline, started, target, rescan, reads>>

(***************************************************************************)
(* _read_file resumes after `await self.Pipeline.ready()` (lines 81-115) *)
(* and runs to the next await: rename to -locked, then open.              *)
(*  - the file is gone (another source renamed it): FileNotFoundError,    *)
(*    schedule a health check and return;                                 *)
(*  - another rename error: Pipeline.set_error, return;                   *)
(*  - the open fails: Pipeline.set_error, return, the file stays locked;  *)
(*  - otherwise the task goes on into `await self.read(filename, f)`.     *)
(***************************************************************************)
LockFile(s) ==
    LET f == target[s] IN
    /\ SourceLoop
    /\ future[s] = "await_ready"
    /\ pipeline[s] = "ready"
    /\ \/ /\ disk[f] # "present"
          /\ rescan' = [rescan EXCEPT ![s] = TRUE]
          /\ future' = [future EXCEPT ![s] = "ok"]
          /\ UNCHANGED <<disk, pipeline>>
       \/ /\ disk[f] = "present"
          /\ Faults
          /\ pipeline' = [pipeline EXCEPT ![s] = "error"]
          /\ future' = [future EXCEPT ![s] = "ok"]
          /\ UNCHANGED <<disk, rescan>>
       \/ /\ disk[f] = "present"
          /\ disk' = [disk EXCEPT ![f] = "locked"]
          /\ \/ /\ future' = [future EXCEPT ![s] = "reading"]
                /\ UNCHANGED pipeline
             \/ /\ Faults
                /\ pipeline' = [pipeline EXCEPT ![s] = "error"]
                /\ future' = [future EXCEPT ![s] = "ok"]
          /\ UNCHANGED rescan
    /\ UNCHANGED <<govVars, started, target, reads>>

(***************************************************************************)
(* Source.process (abcproc.py lines 43-46), called by self.read for     *)
(* every event, raises RuntimeError when the pipeline is not ready.       *)
(***************************************************************************)
SourceProcessRaises(s) == pipeline[s] # "ready"

\* Mutant of ReadSucceeded: post "move" takes the "stop" branch's rename
\* back to the original name (without stopping).
ReadSucceededRenamesBack(s) ==
    LET f == target[s] IN
    /\ SourceLoop
    /\ future[s] = "reading"
    /\ pipeline[s] = "ready"
    /\ reads' = [reads EXCEPT ![f] = IF @ < 2 THEN @ + 1 ELSE @]
    /\ future' = [future EXCEPT ![s] = "ok"]
    /\ disk' = [disk EXCEPT ![f] = IF Post(s) = "delete" THEN "deleted" ELSE "present"]
    /\ rescan' = [rescan EXCEPT ![s] = TRUE]
    /\ UNCHANGED <<govVars, pipeline, started, target>>

\* Mutant of ReadSucceeded: the trailing call_soon(_on_health_check) is
\* missing.
ReadSucceededNoRescan(s) ==
    LET f == target[s] IN
    /\ SourceLoop
    /\ future[s] = "reading"
    /\ pipeline[s] = "ready"
    /\ reads' = [reads EXCEPT ![f] = IF @ < 2 THEN @ + 1 ELSE @]
    /\ future' = [future EXCEPT ![s] = "ok"]
    /\ disk' = [disk EXCEPT ![f] = IF Post(s) = "delete" THEN "deleted" ELSE "processed"]
    /\ UNCHANGED <<govVars, pipeline, started, target, rescan>>

(***************************************************************************)
(* self.read returned (lines 135-154): flush the pipeline, then finalise: *)
(* delete unlinks, move renames to -processed, and both schedule the next *)
(* health check; stop renames back to the original name and calls         *)
(* App.stop().  A failing finalisation calls set_error, leaves the file   *)
(* locked and schedules nothing.                                           *)
(***************************************************************************)
ReadSucceeded(s) ==
    LET f == target[s] IN
    /\ SourceLoop
    /\ future[s] = "reading"
    /\ pipeline[s] = "ready"
    /\ reads' = [reads EXCEPT ![f] = IF @ < 2 THEN @ + 1 ELSE @]
    /\ future' = [future EXCEPT ![s] = "ok"]
    /\ \/ /\ Post(s) = "delete"
          /\ disk' = [disk EXCEPT ![f] = "deleted"]
          /\ rescan' = [rescan EXCEPT ![s] = TRUE]
          /\ UNCHANGED <<govVars, pipeline>>
       \/ /\ Post(s) = "stop"
          /\ disk' = [disk EXCEPT ![f] = "present"]
          /\ stopEvent' = TRUE
          /\ UNCHANGED <<phase, ticks, published, services, modules>>
          /\ UNCHANGED <<pipeline, rescan>>
       \/ /\ Post(s) = "move"
          /\ disk' = [disk EXCEPT ![f] = "processed"]
          /\ rescan' = [rescan EXCEPT ![s] = TRUE]
          /\ UNCHANGED <<govVars, pipeline>>
       \/ /\ Faults
          /\ pipeline' = [pipeline EXCEPT ![s] = "error"]
          /\ UNCHANGED <<govVars, disk, rescan>>
    /\ UNCHANGED <<started, target>>

(***************************************************************************)
(* self.read raised (lines 121-131): with post "stop" the file is renamed *)
(* back, otherwise to -failed (a failing rename is logged and leaves it   *)
(* locked); the exception ends the task, and no health check is           *)
(* scheduled.  read() raises when a fault occurs or when Source.process   *)
(* finds the pipeline not ready (abcproc.py lines 43-46).               *)
(***************************************************************************)
ReadFailed(s) ==
    LET f == target[s] IN
    /\ SourceLoop
    /\ future[s] = "reading"
    /\ Faults \/ SourceProcessRaises(s)
    /\ future' = [future EXCEPT ![s] = "raised"]
    /\ \/ disk' = [disk EXCEPT ![f] = IF Post(s) = "stop" THEN "present" ELSE "failed"]
       \/ Faults /\ UNCHANGED disk
    /\ UNCHANGED <<govVars, pipeline, started, target, rescan, reads>>

(***************************************************************************)
(* Pipeline (spec.md 4.3, not under src/): bootstrap makes it ready; a    *)
(* stage raising under stop_on_errors (the default, which FileABCSource   *)
(* keeps) moves it to the error state, from which nothing in this code    *)
(* recovers.                                                               *)
(***************************************************************************)
PipelineReady(s) ==
    /\ SourceLoop
    /\ pipeline[s] = "built"
    /\ pipeline' = [pipeline EXCEPT ![s] = "ready"]
    /\ UNCHANGED <<govVars, disk, started, future, target, rescan, reads>>

StageError(s) ==
    /\ SourceLoop
    /\ Faults
    /\ pipeline[s] = "ready"
    /\ pipeline' = [pipeline EXCEPT ![s] = "error"]
    /\ UNCHANGED <<govVars, disk, started, future, target, rescan, reads>>

\* A file is dropped into the watched directory.
FileArrives(f) ==
    /\ disk[f] = "absent"
    /\ disk' = [disk EXCEPT ![f] = "present"]
    /\ UNCHANGED <<govVars, pipeline, started, future, target, rescan, reads>>

(***************************************************************************)
(* PubSub.publish("tick") from the run-time governor: every subscriber of *)
(* "tick" runs synchronously in the same step (PubSub is not under src/;  *)
(* spec.md 4.2).  A source is a subscriber only if the topic it           *)
(* subscribed _on_health_check to is "tick".                              *)
(***************************************************************************)
TickSubscribers == {s \in Sources : HealthCheckTopic = "tick"}

TickFanOut ==
    \E pick \in [TickSubscribers -> Files \cup {NoFile}] :
        /\ \A s \in TickSubscribers : GlobScan(pick[s])
        /\ future' = [s \in Sources |->
                        IF s \in TickSubscribers THEN HealthCheckFuture(s, pick[s])
                        ELSE future[s]]
        /\ target' = [s \in Sources |->
                        IF s \in TickSubscribers THEN HealthCheckTarget(s, pick[s])
                        ELSE target[s]]
        /\ UNCHANGED <<disk, pipeline, started, rescan, reads>>

GovernorStep ==
    \/ InitTimeGovernor /\ UNCHANGED srcVars
    \/ Run /\ UNCHANGED srcVars
    \/ Tick /\ TickFanOut
    \/ StopObservedByRun /\ UNCHANGED srcVars
    \/ ExitTimeGovernor /\ UNCHANGED srcVars
    \/ Stop /\ UNCHANGED srcVars

SourceStep(s) ==
    \/ StartSource(s)
    \/ ScheduledHealthCheck(s)
    \/ LockFile(s)
    \/ ReadSucceeded(s)
    \/ ReadFailed(s)
    \/ PipelineReady(s)
    \/ StageError(s)

FsNext ==
    \/ GovernorStep
    \/ \E s \in Sources : SourceStep(s)
    \/ \E f \in Files : FileArrives(f)

(***************************************************************************)
(* Fairness: the governor's own steps (see Governor), and the loop work   *)
(* of each source: main() once the pipeline starts, a call_soon callback, *)
(* a task resuming after the pipeline became ready, a read completing,    *)
(* the pipeline's bootstrap.  The run governor's wait_for times out every *)
(* tick_period while the stop event is clear (application.py 157-160), so *)
(* a tick, with the fan-out it publishes, is fair too (up to MaxTicks).   *)
(* A read may also keep failing, and a stop or a new file may never come: *)
(* those carry no fairness.                                                *)
(***************************************************************************)
FsFairness ==
    /\ WF_vars(InitTimeGovernor /\ UNCHANGED srcVars)
    /\ WF_vars(Run /\ UNCHANGED srcVars)
    /\ WF_vars(Tick /\ TickFanOut)
    /\ WF_vars(StopObservedByRun /\ UNCHANGED srcVars)
    /\ WF_vars(ExitTimeGovernor /\ UNCHANGED srcVars)
    /\ \A s \in Sources :
          /\ WF_vars(StartSource(s))
          /\ WF_vars(ScheduledHealthCheck(s))
          /\ WF_vars(LockFile(s))
          /\ WF_vars(ReadSucceeded(s) \/ ReadFailed(s))
          /\ WF_vars(PipelineReady(s))

FsSpec == FsInit /\ [][FsNext]_vars /\ FsFairness

-----------------------------------------------------------------------------
(***************************************************************************)
(* Properties.                                                             *)
(***************************************************************************)

Readers(f) == {s \in Sources : future[s] = "reading" /\ target[s] = f}

(***************************************************************************)
(* ExclusiveRead: the "-locked" rename is a lock: a file is read by at    *)
(* most one source at a time, and only while it carries the -locked name, *)
(* although every source picked its file in a health check before the     *)
(* await on Pipeline.ready() and renames it after.                         *)
(***************************************************************************)
ExclusiveRead ==
    \A f \in Files :
        /\ Cardinality(Readers(f)) <= 1
        /\ Readers(f) # {} => disk[f] = "locked"

(***************************************************************************)
(* ReadAtMostOnce: with post "delete" or "move", no file is read to the   *)
(* end twice, by the same source or by two of them.                        *)
(***************************************************************************)
ReadAtMostOnce ==
    \A f \in Files : reads[f] <= 1

(***************************************************************************)
(* DirectoryDrained: with no failures, the sources started during the run *)
(* phase empty the directory of the files that were there at start: each  *)
(* finished or lost-race read schedules the next health check.            *)
(***************************************************************************)
DirectoryDrained ==
    <>(phase = "closed" \/ \A f \in InitialFiles : disk[f] \in {"processed", "deleted"})

(***************************************************************************)
(* NewFilesEventuallyRead: spec.md (sections 1 and 4.1) has the tick     *)
(* drive periodic maintenance such as the source's health check; a file   *)
(* dropped into the directory is then picked up unless the application    *)
(* exits.  The model bounds the ticks by MaxTicks, so the promise is     *)
(* stated for a file that is present while a tick is still to come: that *)
(* tick's health check, or the call_soon chain it starts, must read it.  *)
(* The governor publishes "tick" (application.py line 160) and the source *)
(* listens on "Application.tick/10!" (line 33).                           *)
(***************************************************************************)
NewFilesEventuallyRead ==
    \A f \in Files :
        (disk[f] = "present" /\ ticks < MaxTicks)
            ~> (disk[f] # "present" \/ phase = "closed")

(***************************************************************************)
(* NoLockedFileAfterExit: spec.md section 5 says shutdown lets in-flight  *)
(* work complete or fail and cleans up in the exit phase; then no file is *)
(* left under its -locked name, which _glob_scan never returns again.     *)
(***************************************************************************)
NoLockedFileAfterExit ==
    phase = "closed" => \A f \in Files : disk[f] # "locked"

-----------------------------------------------------------------------------
(***************************************************************************)
(* Refinement: the sources implement FileClaims.  A file's abstract name  *)
(* is what its directory entry says of it (-locked is claimed, -processed *)
(* or unlinked is done, -failed is failed), and its holder is the set of  *)
(* sources whose _read_file task is inside self.read for it.               *)
(***************************************************************************)
ClaimName(d) ==
    IF d = "present" THEN "visible"
    ELSE IF d = "locked" THEN "claimed"
    ELSE IF d \in {"processed", "deleted"} THEN "done"
    ELSE d

FC == INSTANCE FileClaims
        WITH name <- [f \in Files |-> ClaimName(disk[f])],
             holder <- [f \in Files |-> Readers(f)]

(***************************************************************************)
(* ImplementsFileClaims: every step of the sources, the governor and the  *)
(* directory is a FileClaims step or leaves its view unchanged: a file is *)
(* locked only from its own name by a source reading nothing else, only  *)
(* the task reading a locked file renames it again, and -processed,      *)
(* unlinked and -failed files stay so.                                     *)
(***************************************************************************)
ImplementsFileClaims == FC!ClaimsSpec

=============================================================================
