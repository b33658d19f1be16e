---------------------------- MODULE PufPipeline ----------------------------
(***************************************************************************)
(* The drivers of src/main/java/puf and the directories they leave in HDFS. *)
(*   Intra1 and Intra2 start one thread per input file (one chip); each    *)
(*   thread runs IntraHD_1, two jobs, or IntraHD_2, three jobs, one after  *)
(*   the other, each with an output directory of its own for the file.     *)
(*   Inter runs InterHD: it merges the correct IDs it finds and runs two   *)
(*   jobs on them.                                                         *)
(* A thread and Inter are chains of jobs alike.  A job is submitted to a   *)
(* queue of the cluster and goes on when its driver is gone.  Hadoop looks *)
(* at the output directory twice: the client refuses a job whose directory *)
(* exists, and the cluster makes the directory once the job leaves the     *)
(* queue, without looking again.  The job's last act is to put the         *)
(* part-r-00000 file there; a job that failed leaves none.                 *)
(***************************************************************************)
EXTENDS Naturals

CONSTANTS
  Files,     \* input files, one per chip
  InterHD,   \* the chain of Inter
  MaxRuns    \* bound: times each of the programs is started

ASSUME RunsAssumption == InterHD \notin Files /\ MaxRuns \in Nat

VARIABLES
  driver,    \* which of Intra1 and Intra2 was started, run by run
  run,       \* the last run of each chain
  thread,    \* where each chain stands
  jobs,      \* the jobs of each chain, run by run
  out,       \* the output directories
  unscanned, \* directories Inter has yet to look into
  merged,    \* files whose correct IDs are inputs of the merge, run by run
  left       \* history: directories a job was queued for when its driver died

pipelineVars == <<driver, run, thread, jobs, out, unscanned, merged, left>>

Chains    == Files \union {InterHD}
Programs  == {Files, {InterHD}}       \* the chains of Intra1 or Intra2, that of Inter
Runs      == 1 .. MaxRuns
Drivers   == {"IntraHD_1", "IntraHD_2"}
Jobs      == {"flatten", "correctid", "hd", "merge", "interhd"}
JobStates == {"none", "queued", "running", "succeeded", "failed"}
DirStates == {"absent", "open", "complete"}   \* complete: it has a part-r-00000

\* A chain is about to submit a job, or waits for its completion.
Submitting(j) == [at |-> "submit", job |-> j]
Waiting(j)    == [at |-> "wait", job |-> j]
Scanning      == [at |-> "scan", job |-> "merge"]    \* Inter collects its inputs
Off           == [at |-> "off", job |-> "none"]      \* not running
Ended         == [at |-> "ended", job |-> "none"]    \* run() returned or threw

\* The order of the jobs in the run methods of IntraHD_1, IntraHD_2 and InterHD.
After(r, j) == CASE j = "flatten"   -> IF driver[r] = "IntraHD_2" THEN "correctid" ELSE "hd"
                 [] j = "correctid" -> "hd"
                 [] OTHER           -> "interhd"
Last == {"hd", "interhd"}

\* The directories whose part-r-00000 a job reads.
Inputs(c, r, j) ==
  CASE j = "flatten"   -> {}
    [] j = "correctid" -> {<<c, "flatten">>}
    [] j = "hd"        -> {<<c, "flatten">>} \union
                            {<<c, i>> : i \in {"correctid"} \cap {After(r, "flatten")}}
    [] j = "merge"     -> merged[r] \X {"correctid"}
    [] j = "interhd"   -> {<<c, "merge">>}

PipelineTypeOK ==
  /\ driver \in [Runs -> Drivers]
  /\ run \in [Chains -> 0 .. MaxRuns]
  /\ thread \in [Chains -> [at : {"submit", "wait"}, job : Jobs] \union {Scanning, Off, Ended}]
  /\ jobs \in [Chains -> [Runs -> [Jobs -> JobStates]]]
  /\ out \in [Chains -> [Jobs -> DirStates]]
  /\ unscanned \in SUBSET Files
  /\ merged \in [Runs -> SUBSET Files]
  /\ left \in SUBSET (Chains \X Jobs)

PipelineInit ==
  /\ driver = [r \in Runs |-> "IntraHD_1"]
  /\ run = [c \in Chains |-> 0]
  /\ thread = [c \in Chains |-> Off]
  /\ jobs = [c \in Chains |-> [r \in Runs |-> [j \in Jobs |-> "none"]]]
  /\ out = [c \in Chains |-> [j \in Jobs |-> "absent"]]
  /\ unscanned = {} /\ merged = [r \in Runs |-> {}]
  /\ left = {}

SetThread(c, state) == thread' = [thread EXCEPT ![c] = state]
SetJob(c, r, j, state) == jobs' = [jobs EXCEPT ![c][r][j] = state]

-----------------------------------------------------------------------------
(* The programs                                                            *)

\* A program is started again only when its former run is over.
MayStart(program) ==
  \A c \in program : thread[c] \in {Off, Ended} /\ run[c] < MaxRuns

\* The chains of a program start a run, each with its first step.
Start(program, first) ==
  /\ MayStart(program)
  /\ run' = [c \in Chains |-> IF c \in program THEN run[c] + 1 ELSE run[c]]
  /\ thread' = [c \in Chains |-> IF c \in program THEN first ELSE thread[c]]

\* main lists the input directory and starts the threads.  Both programs are
\* given the same directories.
StartIntra(d) ==
  /\ Start(Files, Submitting("flatten"))
  /\ \E f \in Files : driver' = [driver EXCEPT ![run[f] + 1] = d]
  /\ UNCHANGED <<jobs, out, unscanned, merged, left>>

\* Inter lists the subdirectories of its input, the correct IDs of the files.
StartInter ==
  /\ Start({InterHD}, Scanning)
  /\ unscanned' = {f \in Files : out[f]["correctid"] # "absent"}
  /\ UNCHANGED <<driver, jobs, out, merged, left>>

\* It takes the part-r-00000 of a directory, if there is one by now.
Scan(f) ==
  /\ thread[InterHD] = Scanning /\ f \in unscanned
  /\ unscanned' = unscanned \ {f}
  /\ merged' = IF out[f]["correctid"] = "complete"
               THEN [merged EXCEPT ![run[InterHD]] = @ \union {f}] ELSE merged
  /\ UNCHANGED <<driver, run, thread, jobs, out, left>>

\* All directories are looked into.
Scanned ==
  /\ thread[InterHD] = Scanning /\ unscanned = {}
  /\ SetThread(InterHD, Submitting("merge"))
  /\ UNCHANGED <<driver, run, jobs, out, unscanned, merged, left>>

\* The client finds every input file; a merge of no files has no input path.
InputsFound(c, j) ==
  /\ \A i \in Inputs(c, run[c], j) : out[i[1]][i[2]] = "complete"
  /\ j = "merge" => merged[run[c]] # {}

\* Mutant: the output directory is not looked at.
SubmitAnyway(c, j) ==
  /\ thread[c] = Submitting(j)
  /\ IF InputsFound(c, j)
     THEN SetJob(c, run[c], j, "queued") /\ SetThread(c, Waiting(j))
     ELSE UNCHANGED jobs /\ SetThread(c, Ended)
  /\ UNCHANGED <<driver, run, out, unscanned, merged, left>>

\* Mutant: a refused thread tries again.
SubmitRetries(c, j) ==
  /\ thread[c] = Submitting(j)
  /\ IF out[c][j] = "absent" /\ InputsFound(c, j)
     THEN SetJob(c, run[c], j, "queued") /\ SetThread(c, Waiting(j))
     ELSE UNCHANGED <<jobs, thread>>
  /\ UNCHANGED <<driver, run, out, unscanned, merged, left>>

\* The client's half of a submission: refused with an exception, which run()
\* only logs, when the output directory exists or an input is missing.
Submit(c, j) ==
  /\ thread[c] = Submitting(j)
  /\ IF out[c][j] = "absent" /\ InputsFound(c, j)
     THEN SetJob(c, run[c], j, "queued") /\ SetThread(c, Waiting(j))
     ELSE UNCHANGED jobs /\ SetThread(c, Ended)
  /\ UNCHANGED <<driver, run, out, unscanned, merged, left>>

\* Mutant: the result of waitForCompletion is not looked at.
ProceedAnyway(c, j) ==
  /\ thread[c] = Waiting(j) /\ jobs[c][run[c]][j] \in {"succeeded", "failed"}
  /\ SetThread(c, IF j \in Last THEN Ended ELSE Submitting(After(run[c], j)))
  /\ UNCHANGED <<driver, run, jobs, out, unscanned, merged, left>>

\* Mutant: the second job of Inter is that of the other driver.
ProceedToHD(c, j) ==
  /\ thread[c] = Waiting(j) /\ jobs[c][run[c]][j] \in {"succeeded", "failed"}
  /\ SetThread(c, IF jobs[c][run[c]][j] = "failed" \/ j \in Last THEN Ended
                  ELSE [at |-> "submit", job |-> <<After(run[c], j)>>])
  /\ UNCHANGED <<driver, run, jobs, out, unscanned, merged, left>>

\* waitForCompletion returns: on to the next job, or return.
Proceed(c, j) ==
  /\ thread[c] = Waiting(j) /\ jobs[c][run[c]][j] \in {"succeeded", "failed"}
  /\ SetThread(c, IF jobs[c][run[c]][j] = "failed" \/ j \in Last THEN Ended
                  ELSE Submitting(After(run[c], j)))
  /\ UNCHANGED <<driver, run, jobs, out, unscanned, merged, left>>

\* The process of a program ends with all its threads; its jobs stay.
Dies(program) ==
  /\ \E c \in program : thread[c] \notin {Off, Ended}
  /\ thread' = [c \in Chains |-> IF c \in program THEN Off ELSE thread[c]]
  /\ left' = left \union {d \in program \X Jobs : \E r \in Runs : jobs[d[1]][r][d[2]] = "queued"}
  /\ UNCHANGED <<driver, run, jobs, out, unscanned, merged>>

-----------------------------------------------------------------------------
(* The cluster                                                             *)

\* A job leaves the queue; setting it up makes its directory, if it is not there.
JobStarts(c, r, j) ==
  /\ jobs[c][r][j] = "queued"
  /\ SetJob(c, r, j, "running")
  /\ out' = IF out[c][j] = "absent" THEN [out EXCEPT ![c][j] = "open"] ELSE out
  /\ UNCHANGED <<driver, run, thread, unscanned, merged, left>>

\* To commit a job the part-r-00000 of another is deleted first ...
JobDeletes(c, r, j) ==
  /\ jobs[c][r][j] = "running" /\ out[c][j] = "complete"
  /\ out' = [out EXCEPT ![c][j] = "open"]
  /\ UNCHANGED <<driver, run, thread, jobs, unscanned, merged, left>>

\* ... and then its own moved there.
JobSucceeds(c, r, j) ==
  /\ jobs[c][r][j] = "running" /\ out[c][j] = "open"
  /\ SetJob(c, r, j, "succeeded")
  /\ out' = [out EXCEPT ![c][j] = "complete"]
  /\ UNCHANGED <<driver, run, thread, unscanned, merged, left>>

\* A job fails at any moment, and leaves what is in the directory.
JobFails(c, r, j) ==
  /\ jobs[c][r][j] = "running"
  /\ SetJob(c, r, j, "failed")
  /\ UNCHANGED <<driver, run, thread, out, unscanned, merged, left>>

-----------------------------------------------------------------------------
JobStep(c, r, j) == \/ JobStarts(c, r, j) \/ JobDeletes(c, r, j)
                    \/ JobSucceeds(c, r, j) \/ JobFails(c, r, j)

Cluster == \E c \in Chains, r \in Runs, j \in Jobs : JobStep(c, r, j)

Chain(c) == \/ \E j \in Jobs : Submit(c, j) \/ Proceed(c, j)
            \/ c = InterHD /\ (Scanned \/ \E f \in Files : Scan(f))

Operator == \/ \E d \in Drivers : StartIntra(d)
            \/ StartInter
            \/ \E program \in Programs : Dies(program)

PipelineNext == Operator \/ Cluster \/ \E c \in Chains : Chain(c)

PipelineSpec == PipelineInit /\ [][PipelineNext]_pipelineVars

\* Hadoop starts and ends every job, and the operating system runs every thread.
FairSpec ==
  /\ PipelineSpec
  /\ WF_pipelineVars(Cluster)
  /\ \A c \in Chains : WF_pipelineVars(Chain(c))

-----------------------------------------------------------------------------
(* Properties                                                              *)

\* The runs whose job has begun to write to the directory.
Writers(c, j) == {r \in Runs : jobs[c][r][j] \notin {"none", "queued"}}
OneWriter(c, j) == \A r1, r2 \in Writers(c, j) : r1 = r2

\* No job is submitted before the jobs of its own run whose output it reads have
\* succeeded, and from then on these outputs, and the votes Inter merges, are
\* there, unless a second job writes to the same directory: the distances of a chip
\* are always taken from its own flattened records and its own vote (IntraHD_2
\* 82-83, 105-106), the inter-chip ones from one merge (InterHD 86-88), and Inter
\* takes complete votes only, although it may look while Intra2 is still at
\* work (InterHD 68-81).
InputsComplete ==
  \A c \in Chains, r \in Runs, j \in Jobs :
    jobs[c][r][j] # "none" =>
      \A i \in Inputs(c, r, j) :
        /\ i[1] = c => jobs[c][r][i[2]] = "succeeded"
        /\ OneWriter(i[1], i[2]) => out[i[1]][i[2]] = "complete"

\* Two jobs write to one directory only when a driver died while the first of them
\* was still in the queue and was started again before it left it: the check of
\* the output directory (IntraHD_2 80, 102, 124; InterHD 85, 107) sees to
\* all other cases, failures, restarts and the change of the driver included.
SharedOnlyIfLeft ==
  \A c \in Chains, j \in Jobs : OneWriter(c, j) \/ <<c, j>> \in left

\* A directory is complete, and no job that was submitted may still write to it.
Settled(c, j) ==
  /\ out[c][j] = "complete"
  /\ \A r \in Runs : jobs[c][r][j] \notin {"queued", "running"}

\* What is settled is final: no later run of any of the three programs writes to
\* the directory again.
OutputsFinal ==
  [][\A c \in Chains, j \in Jobs : Settled(c, j) => Settled(c, j)']_pipelineVars

\* No thread is past the first job of the file, the jobs were begun before, and
\* the last is neither begun nor queued.
Abandoned(f) ==
  /\ thread[f] \in {Off, Ended, Submitting("flatten")}
  /\ out[f]["flatten"] # "absent" /\ out[f]["hd"] = "absent"
  /\ \A r \in Runs : jobs[f][r]["hd"] # "queued"

\* A file left half done is never finished: once its thread is gone and its
\* first directory is there, every new run is refused at its first job
\* (IntraHD_2 61-82; the code has no step that cleans up).
HalfDoneForGood == [][\A f \in Files : Abandoned(f) => Abandoned(f)']_pipelineVars

\* A run comes to an end, for every file and for Inter.
RunsEnd ==
  \A c \in Chains : (thread[c] \notin {Off, Ended}) ~> (thread[c] \in {Off, Ended})
=============================================================================
