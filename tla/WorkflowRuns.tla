---------------------------- MODULE WorkflowRuns ----------------------------
(***************************************************************************)
(* WorkflowRun objects, the WorkflowRunReconciler of each controller       *)
(* process that watches them (a rollout overlaps two, and leader election  *)
(* is off by default), and the workflow executor it drives: jobs in        *)
(* dependency order, their conditions and steps, the variables that steps  *)
(* capture, and what is written back to the object.                        *)
(***************************************************************************)
EXTENDS Naturals, FiniteSets

CONSTANTS
    Runs,       \* names of WorkflowRun objects, each made unique by randomHex
    Procs,      \* controller processes
    NJobs,      \* jobs of a workflow, numbered in the order of spec.jobs
    NSteps,     \* steps of a job
    Workflows,  \* the workflows a request may name
    NoWorkflow, \* the workflow of a request that is yet to be made
    NoRun,      \* the run of an idle worker
    MaxWrites,  \* bound on writes to one object
    MaxFaults   \* bound on crashes, lost answers and foreign writes

Jobs  == 1..NJobs
Steps == 1..NSteps

\* needs: dependsOn, 0 standing for a name no job has; when: the if condition;
\* lenient, guarded: the steps with continueOnError, with an if of their own;
\* client: runtime is client.
JobSpecs == [needs : SUBSET (0..NJobs), when : {"always", "flag"},
             lenient : SUBSET Steps, guarded : SUBSET Steps]

ASSUME WorkflowAssumption ==
    /\ NJobs \in Nat \ {0} /\ NSteps \in Nat \ {0}
    /\ MaxWrites \in Nat /\ MaxFaults \in Nat
    /\ NoWorkflow \notin Workflows /\ NoRun \notin Runs
    /\ Workflows \subseteq [client : BOOLEAN, jobs : [Jobs -> JobSpecs]]

VARIABLES
    obj,     \* each object in etcd: phase, resourceVersion, the workflow it names
    cache,   \* each process's informer copy of each object's phase and version
    worker,  \* each process's reconcile of a WorkflowRun
    starts,  \* history: how often each step of each run was started
    result,  \* history: JobResults of the executions of each run
    excuse,  \* history: what befell each run
    faults   \* number of faults so far

vars == <<obj, cache, worker, starts, result, excuse, faults>>

Phases     == {"absent", "Pending", "Running", "Succeeded", "Failed", "gone"}
Final      == {"Succeeded", "Failed"}
Results    == {"none", "running", "completed", "skipped", "failed"}
Settled    == {"completed", "skipped"}
Names      == {"flag", "prefix"}  \* variables; one's name begins with the other's
Excuses    == {"crash", "lostAnswer", "touched"}
Stages     == {"idle", "claim", "auth", "prepare", "pick", "start", "step", "finish"}

Absent == [phase |-> "absent", rv |-> 0]
Idle   == [at |-> "idle", run |-> NoRun, rv |-> 0, pos |-> 0, progress |-> FALSE,
           done |-> {}, step |-> 0, vars |-> {}, ok |-> FALSE]

Init ==
    /\ obj = [r \in Runs |-> [phase |-> "absent", rv |-> 0, wf |-> NoWorkflow]]
    /\ cache = [p \in Procs |-> [r \in Runs |-> Absent]]
    /\ worker = [p \in Procs |-> Idle]
    /\ starts = [r \in Runs |-> [j \in Jobs |-> [s \in Steps |-> 0]]]
    /\ result = [r \in Runs |-> [j \in Jobs |-> "none"]]
    /\ excuse = [r \in Runs |-> {}]
    /\ faults = 0

Fault     == faults < MaxFaults /\ faults' = faults + 1
There(r)  == obj[r].phase \notin {"absent", "gone"}
Seen(r)   == [phase |-> obj[r].phase, rv |-> obj[r].rv]
Excuse(r, e) == excuse' = [excuse EXCEPT ![r] = @ \cup {e}]

At(p, stage)   == worker[p].at = stage
Run(p)         == worker[p].run
Move(p, stage) == worker' = [worker EXCEPT ![p].at = stage]
Job(p)         == obj[Run(p)].wf.jobs[worker[p].pos]

(* A worker that has its run in hand and is carrying it out.               *)
Busy(p, r) == worker[p].run = r /\ worker[p].at \notin {"idle", "claim"}

-----------------------------------------------------------------------------
(* The API and other writers.                                              *)

(* handleCreateWorkflowRun.                                                *)
Submit(r) ==
    /\ obj[r].phase = "absent"
    /\ \E w \in Workflows : obj' = [obj EXCEPT ![r] = [phase |-> "Pending", rv |-> 1, wf |-> w]]
    /\ UNCHANGED <<cache, worker, starts, result, excuse, faults>>

(* Anything else that writes the object: a label, an annotation.           *)
Touch(r) ==
    /\ There(r) /\ Fault /\ obj[r].rv < MaxWrites
    /\ obj' = [obj EXCEPT ![r].rv = @ + 1]
    /\ Excuse(r, "touched")
    /\ UNCHANGED <<cache, worker, starts, result>>

(* kubectl delete: a WorkflowRun has no finalizer.                         *)
Remove(r) ==
    /\ There(r) /\ Fault
    /\ obj' = [obj EXCEPT ![r].phase = "gone"]
    /\ UNCHANGED <<cache, worker, starts, result, excuse>>

Sync(p, r) ==
    /\ cache[p][r] # Seen(r)
    /\ cache' = [cache EXCEPT ![p][r] = Seen(r)]
    /\ UNCHANGED <<obj, worker, starts, result, excuse, faults>>

-----------------------------------------------------------------------------
(* WorkflowRunReconciler.Reconcile.                                        *)

(* The Get is served by the cache, and only a Pending run is picked up.    *)
Begin(p, r) ==
    /\ At(p, "idle") /\ cache[p][r].phase = "Pending"
    /\ worker' = [worker EXCEPT ![p] = [Idle EXCEPT !.at = "claim", !.run = r,
                                                    !.rv = cache[p][r].rv]]
    /\ UNCHANGED <<obj, cache, starts, result, excuse, faults>>

(* Mutant of Current: the status is patched, whatever the version.         *)
CurrentAnyway(r, rv) == There(r)

(* An Update carries the version it was read at, and fails on any other.   *)
Current(r, rv) == There(r) /\ obj[r].rv = rv

Written(o, phase) == [o EXCEPT !.phase = phase, !.rv = @ + 1]

(* Status().Update to Running; an error returns, and the key is queued     *)
(* again.                                                                  *)
Claim(p) ==
    LET r == Run(p) IN
    /\ At(p, "claim")
    /\ IF Current(r, worker[p].rv)
       THEN /\ obj' = [obj EXCEPT ![r] = Written(@, "Running")]
            /\ \/ /\ worker' = [worker EXCEPT ![p].at = "auth", ![p].rv = obj'[r].rv]
                  /\ UNCHANGED <<excuse, faults>>
               \/ worker' = [worker EXCEPT ![p] = Idle] /\ Excuse(r, "lostAnswer") /\ Fault
       ELSE worker' = [worker EXCEPT ![p] = Idle] /\ UNCHANGED <<obj, excuse, faults>>
    /\ UNCHANGED <<cache, starts, result>>

(* The cluster, hyve.lock, the driver module, its auth op in a Job of its  *)
(* own, and the workflow itself: any of them may fail.                     *)
Authenticate(p) ==
    /\ At(p, "auth")
    /\ Move(p, "prepare") \/ Move(p, "finish")
    /\ UNCHANGED <<obj, cache, starts, result, excuse, faults>>

(* Its requirements, secrets and inputs may be missing; and a workflow     *)
(* with runtime: client is never run here.                                 *)
Prepare(p) ==
    /\ At(p, "prepare")
    /\ \/ Move(p, "finish")
       \/ ~obj[Run(p)].wf.client /\ Move(p, "pick")
    /\ UNCHANGED <<obj, cache, starts, result, excuse, faults>>

(* Mutant of Reported: a failure to run is reported like a run.            *)
ReportedDone(ok) == "Succeeded"

Reported(ok) == IF ok THEN "Succeeded" ELSE "Failed"

(* finish: one Update at the version of the claim; an error is logged.     *)
Finish(p) ==
    LET r == Run(p) IN
    /\ At(p, "finish")
    /\ obj' = IF Current(r, worker[p].rv)
              THEN [obj EXCEPT ![r] = Written(@, Reported(worker[p].ok))] ELSE obj
    /\ worker' = [worker EXCEPT ![p] = Idle]
    /\ UNCHANGED <<cache, starts, result, excuse, faults>>

(* The process dies, and its successor lists every object anew.            *)
Crash(p) ==
    /\ Fault
    /\ worker' = [worker EXCEPT ![p] = Idle]
    /\ cache' = [cache EXCEPT ![p] = [r \in Runs |-> Seen(r)]]
    /\ excuse' = [r \in Runs |-> IF Busy(p, r) THEN excuse[r] \cup {"crash"} ELSE excuse[r]]
    /\ UNCHANGED <<obj, starts, result>>

-----------------------------------------------------------------------------
(* Executor.executeJobs: passes over spec.jobs, until all are completed or *)
(* a pass completes none.                                                  *)

(* Mutant of Ready: a dependency that is being looked at counts.           *)
ReadyIfAny(p, j) ==
    LET w == worker[p] needs == obj[w.run].wf.jobs[j].needs IN
    j \notin w.done /\ (needs = {} \/ needs \cap (w.done \cup {0}) # {})

Ready(p, j) ==
    LET w == worker[p] IN
    j \notin w.done /\ obj[w.run].wf.jobs[j].needs \subseteq w.done

(* The jobs this pass over spec.jobs still has to try.                     *)
Ahead(p) == {j \in Jobs : j > worker[p].pos /\ Ready(p, j)}

(* evaluateCondition: variables are replaced in the order of a Go map, so  *)
(* where one's name begins another's the text may come out as neither.     *)
Holds(when, captured) ==
    IF when = "always" THEN {TRUE}
    ELSE IF "flag" \notin captured THEN {FALSE}
    ELSE IF "prefix" \in captured THEN BOOLEAN ELSE {TRUE}

Settle(p, j, res) ==
    /\ worker' = [worker EXCEPT ![p].at = "pick", ![p].pos = j, ![p].step = 0,
                                ![p].progress = TRUE, ![p].done = @ \cup {j}]
    /\ result' = [result EXCEPT ![Run(p)][j] = res]

(* A job is found: its condition decides whether it starts or is skipped.  *)
PickJob(p) ==
    /\ At(p, "pick") /\ worker[p].done # Jobs
    /\ \E j \in Ahead(p) :
         /\ \A k \in Ahead(p) : j <= k
         /\ \E holds \in Holds(obj[Run(p)].wf.jobs[j].when, worker[p].vars) :
              IF holds
              THEN /\ worker' = [worker EXCEPT ![p].at = "start", ![p].pos = j, ![p].step = 1]
                   /\ result' = [result EXCEPT ![Run(p)][j] = "running"]
              ELSE Settle(p, j, "skipped")
    /\ UNCHANGED <<obj, cache, starts, excuse, faults>>

(* Mutant of EndPass: the progress of an earlier pass is not forgotten.    *)
EndPassSticky(p) ==
    /\ At(p, "pick") /\ worker[p].done # Jobs /\ Ahead(p) = {}
    /\ worker' = [worker EXCEPT ![p].pos = 0,
                                ![p].at = IF worker[p].progress THEN "pick" ELSE "finish"]
    /\ UNCHANGED <<obj, cache, starts, result, excuse, faults>>

(* The pass is over: another, or "circular dependency detected".           *)
EndPass(p) ==
    /\ At(p, "pick") /\ worker[p].done # Jobs /\ Ahead(p) = {}
    /\ worker' = [worker EXCEPT ![p].pos = 0, ![p].progress = FALSE,
                                ![p].at = IF worker[p].progress THEN "pick" ELSE "finish"]
    /\ UNCHANGED <<obj, cache, starts, result, excuse, faults>>

EndJobs(p) ==
    /\ At(p, "pick") /\ worker[p].done = Jobs
    /\ worker' = [worker EXCEPT ![p].at = "finish", ![p].ok = TRUE]
    /\ UNCHANGED <<obj, cache, starts, result, excuse, faults>>

Stops(p, ok) == ~ok /\ worker[p].step \notin Job(p).lenient

(* A step is over: the job goes on, is completed, or takes the whole run   *)
(* down with it.                                                           *)
LeaveStep(p, ok, captured) ==
    LET w == worker[p] IN
    \/ /\ Stops(p, ok)
       /\ worker' = [worker EXCEPT ![p].at = "finish", ![p].vars = captured]
       /\ result' = [result EXCEPT ![w.run][w.pos] = "failed"]
    \/ /\ ~Stops(p, ok) /\ w.step < NSteps
       /\ worker' = [worker EXCEPT ![p].at = "start", ![p].step = w.step + 1,
                                   ![p].vars = captured]
       /\ UNCHANGED result
    \/ /\ ~Stops(p, ok) /\ w.step = NSteps
       /\ worker' = [worker EXCEPT ![p].at = "pick", ![p].step = 0, ![p].progress = TRUE,
                                   ![p].done = @ \cup {w.pos}, ![p].vars = captured]
       /\ result' = [result EXCEPT ![w.run][w.pos] = "completed"]

(* executeStep skips the step, or hands its command or script to a Job.    *)
StartStep(p) ==
    LET w == worker[p] IN
    /\ At(p, "start")
    /\ \E holds \in Holds(IF w.step \in Job(p).guarded THEN "flag" ELSE "always", w.vars) :
         IF holds
         THEN /\ starts' = [starts EXCEPT ![w.run][w.pos][w.step] = @ + 1]
              /\ Move(p, "step") /\ UNCHANGED result
         ELSE LeaveStep(p, TRUE, w.vars) /\ UNCHANGED starts
    /\ UNCHANGED <<obj, cache, excuse, faults>>

(* The step's Job ends: what it printed is captured, failed or not.        *)
EndStep(p) ==
    /\ At(p, "step")
    /\ \E ok \in BOOLEAN, printed \in SUBSET Names : LeaveStep(p, ok, worker[p].vars \cup printed)
    /\ UNCHANGED <<obj, cache, starts, excuse, faults>>

-----------------------------------------------------------------------------
Executor(p) == PickJob(p) \/ EndPass(p) \/ EndJobs(p) \/ StartStep(p) \/ EndStep(p)

Worker(p) == Claim(p) \/ Authenticate(p) \/ Prepare(p) \/ Finish(p) \/ Executor(p)

Next ==
    \/ \E r \in Runs : Submit(r) \/ Touch(r) \/ Remove(r)
    \/ \E p \in Procs : Worker(p) \/ Crash(p)
    \/ \E p \in Procs, r \in Runs : Sync(p, r) \/ Begin(p, r)

Spec == Init /\ [][Next]_vars

(* Watches deliver, a queued key is taken up, and a step's Job ends by its *)
(* own deadline.                                                           *)
FairSpec ==
    /\ Spec
    /\ \A p \in Procs : WF_vars(Worker(p))
    /\ \A p \in Procs, r \in Runs : WF_vars(Sync(p, r)) /\ SF_vars(Begin(p, r))

-----------------------------------------------------------------------------
TypeOK ==
    /\ obj \in [Runs -> [phase : Phases, rv : Nat, wf : Workflows \cup {NoWorkflow}]]
    /\ cache \in [Procs -> [Runs -> [phase : Phases, rv : Nat]]]
    /\ worker \in [Procs -> [at : Stages, run : Runs \cup {NoRun}, rv : Nat,
                             pos : 0..NJobs, progress : BOOLEAN, done : SUBSET Jobs,
                             step : 0..NSteps, vars : SUBSET Names, ok : BOOLEAN]]
    /\ starts \in [Runs -> [Jobs -> [Steps -> Nat]]]
    /\ result \in [Runs -> [Jobs -> Results]]
    /\ excuse \in [Runs -> SUBSET Excuses]
    /\ faults \in Nat

(* Copies lag, and one of the object's own version has its phase.          *)
CopiesLag(p, r) ==
    /\ cache[p][r].rv <= obj[r].rv
    /\ cache[p][r].rv = obj[r].rv => cache[p][r].phase = obj[r].phase \/ ~There(r)
    /\ worker[p].run = r => worker[p].rv <= obj[r].rv
    /\ At(p, "claim") /\ worker[p].run = r /\ Current(r, worker[p].rv)
         => obj[r].phase = "Pending"

(* A run is carried out by one worker, claimed, and abandoned only for a   *)
(* reason.                                                                 *)
OneWorker(r) ==
    /\ \A p, q \in Procs : Busy(p, r) /\ Busy(q, r) => p = q
    /\ \A p \in Procs : Busy(p, r) => obj[r].phase \in {"Running", "gone"}
    /\ obj[r].phase = "Running" => (\E p \in Procs : Busy(p, r)) \/ excuse[r] # {}
    /\ \A p \in Procs : Busy(p, r) /\ There(r) /\ excuse[r] = {} => worker[p].rv = obj[r].rv

(* Nothing is done for a request before it is claimed.                     *)
NotBefore(r) ==
    /\ IF obj[r].phase = "absent" THEN obj[r].rv = 0 ELSE obj[r].wf \in Workflows
    /\ obj[r].phase \in {"absent", "Pending"} =>
         \A j \in Jobs : result[r][j] = "none" /\ \A s \in Steps : starts[r][j][s] = 0

(* Every step that has no condition was started.                           *)
Carried(r, j) == \A s \in Steps \ obj[r].wf.jobs[j].guarded : starts[r][j][s] = 1

(* What the worker of a run knows of it is what has happened.              *)
WorkerKnows(p, r) ==
    LET w == worker[p] IN
    /\ \A j \in Jobs :
         /\ j \in w.done => result[r][j] \in Settled /\ obj[r].wf.jobs[j].needs \subseteq w.done
         /\ result[r][j] = "completed" => Carried(r, j)
         /\ j \notin w.done /\ j # w.pos =>
              result[r][j] = "none" /\ \A s \in Steps : starts[r][j][s] = 0
    /\ w.at \in {"auth", "prepare"} => w.done = {} /\ w.pos = 0
    /\ w.at \in {"pick", "auth", "prepare"} => w.pos \in w.done \cup {0}
    /\ w.at \in {"start", "step"} =>
         /\ w.pos \in Jobs \ w.done /\ result[r][w.pos] = "running" /\ w.step \in Steps
         /\ obj[r].wf.jobs[w.pos].needs \subseteq w.done
         /\ \A s \in Steps :
              /\ s > w.step \/ (s = w.step /\ w.at = "start") => starts[r][w.pos][s] = 0
              /\ \/ s < w.step /\ s \notin obj[r].wf.jobs[w.pos].guarded
                 \/ s = w.step /\ w.at = "step"
                 => starts[r][w.pos][s] = 1
    /\ w.ok => w.at = "finish" /\ w.done = Jobs

(* A step's script runs at most once for a request: no controller repeats  *)
(* what another, or its own predecessor, has begun.                        *)
StepsRunOnce == \A r \in Runs, j \in Jobs, s \in Steps : starts[r][j][s] <= 1

(* Only an idle worker has no run in hand, and what is not yet claimed has *)
(* not been worked on.                                                     *)
InHand(p) ==
    LET w == worker[p] IN
    /\ w.run = NoRun <=> w.at = "idle"
    /\ w.at = "claim" => w.done = {} /\ w.pos = 0 /\ ~w.ok

(* The inductive invariant of a run's execution.                           *)
RunInv ==
    /\ TypeOK /\ StepsRunOnce
    /\ \A r \in Runs : OneWorker(r) /\ NotBefore(r)
    /\ \A p \in Procs : InHand(p)
    /\ \A p \in Procs, r \in Runs : CopiesLag(p, r) /\ (Busy(p, r) => WorkerKnows(p, r))

(* A run that is reported as a success has done, or skipped, every job of  *)
(* its workflow, each after all it depends on; so a workflow with a cycle  *)
(* or a dependency on a job it does not have is never one.                 *)
SuccessIsEarned ==
    \A r \in Runs : obj[r].phase = "Succeeded" =>
        \A j \in Jobs : /\ result[r][j] \in Settled
                        /\ result[r][j] = "completed" => Carried(r, j)
                        /\ obj[r].wf.jobs[j].needs \subseteq Jobs

(* executeJobs ends on every graph, and a request is answered with its     *)
(* outcome unless its worker, an answer or a write in between was lost.    *)
RunsEnd ==
    \A r \in Runs : obj[r].phase = "Pending" ~>
        obj[r].phase \in Final \cup {"gone"} \/ excuse[r] # {}

(* Each run as OneShotRun describes it.                                    *)
Work == [r \in Runs |->
    IF obj[r].phase \in {"absent", "Pending"} THEN "none"
    ELSE IF \E p \in Procs : Busy(p, r) THEN "going" ELSE "over"]

OneShot == INSTANCE OneShotRun WITH phase <- [r \in Runs |-> obj[r].phase], work <- Work

(* The reconciler's comment, a run executes once, as far as it holds.      *)
ImplementsOneShot == OneShot!Spec
=============================================================================
