-------------------------- MODULE ClusterLifecycle --------------------------
(***************************************************************************)
(* One ClusterDefinition driven by the controller: the pass that           *)
(* internal/controller/reconciler.go runs around the engine of             *)
(* internal/reconcile/manager.go, step by step, against an API server read *)
(* through an informer cache, a cloud reached through driver Jobs, and     *)
(* users who edit, delete and re-create the definition while a pass is in  *)
(* flight.                                                                 *)
(***************************************************************************)
EXTENDS Naturals, FiniteSets

CONSTANTS
    Params,       \* the values spec.params may take
    FirstParams,  \* those a definition may be created with
    EmptyParams,  \* the empty params map, whose hash is the empty string
    NoHash,       \* the empty string in status.driverOutputs[HYVE_LAST_PARAMS_HASH]
    MaxEdits,     \* bound on what users, dependencies and clocks do
    MaxFaults,    \* bound on failures of operations, API calls and processes
    MaxUid        \* bound on incarnations of the definition

ASSUME ConstantsAssumption ==
    /\ EmptyParams \in Params /\ FirstParams \subseteq Params
    /\ NoHash \notin Params
    /\ MaxEdits \in Nat /\ MaxFaults \in Nat
    /\ MaxUid \in Nat \ {0}

VARIABLES
    cr,       \* the ClusterDefinition the API server holds
    cache,    \* the version of it the controller's informer cache holds
    cloud,    \* what the driver module's status op would find
    orphans,  \* driver Jobs still running that no pass waits for any more
    depsMet,  \* every spec.dependsOn entry is ACTIVE
    expired,  \* spec.expiresAt has passed
    pc,       \* where the controller's worker for this key is
    pass,     \* the locals of the pass in flight
    edits,    \* edits so far
    faults,   \* faults so far
    excuse    \* history: what has gone wrong so far, see Excuses

vars == <<cr, cache, cloud, orphans, depsMet, expired, pc, pass, edits, faults, excuse>>

Statuses == {"NOT_FOUND", "CREATING", "ACTIVE", "UPDATING", "DELETING", "FAILED"}
InProgress == {"CREATING", "UPDATING", "DELETING"}
Phases == Statuses \cup {""}
Hashes == (Params \ {EmptyParams}) \cup {NoHash}
Jobs == [op : {"create", "scale", "delete"}, params : Params]
Excuses == {"jobLost", "skippedRelease", "saveLost", "stalePass"}
Pcs == {"idle", "addFinalizer", "check", "status", "create", "createSave", "createTail",
        "scale", "scaleSave", "activeTail", "delete", "remove", "finish",
        "recordDelete", "unfinalize"}

Objects == [exists : BOOLEAN, uid : 0..MaxUid, params : Params, delete : BOOLEAN,
            pause : BOOLEAN, dt : BOOLEAN, fin : BOOLEAN, hash : Hashes,
            phase : Phases, ready : BOOLEAN, error : BOOLEAN]

Passes == [obj : Objects, hash : Hashes, delete : BOOLEAN, phase : Phases,
           skip : BOOLEAN, err : BOOLEAN, out : BOOLEAN]

Clouds == [st : Statuses, params : Params, asked : BOOLEAN]

(* The object once it has left etcd: only its incarnation number is kept.  *)
Gone(u) == [exists |-> FALSE, uid |-> u, params |-> EmptyParams, delete |-> FALSE,
            pause |-> FALSE, dt |-> FALSE, fin |-> FALSE, hash |-> NoHash,
            phase |-> "", ready |-> FALSE, error |-> FALSE]

NoPass == [obj |-> Gone(0), hash |-> NoHash, delete |-> FALSE, phase |-> "",
           skip |-> FALSE, err |-> FALSE, out |-> FALSE]

(* ParamsHash: injective, and the empty string for an empty map.           *)
ParamsHash(p) == IF p = EmptyParams THEN NoHash ELSE p

(* paramsChanged: a definition with no recorded hash never drifts.         *)
ParamsChanged(h, p) == h # NoHash /\ h # ParamsHash(p)

(* The pass was started by reconcileDelete rather than by Reconcile.       *)
Deleting == pass.obj.dt

Fault == faults < MaxFaults /\ faults' = faults + 1
Edit  == edits < MaxEdits /\ edits' = edits + 1
NoFault == UNCHANGED faults

Init ==
    /\ cr = Gone(0) /\ cache = Gone(0)
    /\ cloud = [st |-> "NOT_FOUND", params |-> EmptyParams, asked |-> FALSE]
    /\ orphans = {}
    /\ depsMet = TRUE /\ expired = FALSE
    /\ pc = "idle" /\ pass = NoPass
    /\ edits = 0 /\ faults = 0
    /\ excuse = {}

-----------------------------------------------------------------------------
(* Users, and the conditions a pass reads that it does not control.        *)

UserCreate ==
    /\ ~cr.exists /\ cr.uid < MaxUid
    /\ \E p \in FirstParams :
         cr' = [Gone(cr.uid + 1) EXCEPT !.exists = TRUE, !.params = p]
    /\ UNCHANGED <<cache, cloud, orphans, depsMet, expired, pc, pass, edits, faults, excuse>>

UserEdit ==
    /\ cr.exists /\ Edit
    /\ \/ \E p \in Params \ {cr.params} : cr' = [cr EXCEPT !.params = p]
       \/ cr' = [cr EXCEPT !.pause = ~@]
       \/ cr' = [cr EXCEPT !.delete = ~@]
    /\ UNCHANGED <<cache, cloud, orphans, depsMet, expired, pc, pass, faults, excuse>>

(* A deletion request: an object with a finalizer only gets its timestamp. *)
Deleted(o) == IF o.fin THEN [o EXCEPT !.dt = TRUE] ELSE Gone(o.uid)

(* handleDeleteCluster and kubectl delete.                                 *)
UserDelete ==
    /\ cr.exists /\ ~cr.dt
    /\ cr' = Deleted(cr)
    /\ UNCHANGED <<cache, cloud, orphans, depsMet, expired, pc, pass, edits, faults, excuse>>

DependencyChanges ==
    /\ Edit
    /\ depsMet' = ~depsMet
    /\ UNCHANGED <<cr, cache, cloud, orphans, expired, pc, pass, faults, excuse>>

Expire ==
    /\ ~expired /\ Edit
    /\ expired' = TRUE
    /\ UNCHANGED <<cr, cache, cloud, orphans, depsMet, pc, pass, faults, excuse>>

(* The watch delivers: the cached copy catches up.                         *)
CacheSync ==
    /\ cache # cr
    /\ cache' = cr
    /\ UNCHANGED <<cr, cloud, orphans, depsMet, expired, pc, pass, edits, faults, excuse>>

-----------------------------------------------------------------------------
(* The cloud, and the effect a driver operation has on it.                 *)

CloudSettles ==
    /\ cloud.st \in InProgress
    /\ cloud' = IF cloud.st = "DELETING"
                THEN [cloud EXCEPT !.st = "NOT_FOUND", !.params = EmptyParams]
                ELSE [cloud EXCEPT !.st = "ACTIVE"]
    /\ UNCHANGED <<cr, cache, orphans, depsMet, expired, pc, pass, edits, faults, excuse>>

CloudFails ==
    /\ cloud.st \in InProgress \cup {"ACTIVE"} /\ Fault
    /\ cloud' = [cloud EXCEPT !.st = "FAILED"]
    /\ UNCHANGED <<cr, cache, orphans, depsMet, expired, pc, pass, edits, excuse>>

(* The clouds a successful run of job j may leave behind.                  *)
Effect(j) ==
    CASE j.op = "create" /\ cloud.st \in {"NOT_FOUND", "FAILED"} ->
           {[st |-> s, params |-> j.params, asked |-> FALSE] : s \in {"CREATING", "ACTIVE"}}
      [] j.op = "scale" /\ cloud.st \in {"ACTIVE", "UPDATING"} ->
           {[cloud EXCEPT !.st = s, !.params = j.params] : s \in {"ACTIVE", "UPDATING"}}
      [] j.op = "delete" /\ cloud.st # "NOT_FOUND" ->
           {[st |-> "NOT_FOUND", params |-> EmptyParams, asked |-> TRUE],
            [cloud EXCEPT !.st = "DELETING", !.asked = TRUE]}
      [] OTHER -> {cloud}

(* A Job nobody waits for runs to its end, or dies at its deadline.        *)
OrphanEnds ==
    /\ \E j \in orphans :
         /\ orphans' = orphans \ {j}
         /\ cloud' \in Effect(j) \cup {cloud}
    /\ UNCHANGED <<cr, cache, depsMet, expired, pc, pass, edits, faults, excuse>>

-----------------------------------------------------------------------------
(* The pass. Every write goes through the cached client: Get returns the   *)
(* cache, and Update is refused unless that copy is the current version.   *)

CanWrite == cache.exists /\ cache = cr

(* A read-modify-write of the object: it lands, or it is refused or fails. *)
Write(new) ==
    \/ CanWrite /\ cr' = new /\ NoFault
    \/ ~CanWrite /\ cr' = cr /\ NoFault
    \/ CanWrite /\ Fault /\ cr' = cr

(* Mutants of Return: a deletion ends even when the pass failed; and only  *)
(* once an output was recorded.                                            *)
ReturnIgnoringError(p) ==
    /\ pass' = p
    /\ pc' = CASE ~Deleting -> "finish"
               [] Deleting /\ p.out -> "recordDelete"
               [] OTHER -> "unfinalize"

ReturnAwaitingOutput(p) ==
    /\ pass' = IF Deleting /\ ~p.out THEN NoPass ELSE p
    /\ pc' = CASE ~Deleting -> "finish"
               [] Deleting /\ p.out -> "recordDelete"
               [] OTHER -> "idle"

(* ReconcileOne has returned: both callers end the pass their own way.     *)
Return(p) ==
    /\ pass' = IF Deleting /\ p.err /\ ~p.out THEN NoPass ELSE p
    /\ pc' = CASE ~Deleting -> "finish"
               [] Deleting /\ p.out -> "recordDelete"
               [] Deleting /\ ~p.out /\ ~p.err -> "unfinalize"
               [] OTHER -> "idle"

(* The Job of the operation at pc, as module.Executor dispatches it.       *)
Job == [op |-> pc, params |-> pass.obj.params]

(* Mutant of StartPass: a fresh object is dispatched without its finalizer. *)
StartPassAtOnce ==
    /\ pc = "idle" /\ cache.exists
    /\ pass' = [NoPass EXCEPT !.obj = cache, !.hash = cache.hash,
                              !.delete = cache.delete \/ cache.dt]
    /\ pc' = "check"
    /\ excuse' = IF cache.hash # cr.hash THEN excuse \cup {"stalePass"} ELSE excuse
    /\ UNCHANGED <<cr, cache, cloud, orphans, depsMet, expired, edits, faults>>

StartPass ==
    /\ pc = "idle" /\ cache.exists
    /\ pass' = [NoPass EXCEPT !.obj = cache, !.hash = cache.hash,
                              !.delete = cache.delete \/ cache.dt]
    /\ \/ ~cache.dt /\ ~cache.fin /\ pc' = "addFinalizer"
       \/ cache.fin /\ pc' = "check"
    /\ excuse' = IF cache.hash # cr.hash THEN excuse \cup {"stalePass"} ELSE excuse
    /\ UNCHANGED <<cr, cache, cloud, orphans, depsMet, expired, edits, faults>>

AddFinalizer ==
    /\ pc = "addFinalizer"
    /\ \/ pass.obj = cr /\ cr' = [cr EXCEPT !.fin = TRUE] /\ NoFault
       \/ pass.obj # cr /\ cr' = cr /\ NoFault
       \/ pass.obj = cr /\ Fault /\ cr' = cr
    /\ pc' = "idle" /\ pass' = NoPass
    /\ UNCHANGED <<cache, cloud, orphans, depsMet, expired, edits, excuse>>

(* ReconcileOne up to the dispatch: validation, pause, expiry, dependsOn.  *)
(* A dependsOn check that fails lets the pass through.                     *)
Check ==
    /\ pc = "check"
    /\ \/ Fault /\ Return([pass EXCEPT !.err = TRUE])
       \/ pass.obj.pause /\ NoFault /\ Return([pass EXCEPT !.skip = TRUE])
       \/ ~pass.obj.pause /\ ~depsMet /\ NoFault /\ Return([pass EXCEPT !.skip = TRUE])
       \/ /\ ~pass.obj.pause /\ (IF depsMet THEN NoFault ELSE Fault)
          /\ pc' = "status"
          /\ pass' = [pass EXCEPT !.delete = @ \/ expired]
    /\ UNCHANGED <<cr, cache, cloud, orphans, depsMet, expired, edits, excuse>>

(* reconcileCluster's switch, on the status the driver reported.           *)
Dispatch(s) ==
    LET p == [pass EXCEPT !.phase = IF Deleting THEN "" ELSE s]
    IN  \/ /\ pass.delete /\ s \in {"ACTIVE", "FAILED"}
           /\ pc' = "delete"
           /\ pass' = [p EXCEPT !.phase = IF Deleting THEN "" ELSE "DELETING"]
        \/ pass.delete /\ s = "NOT_FOUND" /\ pc' = "remove" /\ pass' = p
        \/ ~pass.delete /\ s \in {"NOT_FOUND", "FAILED"} /\ pc' = "create" /\ pass' = p
        \/ /\ ~pass.delete /\ s = "ACTIVE" /\ pass' = p
           /\ pc' = IF ParamsChanged(pass.hash, pass.obj.params) THEN "scale" ELSE "activeTail"
        \/ s \in InProgress /\ Return([p EXCEPT !.skip = TRUE])
        \/ s = "" /\ Return([p EXCEPT !.err = TRUE])

Status ==
    /\ pc = "status"
    /\ \/ Fault /\ Return([pass EXCEPT !.err = TRUE])
       \/ Fault /\ Dispatch("")
       \/ NoFault /\ Dispatch(cloud.st)
    /\ UNCHANGED <<cr, cache, cloud, orphans, depsMet, expired, edits, excuse>>

(* k8sjob.Run gave up on a Job that may have acted or still act: a timeout, *)
(* a failed poll, a script that exits non-zero after its work is done.     *)
LoseJob == Fault /\ orphans' = orphans \cup {Job} /\ excuse' = excuse \cup {"jobLost"}

(* createCluster up to the create op: its Job succeeds, fails, or is lost. *)
Create ==
    /\ pc = "create"
    /\ \/ /\ cloud' \in Effect(Job) /\ NoFault
          /\ pc' = "createSave"
          /\ pass' = [pass EXCEPT !.hash = ParamsHash(pass.obj.params)]
          /\ UNCHANGED <<orphans, excuse>>
       \/ /\ Fault /\ cloud' \in {cloud, [cloud EXCEPT !.st = IF @ = "NOT_FOUND" THEN "FAILED" ELSE @,
                                                       !.asked = FALSE]}
          /\ Return([pass EXCEPT !.err = TRUE])
          /\ UNCHANGED <<orphans, excuse>>
       \/ LoseJob /\ Return([pass EXCEPT !.err = TRUE]) /\ UNCHANGED cloud
    /\ UNCHANGED <<cr, cache, depsMet, expired, edits>>

(* SaveClusterDefinition: the status the pass holds replaces the stored one. *)
Save(next) ==
    /\ Write([cr EXCEPT !.hash = pass.hash])
    /\ pc' = next
    /\ excuse' = IF cr'.hash = pass.hash THEN excuse ELSE excuse \cup {"saveLost"}

CreateSave ==
    /\ pc = "createSave"
    /\ Save("createTail")
    /\ pass' = [pass EXCEPT !.phase = "CREATING"]
    /\ UNCHANGED <<cache, cloud, orphans, depsMet, expired, edits>>

(* Auth, onCreate, resources and afterCreate: all soft; resources may save. *)
CreateTail ==
    /\ pc = "createTail"
    /\ Return(pass)
    /\ \/ Write([cr EXCEPT !.hash = pass.hash])
       \/ cr' = cr /\ NoFault
    /\ UNCHANGED <<cache, cloud, orphans, depsMet, expired, edits, excuse>>

(* Mutants of Scale: a failed scale op records its hash; one that          *)
(* succeeds records none.                                                  *)
ScaleRecordsFailure ==
    /\ pc = "scale"
    /\ \/ cloud' \in Effect(Job) /\ NoFault
       \/ cloud' = cloud /\ Fault
    /\ pc' = "scaleSave"
    /\ pass' = [pass EXCEPT !.hash = ParamsHash(pass.obj.params)]
    /\ UNCHANGED <<cr, cache, orphans, depsMet, expired, edits, excuse>>

ScaleUnrecorded ==
    /\ pc = "scale"
    /\ cloud' \in Effect(Job)
    /\ pc' = "activeTail"
    /\ UNCHANGED <<cr, cache, orphans, depsMet, expired, pass, edits, faults, excuse>>

Scale ==
    /\ pc = "scale"
    /\ \/ /\ cloud' \in Effect(Job) /\ NoFault
          /\ pc' = "scaleSave"
          /\ pass' = [pass EXCEPT !.hash = ParamsHash(pass.obj.params)]
          /\ UNCHANGED <<orphans, excuse>>
       \/ Fault /\ pc' = "activeTail" /\ UNCHANGED <<cloud, pass, orphans, excuse>>
       \/ LoseJob /\ pc' = "activeTail" /\ UNCHANGED <<cloud, pass>>
    /\ UNCHANGED <<cr, cache, depsMet, expired, edits>>

ScaleSave ==
    /\ pc = "scaleSave"
    /\ Save("activeTail")
    /\ UNCHANGED <<cache, cloud, orphans, depsMet, expired, pass, edits>>

(* reconcileAgent (soft) and reconcileResources (its error is the pass's). *)
ActiveTail ==
    /\ pc = "activeTail"
    /\ \/ Write([cr EXCEPT !.hash = pass.hash]) /\ Return(pass)
       \/ cr' = cr /\ NoFault /\ Return(pass)
       \/ cr' = cr /\ Fault /\ Return([pass EXCEPT !.err = TRUE])
    /\ UNCHANGED <<cache, cloud, orphans, depsMet, expired, edits, excuse>>

(* deleteCluster up to the delete op; out: its output reached the hooks.   *)
Delete ==
    /\ pc = "delete"
    /\ \/ /\ cloud' \in Effect(Job) /\ NoFault
          /\ \E o \in BOOLEAN : pass' = [pass EXCEPT !.out = o]
          /\ pc' = "remove"
          /\ UNCHANGED <<orphans, excuse>>
       \/ /\ Fault /\ cloud' \in {cloud, [cloud EXCEPT !.st = IF @ = "NOT_FOUND" THEN @ ELSE "FAILED"]}
          /\ \E o \in BOOLEAN : Return([pass EXCEPT !.out = o, !.err = TRUE])
          /\ UNCHANGED <<orphans, excuse>>
       \/ LoseJob /\ Return([pass EXCEPT !.err = TRUE]) /\ UNCHANGED cloud
    /\ UNCHANGED <<cr, cache, depsMet, expired, edits>>

(* RemoveClusterFile: a Delete by name, whatever object bears it now.      *)
Remove ==
    /\ pc = "remove"
    /\ \/ NoFault /\ cr' = (IF cr.exists THEN Deleted(cr) ELSE cr) /\ Return(pass)
       \/ Fault /\ cr' = cr /\ Return([pass EXCEPT !.err = TRUE])
    /\ UNCHANGED <<cache, cloud, orphans, depsMet, expired, edits, excuse>>

(* Reconcile's last write: phase, and Ready and Error as one pair.         *)
Finish ==
    /\ pc = "finish"
    /\ LET phase == IF pass.phase = "" THEN pass.obj.phase ELSE pass.phase
       IN  Write([cr EXCEPT !.phase = phase, !.error = pass.err,
                            !.ready = ~pass.err /\ phase = "ACTIVE"])
    /\ pc' = "idle" /\ pass' = NoPass
    /\ UNCHANGED <<cache, cloud, orphans, depsMet, expired, edits, excuse>>

(* recordDeleteOutput: on a failed delete, the Error condition alone.      *)
RecordDelete ==
    /\ pc = "recordDelete"
    /\ Write([cr EXCEPT !.error = @ \/ pass.err])
    /\ IF pass.err THEN pc' = "idle" /\ pass' = NoPass
                   ELSE pc' = "unfinalize" /\ pass' = pass
    /\ UNCHANGED <<cache, cloud, orphans, depsMet, expired, edits, excuse>>

(* What the API server makes of an object whose finalizer is removed.      *)
Unfinalized(o) == IF o.dt THEN Gone(o.uid) ELSE [o EXCEPT !.fin = FALSE]

(* reconcileDelete's end: the finalizer goes because ReconcileOne returned nil. *)
Unfinalize ==
    /\ pc = "unfinalize"
    /\ Write(Unfinalized(cr))
    /\ excuse' = IF pass.skip /\ cr' # cr THEN excuse \cup {"skippedRelease"} ELSE excuse
    /\ pc' = "idle" /\ pass' = NoPass
    /\ UNCHANGED <<cache, cloud, orphans, depsMet, expired, edits>>

(* The controller process dies: its Job runs on, the cache is rebuilt.     *)
Crash ==
    /\ pc # "idle" /\ Fault
    /\ IF pc \in {"create", "scale", "delete"}
       THEN orphans' = orphans \cup {Job} /\ excuse' = excuse \cup {"jobLost"}
       ELSE /\ orphans' = orphans
            /\ excuse' = IF pc \in {"createSave", "scaleSave"}
                         THEN excuse \cup {"saveLost"} ELSE excuse
    /\ cache' = cr
    /\ pc' = "idle" /\ pass' = NoPass
    /\ UNCHANGED <<cr, cloud, depsMet, expired, edits>>

-----------------------------------------------------------------------------
Environment == UserCreate \/ UserEdit \/ UserDelete \/ DependencyChanges \/ Expire
               \/ CloudFails \/ Crash

Worker == StartPass \/ AddFinalizer \/ Check \/ Status \/ Create \/ CreateSave
          \/ CreateTail \/ Scale \/ ScaleSave \/ ActiveTail \/ Delete \/ Remove
          \/ Finish \/ RecordDelete \/ Unfinalize

Next == Environment \/ Worker \/ CacheSync \/ CloudSettles \/ OrphanEnds

Spec == Init /\ [][Next]_vars

(* The controller's queue re-runs a key at least every resyncInterval, the *)
(* watch delivers, the cloud leaves its in-progress states, and a Job ends *)
(* by its activeDeadlineSeconds.                                           *)
FairSpec == Spec /\ WF_vars(Worker) /\ WF_vars(CacheSync)
                 /\ WF_vars(CloudSettles) /\ WF_vars(OrphanEnds)

-----------------------------------------------------------------------------
TypeOK ==
    /\ cr \in Objects /\ cache \in Objects
    /\ cloud \in Clouds
    /\ orphans \subseteq Jobs
    /\ depsMet \in BOOLEAN /\ expired \in BOOLEAN
    /\ pc \in Pcs /\ pass \in Passes
    /\ edits \in Nat /\ faults \in Nat
    /\ excuse \subseteq Excuses

Excused(kinds) == excuse \cap kinds # {}

(* ClusterDefinitionFinalizer: the object never leaves etcd while its      *)
(* cluster exists and no delete op was accepted, except after a pass that  *)
(* returned nil without dispatching one, or after losing track of a Job.   *)
NoLeakUnlessExcused ==
    ~cr.exists /\ cloud.st # "NOT_FOUND" =>
        cloud.asked \/ Excused({"skippedRelease", "jobLost"})

(* clusterConditions and recordDeleteOutput together: Ready and Error are  *)
(* both true only on an object that is being deleted.                      *)
ReadyAndErrorOnlyWhileDeleting == cr.ready /\ cr.error => cr.dt

(* A cluster that is up with no delete op accepted and nothing excused.    *)
Exposed ==
    cloud.st # "NOT_FOUND" /\ ~cloud.asked /\ ~Excused({"skippedRelease", "jobLost"})

(* Incarnations only grow, and each reader lags behind what it read from.  *)
ReadersLag ==
    /\ pass.obj.uid <= cache.uid /\ cache.uid <= cr.uid
    /\ cr.fin => cache.uid = cr.uid
    /\ cr.exists /\ cache.uid = cr.uid /\ cache.dt => cr.dt
    /\ cache.fin /\ ~cache.dt => cr.fin

(* Marks of deletion and ownership are found on existing objects only.     *)
MarksNeedObject ==
    /\ cr.fin \/ cr.dt \/ cr.ready => cr.exists
    /\ cache.fin \/ cache.dt => cache.exists
    /\ cr.ready => cr.fin

(* What a step of the pass may rely on about the object and the cloud.     *)
PassKnows ==
    /\ pc \notin {"idle", "addFinalizer"} /\ ~Deleting => cr.fin
    /\ pc # "idle" /\ Deleting /\ cr.fin => cr.dt
    /\ pc # "idle" => pass.obj.exists
    /\ pc = "addFinalizer" => ~Deleting
    /\ Deleting => pass.delete
    /\ pc \in {"create", "createSave", "createTail", "scale", "scaleSave",
               "activeTail"} => ~pass.delete
    /\ pc = "finish" => ~Deleting
    /\ pc \in {"recordDelete", "unfinalize"} => Deleting
    /\ pc \in {"check", "status"} => ~pass.out
    /\ pc \in {"check", "status", "delete", "remove"} => ~pass.skip
    /\ pc = "remove" => ~Exposed
    /\ pc = "recordDelete" /\ ~pass.err => ~Exposed
    /\ pc = "unfinalize" /\ ~pass.skip => ~Exposed
    /\ pc = "create" => cloud.st \in {"NOT_FOUND", "FAILED"} \/ "jobLost" \in excuse

(* The inductive invariant behind the theorems: while a cluster is exposed *)
(* its definition is in etcd and carries the finalizer.                    *)
FinalizerInv ==
    /\ Exposed => cr.fin
    /\ orphans # {} => "jobLost" \in excuse
    /\ ReadersLag /\ MarksNeedObject /\ PassKnows
    /\ ReadyAndErrorOnlyWhileDeleting

(* createCluster's and the scale branch's bookkeeping: the recorded hash   *)
(* is that of the params the cluster runs with, except while an operation's *)
(* outcome is not yet saved, or after a lost save, a lost Job, or a pass   *)
(* that began on a stale copy.                                             *)
HashMeansApplied ==
    /\ cr.exists /\ cr.hash # NoHash
    /\ cloud.st \in {"CREATING", "ACTIVE", "UPDATING"}
    /\ pc \notin {"createSave", "scaleSave"}
    => \/ cr.hash = ParamsHash(cloud.params)
       \/ Excused({"saveLost", "jobLost", "stalePass"})

(* The inductive invariant behind it: unless excused, a pass that may save *)
(* holds the hash that is recorded, or that of what it has just applied.   *)
HashInv ==
    Excused({"saveLost", "jobLost", "stalePass"}) \/
    /\ HashMeansApplied
    /\ pc \in {"check", "status", "create", "createTail", "scale", "activeTail"} /\ ~Deleting
         => pass.hash = cr.hash
    /\ pc \in {"createSave", "scaleSave"} /\ cloud.st \in {"CREATING", "ACTIVE", "UPDATING"}
         => pass.hash = ParamsHash(cloud.params)
    /\ pc = "scale" => cloud.st \in {"ACTIVE", "FAILED"}

(* What every reachable state satisfies: the types, and the two invariants.*)
LifecycleInv == TypeOK /\ FinalizerInv /\ HashInv

(* createCluster: a create op that succeeds found no cluster to duplicate, *)
(* unless a Job the controller lost track of was at work too.              *)
CreateFindsNoCluster ==
    [][pc = "create" /\ pc' = "createSave" =>
         cloud.st \in {"NOT_FOUND", "FAILED"} \/ Excused({"jobLost"})]_vars

(* The comment on RemoveClusterFile: its Delete confirms the request the   *)
(* pass has seen, and never deletes an object created since.               *)
RemoveOnlyOwnIncarnation ==
    [][pc = "remove" /\ cr' # cr => pass.obj.uid = cr.uid]_vars

(* A driver Job, and the wait before the next pass, outlast the watch's    *)
(* lag: from some point on no pass begins, or starts or ends an operation, *)
(* on a stale copy.                                                        *)
WatchKeepsUp ==
    <>[][pc' # pc /\ pc \in {"idle", "status", "create", "scale", "delete"}
           => cache = cr]_vars

(* reconcileDelete: a deletion request ends with the object gone, whatever *)
(* its spec says and whatever failed on the way.                           *)
DeletionCompletes ==
    WatchKeepsUp => \A u \in 1..MaxUid :
        (cr.exists /\ cr.dt /\ cr.uid = u) ~> ~(cr.exists /\ cr.uid = u)

Wanted == cr.exists /\ ~cr.delete /\ ~cr.dt /\ ~cr.pause /\ depsMet /\ ~expired

(* A definition that stays wanted ends up, and stays, Ready on a cluster   *)
(* that is up, with no drift against the params last recorded as applied.  *)
WantedConverges ==
    WatchKeepsUp /\ <>[]Wanted =>
        <>[](/\ cr.ready /\ ~cr.error /\ cloud.st = "ACTIVE"
             /\ ~ParamsChanged(cr.hash, cr.params))
=============================================================================
