------------------------- MODULE WorkflowRunsProofs -------------------------
(***************************************************************************)
(* For every number of runs, controller processes, jobs, steps and faults: *)
(* a run is carried out by one worker, its steps run at most once, what is *)
(* reported as a success was earned, and each run behaves as OneShotRun    *)
(* says.                                                                   *)
(***************************************************************************)
EXTENDS WorkflowRuns, TLAPS

Objects == [phase : Phases, rv : Nat, wf : Workflows \cup {NoWorkflow}]
Copies  == [phase : Phases, rv : Nat]
Workers == [at : Stages, run : Runs \cup {NoRun}, rv : Nat, pos : 0..NJobs,
            progress : BOOLEAN, done : SUBSET Jobs, step : 0..NSteps,
            vars : SUBSET Names, ok : BOOLEAN]

LEMMA Sizes == 0 \in 0..NJobs /\ 0 \in 0..NSteps /\ Jobs \subseteq 0..NJobs
               /\ Steps \subseteq 0..NSteps /\ 1 \in Steps
               /\ \A j \in Jobs : j \in Nat /\ j # 0
               /\ \A s \in Steps : s \in Nat /\ s # 0
BY WorkflowAssumption DEF Jobs, Steps

LEMMA IdleTyped == Idle \in Workers /\ Idle.run = NoRun /\ Idle.at = "idle"
BY Sizes DEF Idle, Workers, Stages

(* What each variable holds.                                               *)
LEMMA Typed ==
    ASSUME TypeOK
    PROVE  /\ obj \in [Runs -> Objects] /\ cache \in [Procs -> [Runs -> Copies]]
           /\ worker \in [Procs -> Workers]
           /\ starts \in [Runs -> [Jobs -> [Steps -> Nat]]]
           /\ result \in [Runs -> [Jobs -> Results]]
           /\ excuse \in [Runs -> SUBSET Excuses] /\ faults \in Nat
BY DEF TypeOK, Objects, Copies, Workers

LEMMA TypedBack ==
    ASSUME obj \in [Runs -> Objects], cache \in [Procs -> [Runs -> Copies]],
           worker \in [Procs -> Workers],
           starts \in [Runs -> [Jobs -> [Steps -> Nat]]],
           result \in [Runs -> [Jobs -> Results]],
           excuse \in [Runs -> SUBSET Excuses], faults \in Nat
    PROVE  TypeOK
BY DEF TypeOK, Objects, Copies, Workers

LEMMA TypeFrame ==
    ASSUME TypeOK, worker' \in [Procs -> Workers],
           UNCHANGED <<obj, cache, starts, result, excuse, faults>>
    PROVE  TypeOK'
BY DEF TypeOK, Workers

LEMMA InitInv == Init => RunInv
<1> SUFFICES ASSUME Init PROVE RunInv
  OBVIOUS
<1> USE DEF Init
<1>1. TypeOK
  <2>1. obj \in [Runs -> Objects] /\ cache \in [Procs -> [Runs -> Copies]]
    BY DEF Objects, Copies, Absent, Phases
  <2>2. worker \in [Procs -> Workers]
    BY IdleTyped
  <2>3. result \in [Runs -> [Jobs -> Results]] /\ excuse \in [Runs -> SUBSET Excuses]
    BY DEF Results
  <2>4. starts \in [Runs -> [Jobs -> [Steps -> Nat]]] /\ faults \in Nat
    OBVIOUS
  <2> QED
    BY <2>1, <2>2, <2>3, <2>4, TypedBack
<1>2. \A p \in Procs, r \in Runs : worker[p].run = NoRun /\ worker[p].at = "idle" /\ r # NoRun
  BY IdleTyped, WorkflowAssumption
<1>3. ASSUME NEW p \in Procs, NEW r \in Runs PROVE CopiesLag(p, r) /\ ~Busy(p, r)
  <2>1. /\ obj[r].phase = "absent" /\ obj[r].rv = 0
        /\ cache[p][r].rv = 0 /\ worker[p].run # r /\ worker[p].at = "idle"
    BY <1>2 DEF Absent
  <2> QED
    BY <2>1 DEF CopiesLag, At, There, Busy
<1>4. \A r \in Runs : OneWorker(r) /\ NotBefore(r)
  BY <1>3 DEF OneWorker, NotBefore
<1>5. StepsRunOnce
  BY DEF StepsRunOnce
<1>6. ASSUME NEW p \in Procs PROVE InHand(p)
  BY IdleTyped DEF InHand
<1> QED
  BY <1>1, <1>3, <1>4, <1>5, <1>6 DEF RunInv

-----------------------------------------------------------------------------
(* What is left alone stays as it was: the copies of an object that was    *)
(* not written, or was written anew; whoever carries out a run; and what   *)
(* its worker knows.                                                       *)
LEMMA LagFrame ==
    ASSUME TypeOK, NEW p \in Procs, NEW r \in Runs, CopiesLag(p, r),
           cache'[p][r] = cache[p][r],
           worker'[p].run = r => /\ worker[p].run = r /\ worker'[p].rv = worker[p].rv
                                 /\ worker'[p].at = "claim" => worker[p].at = "claim",
           \/ obj'[r] = obj[r]
           \/ obj'[r].rv = obj[r].rv /\ obj'[r].phase = "gone"
           \/ obj'[r].rv = obj[r].rv + 1
    PROVE  CopiesLag(p, r)'
<1>1. obj[r].rv \in Nat /\ cache[p][r].rv \in Nat /\ worker[p].rv \in Nat
  BY Typed DEF Objects, Copies, Workers
<1> QED
  BY <1>1 DEF CopiesLag, At, There, Current

LEMMA OneFrame ==
    ASSUME NEW r \in Runs, OneWorker(r),
           \A p \in Procs : Busy(p, r)' <=> Busy(p, r),
           \A p \in Procs : Busy(p, r) => worker'[p].rv = worker[p].rv,
           obj'[r].phase \in {obj[r].phase, "gone"},
           obj'[r].rv = obj[r].rv \/ excuse'[r] # {},
           excuse'[r] = {} => excuse[r] = {}
    PROVE  OneWorker(r)'
<1>1. (\A p, q \in Procs : Busy(p, r) /\ Busy(q, r) => p = q)'
  BY DEF OneWorker
<1>2. (\A p \in Procs : Busy(p, r) => obj[r].phase \in {"Running", "gone"})'
  BY DEF OneWorker
<1>3. (obj[r].phase = "Running" => (\E p \in Procs : Busy(p, r)) \/ excuse[r] # {})'
  BY DEF OneWorker
<1>4. (\A p \in Procs : Busy(p, r) /\ There(r) /\ excuse[r] = {} => worker[p].rv = obj[r].rv)'
  BY DEF OneWorker, There
<1> QED
  BY <1>1, <1>2, <1>3, <1>4 DEF OneWorker

LEMMA BeforeFrame ==
    ASSUME NEW r \in Runs, NotBefore(r), obj'[r].wf = obj[r].wf,
           result'[r] = result[r], starts'[r] = starts[r],
           \/ obj'[r] = obj[r]
           \/ obj'[r].phase = obj[r].phase /\ obj[r].phase # "absent"
           \/ obj'[r].phase \notin {"absent", "Pending"} /\ obj[r].phase # "absent"
    PROVE  NotBefore(r)'
BY DEF NotBefore

LEMMA KnowsFrame ==
    ASSUME NEW p \in Procs, NEW r \in Runs, WorkerKnows(p, r), worker'[p] = worker[p],
           obj'[r].wf = obj[r].wf, result'[r] = result[r], starts'[r] = starts[r]
    PROVE  WorkerKnows(p, r)'
BY DEF WorkerKnows, Carried

(* A step that has no part in carrying out a run.                          *)
LEMMA ObjectStep ==
    ASSUME RunInv, TypeOK', NEW r \in Runs, UNCHANGED <<worker, starts, result>>,
           \A q \in Runs \ {r} : obj'[q] = obj[q] /\ excuse'[q] = excuse[q],
           \A p \in Procs, q \in Runs \ {r} : cache'[p][q] = cache[p][q],
           obj[r].phase # "absent" => obj'[r].wf = obj[r].wf,
           OneWorker(r)', NotBefore(r)', \A p \in Procs : CopiesLag(p, r)'
    PROVE  RunInv'
<1> USE DEF RunInv
<1>1. StepsRunOnce'
  BY DEF StepsRunOnce
<1>2. \A p \in Procs, q \in Runs : Busy(p, q)' <=> Busy(p, q)
  BY DEF Busy
<1>3. ASSUME NEW q \in Runs PROVE OneWorker(q)' /\ NotBefore(q)'
  BY <1>2, <1>3, OneFrame, BeforeFrame
<1>4. ASSUME NEW p \in Procs, NEW q \in Runs PROVE CopiesLag(p, q)'
  BY <1>4, LagFrame
<1>5. ASSUME NEW p \in Procs, NEW q \in Runs, Busy(p, q)' PROVE WorkerKnows(p, q)'
  <2>1. Busy(p, q) /\ obj[q].phase # "absent" /\ obj'[q].wf = obj[q].wf
    BY <1>2, <1>5 DEF OneWorker
  <2> QED
    BY <2>1, KnowsFrame
<1>6. ASSUME NEW p \in Procs PROVE InHand(p)'
  BY DEF InHand
<1> QED
  BY <1>1, <1>3, <1>4, <1>5, <1>6

-----------------------------------------------------------------------------
(* A request is submitted, touched or removed, or a copy of it catches up. *)
LEMMA SubmitKeeps ==
    ASSUME RunInv, NEW r \in Runs, Submit(r)
    PROVE  RunInv'
<1> USE Typed DEF RunInv
<1>1. PICK w \in Workflows : obj' = [obj EXCEPT ![r] = [phase |-> "Pending", rv |-> 1, wf |-> w]]
  BY DEF Submit
<1>2. /\ obj[r].phase = "absent" /\ obj[r].rv = 0
      /\ UNCHANGED <<cache, worker, starts, result, excuse, faults>>
  BY DEF Submit, NotBefore
<1>3. /\ obj'[r].phase = "Pending" /\ obj'[r].rv = 1 /\ obj'[r].wf = w
      /\ \A q \in Runs \ {r} : obj'[q] = obj[q]
  BY <1>1
<1>4. TypeOK'
  <2>1. obj' \in [Runs -> Objects]
    BY <1>1 DEF Objects, Phases
  <2> QED
    BY <1>2, <2>1 DEF TypeOK, Objects
<1>5. \A p \in Procs : ~Busy(p, r) /\ ~Busy(p, r)'
  BY <1>2 DEF OneWorker, Busy
<1>6. OneWorker(r)'
  BY <1>3, <1>5 DEF OneWorker
<1>7. NotBefore(r)'
  BY <1>2, <1>3 DEF NotBefore
<1>8. ASSUME NEW p \in Procs PROVE CopiesLag(p, r)'
  <2>1. cache[p][r].rv \in Nat /\ worker[p].rv \in Nat
    BY DEF Copies, Workers
  <2>2. cache[p][r].rv <= 0
    BY <1>2 DEF CopiesLag
  <2>3. worker[p].run = r => worker[p].rv <= 0
    BY <1>2 DEF CopiesLag
  <2>4. cache'[p][r] = cache[p][r] /\ worker'[p] = worker[p]
    BY <1>2
  <2> QED
    BY <1>3, <2>1, <2>2, <2>3, <2>4 DEF CopiesLag, At, Current
<1> QED
  BY <1>2, <1>3, <1>4, <1>6, <1>7, <1>8, ObjectStep

LEMMA TouchKeeps ==
    ASSUME RunInv, NEW r \in Runs, Touch(r)
    PROVE  RunInv'
<1> USE Typed DEF RunInv
<1>1. /\ There(r) /\ UNCHANGED <<cache, worker, starts, result>>
      /\ obj' = [obj EXCEPT ![r].rv = @ + 1]
      /\ excuse' = [excuse EXCEPT ![r] = @ \cup {"touched"}]
      /\ faults' = faults + 1
  BY DEF Touch, Fault, Excuse
<1>2. /\ obj[r] \in Objects /\ obj[r].rv + 1 \in Nat
      /\ obj'[r] = [obj[r] EXCEPT !.rv = @ + 1]
      /\ \A q \in Runs \ {r} : obj'[q] = obj[q]
  BY <1>1 DEF Objects
<1>3. /\ obj'[r].phase = obj[r].phase /\ obj'[r].rv = obj[r].rv + 1 /\ obj'[r].wf = obj[r].wf
      /\ obj'[r] \in Objects
  BY <1>2 DEF Objects
<1>4. excuse'[r] # {} /\ \A q \in Runs \ {r} : excuse'[q] = excuse[q]
  BY <1>1
<1>5. TypeOK'
  <2>1. obj' \in [Runs -> Objects]
    BY <1>1, <1>3
  <2>2. excuse' \in [Runs -> SUBSET Excuses]
    BY <1>1 DEF Excuses
  <2> QED
    BY <1>1, <2>1, <2>2 DEF TypeOK, Objects
<1>6. OneWorker(r)'
  <2>1. \A p \in Procs : Busy(p, r)' <=> Busy(p, r)
    BY <1>1 DEF Busy
  <2> QED
    BY <1>1, <1>3, <1>4, <2>1, OneFrame
<1>7. NotBefore(r)'
  BY <1>1, <1>3, BeforeFrame DEF There
<1>8. \A p \in Procs : CopiesLag(p, r)'
  BY <1>1, <1>3, LagFrame
<1> QED
  BY <1>1, <1>2, <1>3, <1>4, <1>5, <1>6, <1>7, <1>8, ObjectStep

LEMMA RemoveKeeps ==
    ASSUME RunInv, NEW r \in Runs, Remove(r)
    PROVE  RunInv'
<1> USE Typed DEF RunInv
<1>1. /\ There(r) /\ UNCHANGED <<cache, worker, starts, result, excuse>>
      /\ obj' = [obj EXCEPT ![r].phase = "gone"]
      /\ faults' = faults + 1
  BY DEF Remove, Fault
<1>2. /\ obj'[r].phase = "gone" /\ obj'[r].rv = obj[r].rv /\ obj'[r].wf = obj[r].wf
      /\ \A q \in Runs \ {r} : obj'[q] = obj[q]
  BY <1>1 DEF Objects
<1>3. TypeOK'
  <2>1. obj' \in [Runs -> Objects]
    BY <1>1 DEF Objects, Phases
  <2> QED
    BY <1>1, <2>1 DEF TypeOK, Objects
<1>4. OneWorker(r)'
  <2>1. \A p \in Procs : Busy(p, r)' <=> Busy(p, r)
    BY <1>1 DEF Busy
  <2> QED
    BY <1>1, <1>2, <2>1, OneFrame
<1>5. NotBefore(r)'
  BY <1>1, <1>2, BeforeFrame DEF There
<1>6. \A p \in Procs : CopiesLag(p, r)'
  BY <1>1, <1>2, LagFrame
<1> QED
  BY <1>1, <1>2, <1>3, <1>4, <1>5, <1>6, ObjectStep

LEMMA SyncKeeps ==
    ASSUME RunInv, NEW p \in Procs, NEW r \in Runs, Sync(p, r)
    PROVE  RunInv'
<1> USE Typed DEF RunInv
<1>1. /\ UNCHANGED <<obj, worker, starts, result, excuse, faults>>
      /\ cache' = [cache EXCEPT ![p][r] = Seen(r)]
  BY DEF Sync
<1>2. /\ cache'[p][r] = Seen(r)
      /\ \A q \in Procs, i \in Runs : q # p \/ i # r => cache'[q][i] = cache[q][i]
  BY <1>1
<1>3. TypeOK'
  <2>1. Seen(r) \in Copies
    BY DEF Seen, Objects, Copies
  <2>2. cache' \in [Procs -> [Runs -> Copies]]
    BY <1>1, <2>1
  <2> QED
    BY <1>1, <2>2 DEF TypeOK, Copies
<1>4. OneWorker(r)' /\ NotBefore(r)'
  <2>1. \A q \in Procs : Busy(q, r)' <=> Busy(q, r)
    BY <1>1 DEF Busy
  <2> QED
    BY <1>1, <2>1, OneFrame, BeforeFrame
<1>5. ASSUME NEW q \in Procs PROVE CopiesLag(q, r)'
  <2>1. CASE q = p
    <3>1. cache'[p][r].phase = obj[r].phase /\ cache'[p][r].rv = obj[r].rv /\ obj[r].rv \in Nat
      BY <1>2 DEF Seen, Objects
    <3> QED
      BY <1>1, <2>1, <3>1 DEF CopiesLag, At, There, Current
  <2>2. CASE q # p
    BY <1>1, <1>2, <2>2, LagFrame
  <2> QED
    BY <2>1, <2>2
<1> QED
  BY <1>1, <1>2, <1>3, <1>4, <1>5, ObjectStep

-----------------------------------------------------------------------------
(* A step of one worker, which may touch the run it has, or takes, in      *)
(* hand, and no other.                                                     *)
LEMMA RunStep ==
    ASSUME RunInv, TypeOK', NEW p \in Procs, NEW r \in Runs, cache' = cache,
           \A q \in Runs \ {r} : /\ obj'[q] = obj[q] /\ excuse'[q] = excuse[q]
                                /\ result'[q] = result[q] /\ starts'[q] = starts[q],
           \A q \in Procs \ {p} : worker'[q] = worker[q],
           worker[p].run \in {r, NoRun}, worker'[p].run \in {r, NoRun}, InHand(p)',
           OneWorker(r)', NotBefore(r)', \A q \in Procs : CopiesLag(q, r)',
           \A q \in Procs : Busy(q, r)' => WorkerKnows(q, r)',
           \A j \in Jobs, s \in Steps : starts'[r][j][s] <= 1
    PROVE  RunInv'
<1> USE DEF RunInv
<1>1. StepsRunOnce'
  BY DEF StepsRunOnce
<1>2. ASSUME NEW q \in Procs, NEW i \in Runs \ {r} PROVE Busy(q, i)' <=> Busy(q, i)
  BY WorkflowAssumption DEF Busy
<1>3. ASSUME NEW i \in Runs PROVE OneWorker(i)' /\ NotBefore(i)'
  <2>1. CASE i = r
    BY <2>1
  <2>2. CASE i # r
    <3>1. \A q \in Procs : Busy(q, i) => worker'[q].rv = worker[q].rv
      BY <2>2, WorkflowAssumption DEF Busy
    <3> QED
      BY <1>2, <2>2, <3>1, OneFrame, BeforeFrame
  <2> QED
    BY <2>1, <2>2
<1>4. ASSUME NEW q \in Procs, NEW i \in Runs PROVE CopiesLag(q, i)'
  <2>1. CASE i = r
    BY <2>1
  <2>2. CASE i # r
    <3>1. worker'[q].run = i => worker'[q] = worker[q]
      BY <2>2, WorkflowAssumption
    <3> QED
      BY <2>2, <3>1, LagFrame
  <2> QED
    BY <2>1, <2>2
<1>5. ASSUME NEW q \in Procs, NEW i \in Runs, Busy(q, i)' PROVE WorkerKnows(q, i)'
  <2>1. CASE i = r
    BY <1>5, <2>1
  <2>2. CASE i # r
    <3>1. Busy(q, i) /\ worker'[q] = worker[q]
      BY <1>2, <1>5, <2>2, WorkflowAssumption DEF Busy
    <3> QED
      BY <2>2, <3>1, KnowsFrame
  <2> QED
    BY <2>1, <2>2
<1>6. ASSUME NEW q \in Procs PROVE InHand(q)'
  BY DEF InHand
<1> QED
  BY <1>1, <1>3, <1>4, <1>5, <1>6

LEMMA BeginKeeps ==
    ASSUME RunInv, NEW p \in Procs, NEW r \in Runs, Begin(p, r)
    PROVE  RunInv'
<1> USE Typed DEF RunInv
<1>1. /\ worker[p].at = "idle" /\ cache[p][r].phase = "Pending"
      /\ worker' = [worker EXCEPT ![p] = [Idle EXCEPT !.at = "claim", !.run = r,
                                                      !.rv = cache[p][r].rv]]
      /\ UNCHANGED <<obj, cache, starts, result, excuse, faults>>
  BY DEF Begin, At
<1>2. cache[p][r].rv \in Nat /\ worker[p].run = NoRun
  BY <1>1 DEF Copies, InHand
<1>3. [Idle EXCEPT !.at = "claim", !.run = r, !.rv = cache[p][r].rv] \in Workers
  BY <1>2, IdleTyped DEF Workers, Stages
<1>4. /\ worker'[p].at = "claim" /\ worker'[p].run = r /\ worker'[p].rv = cache[p][r].rv
      /\ worker'[p].done = {} /\ worker'[p].pos = 0 /\ ~worker'[p].ok
      /\ \A q \in Procs \ {p} : worker'[q] = worker[q]
  BY <1>1 DEF Idle
<1>5. TypeOK'
  <2>1. worker' \in [Procs -> Workers]
    BY <1>1, <1>3
  <2> QED
    BY <1>1, <2>1 DEF TypeOK, Workers
<1>6. InHand(p)'
  BY <1>4, WorkflowAssumption DEF InHand
<1>7. \A q \in Procs : (Busy(q, r)' <=> Busy(q, r)) /\ (Busy(q, r) => q # p)
  BY <1>1, <1>4 DEF Busy
<1>8. OneWorker(r)' /\ NotBefore(r)'
  BY <1>1, <1>4, <1>7, OneFrame, BeforeFrame
<1>9. ASSUME NEW q \in Procs PROVE CopiesLag(q, r)'
  <2>1. CASE q = p
    BY <1>1, <1>4, <2>1 DEF CopiesLag, At, Current, There
  <2>2. CASE q # p
    BY <1>1, <1>4, <2>2, LagFrame
  <2> QED
    BY <2>1, <2>2
<1>10. ASSUME NEW q \in Procs, Busy(q, r)' PROVE WorkerKnows(q, r)'
  BY <1>1, <1>4, <1>7, <1>10, KnowsFrame
<1>11. \A j \in Jobs, s \in Steps : starts'[r][j][s] <= 1
  BY <1>1 DEF StepsRunOnce
<1> QED
  BY <1>1, <1>2, <1>4, <1>5, <1>6, <1>8, <1>9, <1>10, <1>11, RunStep

LEMMA Writing ==
    ASSUME NEW o \in Objects, NEW phase \in Phases
    PROVE  /\ Written(o, phase) \in Objects /\ Written(o, phase).phase = phase
           /\ Written(o, phase).rv = o.rv + 1 /\ Written(o, phase).wf = o.wf
<1>1. Written(o, phase) = [o EXCEPT !.phase = phase, !.rv = o.rv + 1] /\ o.rv + 1 \in Nat
  BY DEF Written, Objects
<1> QED
  BY <1>1 DEF Objects

(* The claim: it succeeds only for a request that no worker has begun.     *)
LEMMA ClaimKeeps ==
    ASSUME RunInv, NEW p \in Procs, Claim(p)
    PROVE  RunInv'
<1> USE Typed DEF RunInv
<1>1. PICK r \in Runs : worker[p].run = r
  BY DEF Claim, At, InHand, Workers
<1>2. /\ worker[p].at = "claim" /\ UNCHANGED <<cache, starts, result>>
      /\ worker[p].done = {} /\ worker[p].pos = 0 /\ ~worker[p].ok
  BY DEF Claim, At, InHand
<1>3. /\ obj[r] \in Objects /\ obj[r].rv \in Nat /\ worker[p] \in Workers
      /\ excuse[r] \subseteq Excuses
  BY DEF Objects
<1>4. \A j \in Jobs, s \in Steps : starts'[r][j][s] <= 1
  BY <1>2 DEF StepsRunOnce
<1>5. CASE worker' = [worker EXCEPT ![p] = Idle] /\ UNCHANGED <<obj, excuse, faults>>
  <2>1. worker'[p] = Idle /\ \A q \in Procs \ {p} : worker'[q] = worker[q]
    BY <1>5
  <2>2. TypeOK'
    <3>1. worker' \in [Procs -> Workers]
      BY <1>5, IdleTyped
    <3> QED
      BY <1>2, <1>5, <3>1 DEF TypeOK, Workers
  <2>3. InHand(p)' /\ worker'[p].run = NoRun
    BY <2>1, IdleTyped DEF InHand
  <2>4. \A q \in Procs : (Busy(q, r)' <=> Busy(q, r)) /\ (Busy(q, r) => q # p)
    BY <1>2, <2>1, IdleTyped DEF Busy
  <2>5. OneWorker(r)' /\ NotBefore(r)'
    BY <1>2, <1>5, <2>1, <2>4, OneFrame, BeforeFrame
  <2>6. ASSUME NEW q \in Procs PROVE CopiesLag(q, r)'
    BY <1>2, <1>5, <2>1, <2>3, WorkflowAssumption, LagFrame
  <2>7. ASSUME NEW q \in Procs, Busy(q, r)' PROVE WorkerKnows(q, r)'
    BY <1>2, <1>5, <2>1, <2>4, <2>7, KnowsFrame
  <2>8. /\ cache' = cache /\ worker[p].run \in {r, NoRun} /\ worker'[p].run \in {r, NoRun}
        /\ \A q \in Runs \ {r} : /\ obj'[q] = obj[q] /\ excuse'[q] = excuse[q]
                                 /\ result'[q] = result[q] /\ starts'[q] = starts[q]
    BY <1>1, <1>2, <1>5, <2>3
  <2> HIDE DEF RunInv
  <2> QED
    BY <1>4, <2>1, <2>2, <2>3, <2>5, <2>6, <2>7, <2>8, RunStep
<1>6. CASE /\ Current(r, worker[p].rv)
           /\ obj' = [obj EXCEPT ![r] = Written(@, "Running")]
  <2>1. /\ obj[r].phase = "Pending" /\ obj[r].rv = worker[p].rv
        /\ \A q \in Procs : ~Busy(q, r)
    BY <1>1, <1>2, <1>6 DEF CopiesLag, OneWorker, At, Current
  <2>2. obj'[r] = Written(obj[r], "Running") /\ "Running" \in Phases
    BY <1>6 DEF Phases
  <2>3. /\ obj'[r] \in Objects /\ obj'[r].phase = "Running" /\ obj'[r].rv = obj[r].rv + 1
        /\ obj'[r].wf = obj[r].wf
    BY <1>3, <2>2, Writing
  <2>4. obj' \in [Runs -> Objects] /\ \A q \in Runs \ {r} : obj'[q] = obj[q]
    BY <1>6, <2>2, <2>3
  <2>5. NotBefore(r)'
    BY <1>2, <2>1, <2>3, BeforeFrame
  <2>6. CASE worker' = [worker EXCEPT ![p] = Idle] /\ Excuse(r, "lostAnswer") /\ Fault
    <3>1. worker'[p] = Idle /\ \A q \in Procs \ {p} : worker'[q] = worker[q]
      BY <2>6
    <3>2. /\ excuse' \in [Runs -> SUBSET Excuses] /\ excuse'[r] # {} /\ faults' \in Nat
          /\ \A q \in Runs \ {r} : excuse'[q] = excuse[q]
      BY <2>6 DEF Excuse, Excuses, Fault
    <3>3. TypeOK'
      <4>1. worker' \in [Procs -> Workers]
        BY <2>6, IdleTyped
      <4> QED
        BY <1>2, <2>4, <3>2, <4>1 DEF TypeOK, Workers, Objects
    <3>4. InHand(p)' /\ worker'[p].run = NoRun
      BY <3>1, IdleTyped DEF InHand
    <3>5. \A q \in Procs : ~Busy(q, r)'
      BY <2>1, <3>1, IdleTyped DEF Busy
    <3>6. OneWorker(r)'
      BY <3>2, <3>5 DEF OneWorker
    <3>7. ASSUME NEW q \in Procs PROVE CopiesLag(q, r)'
      BY <1>2, <2>3, <3>1, <3>4, WorkflowAssumption, LagFrame
    <3>8. /\ cache' = cache /\ worker[p].run \in {r, NoRun} /\ worker'[p].run \in {r, NoRun}
          /\ \A q \in Runs \ {r} : /\ obj'[q] = obj[q] /\ excuse'[q] = excuse[q]
                                   /\ result'[q] = result[q] /\ starts'[q] = starts[q]
      BY <1>1, <1>2, <2>4, <3>2, <3>4
    <3> HIDE DEF RunInv
    <3> QED
      BY <1>4, <2>5, <3>1, <3>3, <3>4, <3>5, <3>6, <3>7, <3>8, RunStep
  <2>7. CASE /\ worker' = [worker EXCEPT ![p].at = "auth", ![p].rv = obj'[r].rv]
             /\ UNCHANGED <<excuse, faults>>
    <3>1. /\ worker'[p] = [worker[p] EXCEPT !.at = "auth", !.rv = obj[r].rv + 1]
          /\ \A q \in Procs \ {p} : worker'[q] = worker[q]
      BY <2>3, <2>7
    <3>2. /\ worker'[p] \in Workers /\ worker'[p].at = "auth" /\ worker'[p].run = r
          /\ worker'[p].rv = obj[r].rv + 1 /\ worker'[p].done = {} /\ worker'[p].pos = 0
          /\ ~worker'[p].ok
      <4>1. "auth" \in Stages /\ obj[r].rv + 1 \in Nat
        BY <1>3 DEF Stages
      <4>2. worker'[p] = [[worker[p] EXCEPT !.at = "auth"] EXCEPT !.rv = obj[r].rv + 1]
        BY <1>3, <3>1 DEF Workers
      <4>3. [worker[p] EXCEPT !.at = "auth"] \in Workers
        BY <1>3, <4>1 DEF Workers
      <4>4. worker'[p] \in Workers
        BY <4>1, <4>2, <4>3 DEF Workers
      <4> QED
        BY <1>1, <1>2, <1>3, <4>2, <4>4 DEF Workers
    <3>3. TypeOK'
      <4>1. worker' \in [Procs -> Workers]
        BY <2>7, <3>1, <3>2
      <4> QED
        BY <1>2, <2>4, <2>7, <4>1 DEF TypeOK, Workers, Objects
    <3>4. InHand(p)'
      BY <3>2, WorkflowAssumption DEF InHand
    <3>5. Busy(p, r)' /\ \A q \in Procs : Busy(q, r)' => q = p
      BY <2>1, <3>1, <3>2 DEF Busy
    <3>6. OneWorker(r)'
      BY <2>3, <3>2, <3>5 DEF OneWorker
    <3>7. ASSUME NEW q \in Procs PROVE CopiesLag(q, r)'
      <4>1. CASE q = p
        <5>1. cache[p][r].rv <= obj[r].rv /\ cache[p][r].rv \in Nat
          BY DEF CopiesLag, Copies
        <5> QED
          BY <1>2, <1>3, <2>3, <3>2, <4>1, <5>1 DEF CopiesLag, At
      <4>2. CASE q # p
        BY <1>2, <2>3, <3>1, <4>2, LagFrame
      <4> QED
        BY <4>1, <4>2
    <3>8. WorkerKnows(p, r)'
      BY <1>2, <2>1, <3>2 DEF WorkerKnows, NotBefore
    <3>9. \A q \in Procs : Busy(q, r)' => WorkerKnows(q, r)'
      BY <3>5, <3>8
    <3>10. /\ cache' = cache /\ worker[p].run \in {r, NoRun} /\ worker'[p].run \in {r, NoRun}
           /\ \A q \in Runs \ {r} : /\ obj'[q] = obj[q] /\ excuse'[q] = excuse[q]
                                    /\ result'[q] = result[q] /\ starts'[q] = starts[q]
      BY <1>1, <1>2, <2>4, <2>7, <3>2
    <3> HIDE DEF RunInv
    <3> QED
      BY <1>4, <2>5, <3>1, <3>3, <3>4, <3>6, <3>7, <3>9, <3>10, RunStep
  <2> QED
    BY <1>1, <1>6, <2>6, <2>7 DEF Claim, Run
<1> QED
  BY <1>1, <1>5, <1>6 DEF Claim, Run

-----------------------------------------------------------------------------
(* A worker goes on with a run that it has claimed.                        *)
LEMMA BusyStep ==
    ASSUME RunInv, TypeOK', NEW p \in Procs, NEW r \in Runs, Busy(p, r), Busy(p, r)',
           UNCHANGED <<obj, cache, excuse>>,
           \A q \in Runs \ {r} : result'[q] = result[q] /\ starts'[q] = starts[q],
           \A q \in Procs \ {p} : worker'[q] = worker[q],
           worker'[p].rv = worker[p].rv, WorkerKnows(p, r)',
           \A j \in Jobs, s \in Steps : starts'[r][j][s] <= 1
    PROVE  RunInv'
<1> USE DEF RunInv
<1>1. \A q \in Procs : (Busy(q, r)' <=> Busy(q, r)) /\ (Busy(q, r) => q = p)
  BY DEF Busy, OneWorker
<1>2. OneWorker(r)'
  BY <1>1, OneFrame
<1>3. NotBefore(r)'
  BY DEF NotBefore, OneWorker
<1>4. ASSUME NEW q \in Procs PROVE CopiesLag(q, r)'
  BY LagFrame DEF Busy
<1>5. InHand(p)'
  BY WorkflowAssumption DEF InHand, Busy
<1>6. worker[p].run = r /\ worker'[p].run = r
  BY DEF Busy
<1>7. \A q \in Procs : Busy(q, r)' => WorkerKnows(q, r)'
  BY <1>1
<1>8. \A q \in Runs \ {r} : /\ obj'[q] = obj[q] /\ excuse'[q] = excuse[q]
                           /\ result'[q] = result[q] /\ starts'[q] = starts[q]
  OBVIOUS
<1> HIDE DEF RunInv
<1> QED
  BY <1>2, <1>3, <1>4, <1>5, <1>6, <1>7, <1>8, RunStep

(* The same, when the worker has only reached another stage.               *)
LEMMA MoveKeeps ==
    ASSUME RunInv, NEW p \in Procs, NEW stage, Move(p, stage),
           \/ stage = "finish" /\ worker[p].at \in {"auth", "prepare"}
           \/ worker[p].at = "auth" /\ stage = "prepare"
           \/ worker[p].at = "prepare" /\ stage = "pick",
           UNCHANGED <<obj, cache, starts, result, excuse, faults>>
    PROVE  RunInv'
<1> USE Typed DEF RunInv
<1>1. PICK r \in Runs : worker[p].run = r
  BY DEF InHand, Workers
<1>2. /\ worker[p] \in Workers /\ worker'[p] = [worker[p] EXCEPT !.at = stage]
      /\ \A q \in Procs \ {p} : worker'[q] = worker[q]
  BY DEF Move
<1>3. /\ worker'[p] \in Workers /\ worker'[p].at = stage
      /\ worker'[p].run = r /\ worker'[p].rv = worker[p].rv /\ worker'[p].done = worker[p].done
      /\ worker'[p].pos = worker[p].pos /\ worker'[p].ok = worker[p].ok
  BY <1>1, <1>2 DEF Workers, Stages
<1>4. TypeOK'
  <2>1. worker' \in [Procs -> Workers]
    BY <1>2, <1>3 DEF Move
  <2> QED
    BY <2>1, TypeFrame
<1>5. Busy(p, r) /\ Busy(p, r)' /\ WorkerKnows(p, r)
  BY <1>1, <1>3 DEF Busy
<1>6. WorkerKnows(p, r)'
  <2>1. /\ starts' = starts /\ result' = result /\ obj' = obj /\ excuse' = excuse
        /\ faults' = faults
    OBVIOUS
  <2> HIDE DEF RunInv
  <2>2. /\ stage \notin {"auth", "start", "step"}
        /\ stage = "prepare" => worker[p].at = "auth"
        /\ stage = "pick" => worker[p].at = "prepare"
    OBVIOUS
  <2>3. \A j \in Jobs : Carried(r, j)' <=> Carried(r, j)
    BY <2>1 DEF Carried
  <2>4. /\ worker'[p].done = worker[p].done /\ worker'[p].pos = worker[p].pos
        /\ worker'[p].ok = worker[p].ok /\ worker'[p].at = stage
    BY <1>3
  <2>5. \A j \in Jobs :
          /\ j \in worker'[p].done
             => result'[r][j] \in Settled /\ obj'[r].wf.jobs[j].needs \subseteq worker'[p].done
          /\ result'[r][j] = "completed" => Carried(r, j)'
          /\ j \notin worker'[p].done /\ j # worker'[p].pos =>
               result'[r][j] = "none" /\ \A s \in Steps : starts'[r][j][s] = 0
    BY <1>5, <2>1, <2>3, <2>4 DEF WorkerKnows
  <2>6. /\ worker[p].ok => worker[p].at = "finish" /\ worker[p].done = Jobs
        /\ worker[p].at \in {"auth", "prepare"} => worker[p].done = {} /\ worker[p].pos = 0
    BY <1>5, <2>4 DEF WorkerKnows
  <2>7. worker[p].at \in {"auth", "prepare"}
    OBVIOUS
  <2> QED
    BY <2>2, <2>4, <2>5, <2>6, <2>7 DEF WorkerKnows
<1>7. /\ UNCHANGED <<obj, cache, excuse>>
      /\ \A q \in Runs \ {r} : result'[q] = result[q] /\ starts'[q] = starts[q]
      /\ \A j \in Jobs, s \in Steps : starts'[r][j][s] <= 1
  BY DEF StepsRunOnce
<1>8. \A q \in Procs \ {p} : worker'[q] = worker[q]
  BY <1>2
<1> HIDE DEF RunInv
<1> QED
  BY <1>3, <1>4, <1>5, <1>6, <1>7, <1>8, BusyStep

LEMMA AuthenticateKeeps ==
    ASSUME RunInv, NEW p \in Procs, Authenticate(p) \/ Prepare(p)
    PROVE  RunInv'
BY MoveKeeps DEF Authenticate, Prepare, At

(* The outcome is written at the version of the claim, or not at all: then *)
(* the object is gone, or something else wrote it.                         *)
LEMMA FinishKeeps ==
    ASSUME RunInv, NEW p \in Procs, Finish(p)
    PROVE  RunInv'
<1> USE Typed DEF RunInv
<1>1. PICK r \in Runs : worker[p].run = r
  BY DEF Finish, At, InHand, Workers
<1>2. /\ worker[p].at = "finish" /\ UNCHANGED <<cache, starts, result, excuse, faults>>
      /\ obj' = IF Current(r, worker[p].rv)
                THEN [obj EXCEPT ![r] = Written(@, Reported(worker[p].ok))] ELSE obj
      /\ worker' = [worker EXCEPT ![p] = Idle]
  BY <1>1 DEF Finish, At, Run
<1>3. worker'[p] = Idle /\ \A q \in Procs \ {p} : worker'[q] = worker[q]
  BY <1>2
<1>4. Busy(p, r) /\ \A q \in Procs : Busy(q, r) => q = p
  BY <1>1, <1>2 DEF Busy, OneWorker
<1>5. \A q \in Procs : ~Busy(q, r)'
  BY <1>3, <1>4, IdleTyped, WorkflowAssumption DEF Busy
<1>6. InHand(p)' /\ worker'[p].run = NoRun
  BY <1>3, IdleTyped DEF InHand
<1>7. obj[r] \in Objects /\ obj[r].rv \in Nat /\ worker' \in [Procs -> Workers]
  BY <1>2, IdleTyped DEF Objects
<1>8. \A j \in Jobs, s \in Steps : starts'[r][j][s] <= 1
  BY <1>2 DEF StepsRunOnce
<1>9. CASE ~Current(r, worker[p].rv)
  <2>1. obj' = obj
    BY <1>2, <1>9
  <2>2. TypeOK'
    BY <1>2, <1>7, <2>1 DEF TypeOK, Workers
  <2>3. OneWorker(r)'
    BY <1>2, <1>4, <1>5, <1>9, <2>1 DEF OneWorker, Current, There
  <2>4. NotBefore(r)'
    BY <1>2, <2>1, BeforeFrame
  <2>5. ASSUME NEW q \in Procs PROVE CopiesLag(q, r)'
    BY <1>2, <1>3, <1>6, <2>1, WorkflowAssumption, LagFrame
  <2>6. /\ cache' = cache /\ worker[p].run \in {r, NoRun} /\ worker'[p].run \in {r, NoRun}
        /\ \A q \in Runs \ {r} : /\ obj'[q] = obj[q] /\ excuse'[q] = excuse[q]
                                 /\ result'[q] = result[q] /\ starts'[q] = starts[q]
    BY <1>1, <1>2, <1>6, <2>1
  <2> HIDE DEF RunInv
  <2> QED
    BY <1>3, <1>5, <1>6, <1>8, <2>2, <2>3, <2>4, <2>5, <2>6, RunStep
<1>10. CASE Current(r, worker[p].rv)
  <2>1. obj[r].phase = "Running"
    BY <1>4, <1>10 DEF OneWorker, Current, There
  <2>2. Reported(worker[p].ok) \in Final /\ Reported(worker[p].ok) \in Phases
    BY DEF Reported, Phases, Final
  <2>3. obj'[r] = Written(obj[r], Reported(worker[p].ok))
    BY <1>2, <1>10
  <2>4. /\ obj'[r] \in Objects /\ obj'[r].phase \in Final /\ obj'[r].rv = obj[r].rv + 1
        /\ obj'[r].wf = obj[r].wf
    BY <1>7, <2>2, <2>3, Writing
  <2>5. obj' \in [Runs -> Objects] /\ \A q \in Runs \ {r} : obj'[q] = obj[q]
    BY <1>2, <1>10, <2>3, <2>4
  <2>6. TypeOK'
    BY <1>2, <1>7, <2>5 DEF TypeOK, Workers, Objects
  <2>7. OneWorker(r)'
    BY <1>5, <2>4 DEF OneWorker, Final
  <2>8. NotBefore(r)'
    BY <1>2, <2>1, <2>4, BeforeFrame DEF Final
  <2>9. ASSUME NEW q \in Procs PROVE CopiesLag(q, r)'
    BY <1>2, <1>3, <1>6, <2>4, WorkflowAssumption, LagFrame
  <2>10. /\ cache' = cache /\ worker[p].run \in {r, NoRun} /\ worker'[p].run \in {r, NoRun}
         /\ \A q \in Runs \ {r} : /\ obj'[q] = obj[q] /\ excuse'[q] = excuse[q]
                                  /\ result'[q] = result[q] /\ starts'[q] = starts[q]
    BY <1>1, <1>2, <1>6, <2>5
  <2> HIDE DEF RunInv
  <2> QED
    BY <1>3, <1>5, <1>6, <1>8, <2>6, <2>7, <2>8, <2>9, <2>10, RunStep
<1> QED
  BY <1>9, <1>10

(* A process dies: nobody carries on with its run, and its successor knows *)
(* every object as it is.                                                  *)
LEMMA CrashKeeps ==
    ASSUME RunInv, NEW p \in Procs, Crash(p)
    PROVE  RunInv'
<1> USE Typed DEF RunInv
<1>1. /\ UNCHANGED <<obj, starts, result>> /\ faults' = faults + 1
      /\ worker' = [worker EXCEPT ![p] = Idle]
      /\ cache' = [cache EXCEPT ![p] = [r \in Runs |-> Seen(r)]]
      /\ excuse' = [r \in Runs |-> IF Busy(p, r) THEN excuse[r] \cup {"crash"} ELSE excuse[r]]
  BY DEF Crash, Fault
<1>2. /\ worker'[p] = Idle /\ \A r \in Runs : cache'[p][r] = Seen(r)
      /\ \A q \in Procs \ {p} : worker'[q] = worker[q] /\ cache'[q] = cache[q]
      /\ \A r \in Runs : worker'[p].run # r
  BY <1>1, IdleTyped, WorkflowAssumption
<1>3. TypeOK'
  <2>1. \A r \in Runs : Seen(r) \in Copies
    BY DEF Seen, Objects, Copies
  <2>2. cache' \in [Procs -> [Runs -> Copies]]
    BY <1>1, <2>1
  <2>3. worker' \in [Procs -> Workers]
    BY <1>1, IdleTyped
  <2>4. excuse' \in [Runs -> SUBSET Excuses]
    BY <1>1 DEF Excuses
  <2> QED
    BY <1>1, <2>2, <2>3, <2>4 DEF TypeOK, Copies, Workers
<1>4. ASSUME NEW q \in Procs, NEW r \in Runs
      PROVE Busy(q, r)' <=> Busy(q, r) /\ q # p
  BY <1>2 DEF Busy
<1>5. ASSUME NEW r \in Runs PROVE OneWorker(r)'
  <2>1. /\ excuse[r] # {} => excuse'[r] # {}
        /\ Busy(p, r) => excuse'[r] # {}
        /\ excuse'[r] = {} => excuse[r] = {}
    BY <1>1
  <2>2. (\A x, y \in Procs : Busy(x, r) /\ Busy(y, r) => x = y)'
    BY <1>4 DEF OneWorker
  <2>3. (\A x \in Procs : Busy(x, r) => obj[r].phase \in {"Running", "gone"})'
    BY <1>1, <1>4 DEF OneWorker
  <2>4. ASSUME obj'[r].phase = "Running" PROVE (\E x \in Procs : Busy(x, r)') \/ excuse'[r] # {}
    <3>1. (\E x \in Procs : Busy(x, r)) \/ excuse[r] # {}
      BY <1>1, <2>4 DEF OneWorker
    <3> HIDE DEF RunInv
    <3>2. CASE Busy(p, r) \/ excuse[r] # {}
      BY <2>1, <3>2
    <3>3. CASE \E x \in Procs : Busy(x, r) /\ x # p
      BY <1>4, <3>3
    <3> QED
      BY <3>1, <3>2, <3>3
  <2>5. (\A x \in Procs : Busy(x, r) /\ There(r) /\ excuse[r] = {} => worker[x].rv = obj[r].rv)'
    <3> SUFFICES ASSUME NEW x \in Procs, Busy(x, r)', There(r)', excuse'[r] = {}
                 PROVE  worker'[x].rv = obj'[r].rv
      OBVIOUS
    <3>1. Busy(x, r) /\ x # p /\ There(r) /\ excuse[r] = {}
      BY <1>1, <1>4, <2>1 DEF There
    <3>2. worker[x].rv = obj[r].rv
      BY <3>1 DEF OneWorker
    <3> QED
      BY <1>1, <1>2, <3>1, <3>2
  <2> QED
    BY <2>2, <2>3, <2>4, <2>5 DEF OneWorker
<1>6. ASSUME NEW r \in Runs PROVE NotBefore(r)'
  BY <1>1, BeforeFrame
<1>7. ASSUME NEW q \in Procs, NEW r \in Runs PROVE CopiesLag(q, r)'
  <2>1. CASE q = p
    <3>1. obj[r] \in Objects /\ cache'[p][r] = Seen(r)
      BY <1>2
    <3>2. cache'[p][r].phase = obj[r].phase /\ cache'[p][r].rv = obj[r].rv /\ obj[r].rv \in Nat
      BY <3>1 DEF Seen, Objects
    <3> QED
      BY <1>1, <1>2, <2>1, <3>2 DEF CopiesLag, At
  <2>2. CASE q # p
    BY <1>1, <1>2, <2>2, LagFrame
  <2> QED
    BY <2>1, <2>2
<1>8. ASSUME NEW q \in Procs, NEW r \in Runs, Busy(q, r)' PROVE WorkerKnows(q, r)'
  BY <1>1, <1>2, <1>4, <1>8, KnowsFrame
<1>9. ASSUME NEW q \in Procs PROVE InHand(q)'
  BY <1>2, IdleTyped DEF InHand
<1>10. StepsRunOnce'
  BY <1>1 DEF StepsRunOnce
<1> QED
  BY <1>3, <1>5, <1>6, <1>7, <1>8, <1>9, <1>10

-----------------------------------------------------------------------------
(* The executor's steps.                                                   *)
LEMMA PickKeeps ==
    ASSUME RunInv, NEW p \in Procs, PickJob(p)
    PROVE  RunInv'
<1> USE Typed DEF RunInv
<1>1. PICK r \in Runs : worker[p].run = r
  BY DEF PickJob, At, InHand, Workers
<1>2. /\ worker[p].at = "pick" /\ UNCHANGED <<obj, cache, starts, excuse, faults>>
      /\ worker[p] \in Workers /\ Busy(p, r) /\ WorkerKnows(p, r)
  BY <1>1 DEF PickJob, At, Busy
<1>3. PICK j \in Ahead(p) :
        \/ /\ worker' = [worker EXCEPT ![p].at = "start", ![p].pos = j, ![p].step = 1]
           /\ result' = [result EXCEPT ![r][j] = "running"]
        \/ Settle(p, j, "skipped")
  BY <1>1 DEF PickJob, Run
<1>4. /\ j \in Jobs /\ j \notin worker[p].done
      /\ obj[r].wf.jobs[j].needs \subseteq worker[p].done
  BY <1>1, <1>3 DEF Ahead, Ready
<1>5. /\ \A s \in Steps : starts[r][j][s] = 0
      /\ \A k \in Jobs : k \notin worker[p].done =>
           result[r][k] = "none" /\ \A s \in Steps : starts[r][k][s] = 0
      /\ ~worker[p].ok
  <2>1. \A k \in Jobs : k \notin worker[p].done => k # worker[p].pos
    BY <1>2, Sizes DEF WorkerKnows
  <2> QED
    BY <1>2, <1>4, <2>1 DEF WorkerKnows
<1>6. \A k \in Jobs, s \in Steps : starts'[r][k][s] <= 1
  BY <1>2 DEF StepsRunOnce
<1>7. CASE /\ worker' = [worker EXCEPT ![p].at = "start", ![p].pos = j, ![p].step = 1]
           /\ result' = [result EXCEPT ![r][j] = "running"]
  <2>1. /\ worker'[p] = [worker[p] EXCEPT !.at = "start", !.pos = j, !.step = 1]
        /\ \A q \in Procs \ {p} : worker'[q] = worker[q]
    BY <1>7
  <2>2. /\ worker'[p].at = "start" /\ worker'[p].pos = j /\ worker'[p].step = 1
        /\ worker'[p].run = r /\ worker'[p].rv = worker[p].rv
        /\ worker'[p].done = worker[p].done /\ worker'[p].ok = worker[p].ok
    BY <1>1, <1>2, <2>1 DEF Workers
  <2>3. worker'[p] \in Workers
    BY <1>2, <1>4, <2>1, Sizes DEF Workers, Stages
  <2>4. /\ result'[r][j] = "running" /\ \A k \in Jobs \ {j} : result'[r][k] = result[r][k]
        /\ \A q \in Runs \ {r} : result'[q] = result[q]
        /\ result' \in [Runs -> [Jobs -> Results]]
    BY <1>4, <1>7 DEF Results
  <2>5. TypeOK'
    <3>1. worker' \in [Procs -> Workers]
      BY <1>7, <2>1, <2>3
    <3> QED
      BY <1>2, <2>4, <3>1 DEF TypeOK, Workers
  <2>6. WorkerKnows(p, r)'
    <3>1. obj'[r] = obj[r] /\ starts'[r] = starts[r]
      BY <1>2
    <3> HIDE DEF RunInv
    <3>2. \A k \in Jobs : Carried(r, k)' <=> Carried(r, k)
      BY <3>1 DEF Carried
    <3>3. ASSUME NEW k \in Jobs
          PROVE  /\ k \in worker'[p].done => result'[r][k] \in Settled
                                    /\ obj'[r].wf.jobs[k].needs \subseteq worker'[p].done
                 /\ result'[r][k] = "completed" => Carried(r, k)'
                 /\ k \notin worker'[p].done /\ k # worker'[p].pos =>
                      result'[r][k] = "none" /\ \A s \in Steps : starts'[r][k][s] = 0
      <4>1. CASE k = j
        BY <1>4, <2>2, <2>4, <4>1
      <4>2. CASE k # j
        BY <1>2, <1>5, <2>2, <2>4, <3>1, <3>2, <4>2 DEF WorkerKnows
      <4> QED
        BY <4>1, <4>2
    <3>4. \A s \in Steps : ~(s < 1)
      BY WorkflowAssumption DEF Steps
    <3> QED
      BY <1>4, <1>5, <2>2, <2>4, <3>1, <3>3, <3>4, Sizes DEF WorkerKnows
  <2>7. Busy(p, r)'
    BY <2>2 DEF Busy
  <2>8. /\ UNCHANGED <<obj, cache, excuse>>
        /\ \A q \in Runs \ {r} : result'[q] = result[q] /\ starts'[q] = starts[q]
    BY <1>2, <2>4
  <2> HIDE DEF RunInv
  <2> QED
    BY <1>2, <1>6, <2>1, <2>2, <2>5, <2>6, <2>7, <2>8, BusyStep
<1>8. CASE Settle(p, j, "skipped")
  <2>1. /\ worker'[p] = [worker[p] EXCEPT !.at = "pick", !.pos = j, !.step = 0,
                                          !.progress = TRUE, !.done = @ \cup {j}]
        /\ \A q \in Procs \ {p} : worker'[q] = worker[q]
    BY <1>8 DEF Settle
  <2>2. /\ worker'[p].at = "pick" /\ worker'[p].pos = j
        /\ worker'[p].run = r /\ worker'[p].rv = worker[p].rv
        /\ worker'[p].done = worker[p].done \cup {j} /\ worker'[p].ok = worker[p].ok
    BY <1>1, <1>2, <2>1 DEF Workers
  <2>3. worker'[p] \in Workers
    <3> DEFINE w == [worker[p] EXCEPT !.at = "pick", !.pos = j, !.step = 0]
    <3>1. w \in Workers /\ w.done = worker[p].done
      BY <1>2, <1>4, Sizes DEF Workers, Stages
    <3>2. worker'[p] = [w EXCEPT !.progress = TRUE, !.done = worker[p].done \cup {j}]
      BY <2>1
    <3>3. worker[p].done \cup {j} \in SUBSET Jobs
      BY <1>2, <1>4 DEF Workers
    <3> HIDE DEF w
    <3> QED
      BY <3>1, <3>2, <3>3 DEF Workers
  <2>4. /\ result'[r][j] = "skipped" /\ \A k \in Jobs \ {j} : result'[r][k] = result[r][k]
        /\ \A q \in Runs \ {r} : result'[q] = result[q]
        /\ result' \in [Runs -> [Jobs -> Results]]
    BY <1>1, <1>4, <1>8 DEF Settle, Results, Run
  <2>5. TypeOK'
    <3>1. worker' \in [Procs -> Workers]
      BY <1>8, <2>1, <2>3 DEF Settle
    <3> QED
      BY <1>2, <2>4, <3>1 DEF TypeOK, Workers
  <2>6. WorkerKnows(p, r)'
    <3>1. obj'[r] = obj[r] /\ starts'[r] = starts[r]
      BY <1>2
    <3> HIDE DEF RunInv
    <3>2. \A k \in Jobs : Carried(r, k)' <=> Carried(r, k)
      BY <3>1 DEF Carried
    <3>3. ASSUME NEW k \in Jobs
          PROVE  /\ k \in worker'[p].done => result'[r][k] \in Settled
                                    /\ obj'[r].wf.jobs[k].needs \subseteq worker'[p].done
                 /\ result'[r][k] = "completed" => Carried(r, k)'
                 /\ k \notin worker'[p].done /\ k # worker'[p].pos =>
                      result'[r][k] = "none" /\ \A s \in Steps : starts'[r][k][s] = 0
      <4>1. CASE k = j
        BY <1>4, <2>2, <2>4, <3>1, <4>1 DEF Settled
      <4>2. CASE k # j
        BY <1>2, <1>5, <2>2, <2>4, <3>1, <3>2, <4>2 DEF WorkerKnows
      <4> QED
        BY <4>1, <4>2
    <3> QED
      BY <1>5, <2>2, <3>3 DEF WorkerKnows
  <2>7. Busy(p, r)'
    BY <2>2 DEF Busy
  <2>8. RunInv'
    <3>1. \A q \in Runs \ {r} : result'[q] = result[q] /\ starts'[q] = starts[q]
      BY <1>2, <2>4
    <3>2. \A q \in Procs \ {p} : worker'[q] = worker[q]
      BY <2>1
    <3>3. UNCHANGED <<obj, cache, excuse>> /\ worker'[p].rv = worker[p].rv
      BY <1>2, <2>2
    <3> QED
      BY <1>2, <1>6, <2>5, <2>6, <2>7, <3>1, <3>2, <3>3, BusyStep
  <2> QED
    BY <2>8
<1> QED
  BY <1>3, <1>7, <1>8

LEMMA EndPassKeeps ==
    ASSUME RunInv, NEW p \in Procs, EndPass(p) \/ EndJobs(p)
    PROVE  RunInv'
<1> USE Typed DEF RunInv
<1>1. PICK r \in Runs : worker[p].run = r
  BY DEF EndPass, EndJobs, At, InHand, Workers
<1>2. /\ worker[p].at = "pick" /\ UNCHANGED <<obj, cache, starts, result, excuse, faults>>
      /\ worker[p] \in Workers /\ Busy(p, r) /\ WorkerKnows(p, r)
  BY <1>1 DEF EndPass, EndJobs, At, Busy
<1>3. /\ \A q \in Procs \ {p} : worker'[q] = worker[q]
      /\ worker'[p].at \in {"pick", "finish"} /\ worker'[p].run = r
      /\ worker'[p].rv = worker[p].rv /\ worker'[p].done = worker[p].done
      /\ worker'[p].pos \in {0, worker[p].pos}
      /\ worker'[p].ok => worker[p].ok \/ (worker'[p].at = "finish" /\ worker[p].done = Jobs)
  <2>1. CASE EndPass(p)
    <3>1. worker'[p] = [worker[p] EXCEPT !.pos = 0, !.progress = FALSE,
                                         !.at = IF worker[p].progress THEN "pick" ELSE "finish"]
      BY <2>1 DEF EndPass
    <3> QED
      BY <1>1, <1>2, <2>1, <3>1 DEF EndPass, Workers
  <2>2. CASE EndJobs(p)
    <3>1. worker'[p] = [worker[p] EXCEPT !.at = "finish", !.ok = TRUE]
      BY <2>2 DEF EndJobs
    <3> QED
      BY <1>1, <1>2, <2>2, <3>1 DEF EndJobs, Workers
  <2> QED
    BY <2>1, <2>2
<1>4. worker' \in [Procs -> Workers]
  <2>1. CASE EndPass(p)
    <3>1. [worker[p] EXCEPT !.pos = 0, !.progress = FALSE,
                            !.at = IF worker[p].progress THEN "pick" ELSE "finish"] \in Workers
      BY <1>2, Sizes DEF Workers, Stages
    <3> QED
      BY <2>1, <3>1 DEF EndPass
  <2>2. CASE EndJobs(p)
    <3>1. [worker[p] EXCEPT !.at = "finish", !.ok = TRUE] \in Workers
      BY <1>2 DEF Workers, Stages
    <3> QED
      BY <2>2, <3>1 DEF EndJobs
  <2> QED
    BY <2>1, <2>2
<1>5. TypeOK'
  BY <1>2, <1>4 DEF TypeOK, Workers
<1>6. Busy(p, r)'
  BY <1>3 DEF Busy
<1>7. WorkerKnows(p, r)'
  <2>1. obj'[r] = obj[r] /\ result'[r] = result[r] /\ starts'[r] = starts[r]
    BY <1>2
  <2>2. \A j \in Jobs \ worker[p].done : j # worker[p].pos
    BY <1>2, Sizes DEF WorkerKnows
  <2> HIDE DEF RunInv
  <2>3. \A j \in Jobs : Carried(r, j)' <=> Carried(r, j)
    BY <2>1 DEF Carried
  <2>4. \A j \in Jobs :
          /\ j \in worker'[p].done
             => result'[r][j] \in Settled /\ obj'[r].wf.jobs[j].needs \subseteq worker'[p].done
          /\ result'[r][j] = "completed" => Carried(r, j)'
          /\ j \notin worker'[p].done /\ j # worker'[p].pos =>
               result'[r][j] = "none" /\ \A s \in Steps : starts'[r][j][s] = 0
    BY <1>2, <1>3, <2>1, <2>2, <2>3 DEF WorkerKnows
  <2>5. /\ worker'[p].pos \in worker'[p].done \cup {0}
        /\ worker'[p].ok => worker'[p].at = "finish" /\ worker'[p].done = Jobs
    BY <1>2, <1>3 DEF WorkerKnows
  <2> QED
    BY <1>3, <2>4, <2>5 DEF WorkerKnows
<1> QED
  BY <1>2, <1>3, <1>5, <1>6, <1>7, BusyStep DEF StepsRunOnce

(* A step of a job is left behind.                                         *)
LEMMA LeaveKeeps ==
    ASSUME RunInv, NEW p \in Procs, NEW ok, NEW captured \in SUBSET Names,
           At(p, "step") \/ (At(p, "start") /\ worker[p].step \in Job(p).guarded),
           LeaveStep(p, ok, captured), UNCHANGED <<obj, cache, starts, excuse, faults>>
    PROVE  RunInv'
<1> USE Typed DEF RunInv
<1>1. PICK r \in Runs : worker[p].run = r
  BY DEF At, InHand, Workers
<1> DEFINE j == worker[p].pos
           n == worker[p].step
           guarded == obj[r].wf.jobs[j].guarded
<1>2. /\ worker[p].at \in {"start", "step"} /\ worker[p] \in Workers
      /\ Busy(p, r) /\ WorkerKnows(p, r)
      /\ worker[p].at = "start" => n \in guarded
  BY <1>1 DEF At, Busy, Job, Run
<1>3. /\ j \in Jobs /\ j \notin worker[p].done /\ n \in Steps /\ ~worker[p].ok
      /\ obj[r].wf.jobs[j].needs \subseteq worker[p].done
      /\ result[r][j] = "running"
  BY <1>2 DEF WorkerKnows
<1>4. /\ \A s \in Steps : s > n => starts[r][j][s] = 0
      /\ \A s \in Steps \ guarded : s <= n => starts[r][j][s] = 1
  <2>1. \A s \in Steps : s \in Nat /\ (s <= n <=> s < n \/ s = n) /\ (s > n => s # n)
    BY <1>3 DEF Steps
  <2>2. \A s \in Steps :
          /\ s > n \/ (s = n /\ worker[p].at = "start") => starts[r][j][s] = 0
          /\ \/ s < n /\ s \notin obj[r].wf.jobs[j].guarded
             \/ s = n /\ worker[p].at = "step"
             => starts[r][j][s] = 1
    BY <1>2 DEF WorkerKnows
  <2>3. n \notin guarded => worker[p].at = "step"
    BY <1>2
  <2>4. ASSUME NEW s \in Steps, s > n PROVE starts[r][j][s] = 0
    BY <2>2, <2>4
  <2>5. ASSUME NEW s \in Steps \ guarded, s <= n PROVE starts[r][j][s] = 1
    <3>1. CASE s < n
      BY <2>2, <3>1
    <3>2. CASE s = n
      BY <2>2, <2>3, <3>2
    <3> QED
      BY <2>1, <2>5, <3>1, <3>2
  <2> QED
    BY <2>4, <2>5
<1>5. \A k \in Jobs, s \in Steps : starts'[r][k][s] <= 1
  BY DEF StepsRunOnce
<1>6. ASSUME \A q \in Procs \ {p} : worker'[q] = worker[q],
             worker' \in [Procs -> Workers], worker'[p].run = r,
             worker'[p].rv = worker[p].rv, worker'[p].at \in {"finish", "start", "pick"},
             \A q \in Runs \ {r} : result'[q] = result[q],
             result' \in [Runs -> [Jobs -> Results]], WorkerKnows(p, r)'
      PROVE  RunInv'
  <2>1. TypeOK'
    BY <1>6 DEF TypeOK, Workers
  <2>2. Busy(p, r)'
    BY <1>6 DEF Busy
  <2> QED
    BY <1>2, <1>5, <1>6, <2>1, <2>2, BusyStep
<1>7. CASE /\ worker' = [worker EXCEPT ![p].at = "finish", ![p].vars = captured]
           /\ result' = [result EXCEPT ![r][j] = "failed"]
  <2>1. /\ worker'[p] = [worker[p] EXCEPT !.at = "finish", !.vars = captured]
        /\ \A q \in Procs \ {p} : worker'[q] = worker[q]
    BY <1>7
  <2>2. /\ worker'[p].at = "finish" /\ worker'[p].run = r /\ worker'[p].rv = worker[p].rv
        /\ worker'[p].done = worker[p].done /\ worker'[p].pos = j /\ ~worker'[p].ok
    BY <1>1, <1>2, <1>3, <2>1 DEF Workers
  <2>3. worker' \in [Procs -> Workers]
    <3>1. [worker[p] EXCEPT !.at = "finish", !.vars = captured] \in Workers
      BY <1>2 DEF Workers, Stages
    <3> QED
      BY <1>7, <3>1
  <2>4. /\ result'[r][j] = "failed" /\ \A k \in Jobs \ {j} : result'[r][k] = result[r][k]
        /\ \A q \in Runs \ {r} : result'[q] = result[q]
        /\ result' \in [Runs -> [Jobs -> Results]]
    BY <1>3, <1>7 DEF Results
  <2>5. WorkerKnows(p, r)'
    <3>1. obj'[r] = obj[r] /\ starts'[r] = starts[r]
      OBVIOUS
    <3> HIDE DEF RunInv
    <3>2. \A k \in Jobs : Carried(r, k)' <=> Carried(r, k)
      BY <3>1 DEF Carried
    <3>3. ASSUME NEW k \in Jobs
          PROVE  /\ k \in worker'[p].done => result'[r][k] \in Settled
                                    /\ obj'[r].wf.jobs[k].needs \subseteq worker'[p].done
                 /\ result'[r][k] = "completed" => Carried(r, k)'
                 /\ k \notin worker'[p].done /\ k # worker'[p].pos =>
                      result'[r][k] = "none" /\ \A s \in Steps : starts'[r][k][s] = 0
      <4>1. CASE k = j
        BY <1>3, <2>2, <2>4, <4>1
      <4>2. CASE k # j
        BY <1>2, <2>2, <2>4, <3>1, <3>2, <4>2 DEF WorkerKnows
      <4> QED
        BY <4>1, <4>2
    <3> QED
      BY <2>2, <3>3 DEF WorkerKnows
  <2> QED
    BY <1>6, <2>1, <2>2, <2>3, <2>4, <2>5
<1>8. CASE /\ worker' = [worker EXCEPT ![p].at = "start", ![p].step = n + 1, ![p].vars = captured]
           /\ n < NSteps /\ UNCHANGED result
  <2>1. /\ worker'[p] = [worker[p] EXCEPT !.at = "start", !.step = n + 1, !.vars = captured]
        /\ \A q \in Procs \ {p} : worker'[q] = worker[q]
    BY <1>8
  <2>2. /\ worker'[p].at = "start" /\ worker'[p].run = r /\ worker'[p].rv = worker[p].rv
        /\ worker'[p].done = worker[p].done /\ worker'[p].pos = j /\ ~worker'[p].ok
        /\ worker'[p].step = n + 1
    BY <1>1, <1>2, <1>3, <2>1 DEF Workers
  <2>3. n + 1 \in Steps
    BY <1>3, <1>8, WorkflowAssumption DEF Steps
  <2>4. worker' \in [Procs -> Workers]
    <3>1. [worker[p] EXCEPT !.at = "start", !.step = n + 1, !.vars = captured] \in Workers
      BY <1>2, <2>3, Sizes DEF Workers, Stages
    <3> QED
      BY <1>8, <3>1
  <2>5. \A s \in Steps :
          /\ s > worker'[p].step \/ s = worker'[p].step => starts'[r][j][s] = 0
          /\ s < worker'[p].step /\ s \notin guarded => starts'[r][j][s] = 1
    <3>1. \A s \in Steps : /\ s > n + 1 \/ s = n + 1 => s > n
                           /\ s < n + 1 => s <= n
      BY <1>3 DEF Steps
    <3> QED
      BY <1>4, <2>2, <3>1
  <2>6. WorkerKnows(p, r)'
    <3>1. obj'[r] = obj[r] /\ result'[r] = result[r] /\ starts'[r] = starts[r]
      BY <1>8
    <3>2. \A s \in Steps : s = n + 1 \/ s > n + 1 \/ s < n + 1
      BY <1>3 DEF Steps
    <3>3. \A k \in Jobs :
            /\ k \in worker[p].done => result[r][k] \in Settled
                                       /\ obj[r].wf.jobs[k].needs \subseteq worker[p].done
            /\ result[r][k] = "completed" => Carried(r, k)
            /\ k \notin worker[p].done /\ k # j =>
                 result[r][k] = "none" /\ \A s \in Steps : starts[r][k][s] = 0
      BY <1>2, <1>3 DEF WorkerKnows
    <3>4. /\ j \in Jobs \ worker[p].done /\ result[r][j] = "running"
          /\ obj[r].wf.jobs[j].needs \subseteq worker[p].done
      BY <1>2, <1>3 DEF WorkerKnows
    <3> HIDE DEF RunInv
    <3>5. ASSUME NEW k \in Jobs
          PROVE  /\ k \in worker'[p].done => result'[r][k] \in Settled
                                    /\ obj'[r].wf.jobs[k].needs \subseteq worker'[p].done
                 /\ result'[r][k] = "completed" => Carried(r, k)'
                 /\ k \notin worker'[p].done /\ k # worker'[p].pos =>
                      result'[r][k] = "none" /\ \A s \in Steps : starts'[r][k][s] = 0
      BY <2>2, <3>1, <3>3 DEF Carried
    <3>6. /\ worker'[p].pos \in Jobs \ worker'[p].done
          /\ result'[r][worker'[p].pos] = "running" /\ worker'[p].step \in Steps
          /\ obj'[r].wf.jobs[worker'[p].pos].needs \subseteq worker'[p].done
      BY <2>2, <2>3, <3>1, <3>4
    <3>7. ASSUME NEW s \in Steps
          PROVE  /\ s > worker'[p].step \/ (s = worker'[p].step /\ worker'[p].at = "start")
                    => starts'[r][worker'[p].pos][s] = 0
                 /\ \/ s < worker'[p].step /\ s \notin obj'[r].wf.jobs[worker'[p].pos].guarded
                    \/ s = worker'[p].step /\ worker'[p].at = "step"
                    => starts'[r][worker'[p].pos][s] = 1
      BY <2>2, <2>5, <3>1
    <3> QED
      BY <2>2, <3>5, <3>6, <3>7 DEF WorkerKnows
  <2> QED
    BY <1>6, <1>8, <2>1, <2>2, <2>4, <2>6
<1>9. CASE /\ worker' = [worker EXCEPT ![p].at = "pick", ![p].step = 0, ![p].progress = TRUE,
                                       ![p].done = @ \cup {j}, ![p].vars = captured]
           /\ n = NSteps /\ result' = [result EXCEPT ![r][j] = "completed"]
  <2>1. /\ worker'[p] = [worker[p] EXCEPT !.at = "pick", !.step = 0, !.progress = TRUE,
                                          !.done = worker[p].done \cup {j}, !.vars = captured]
        /\ \A q \in Procs \ {p} : worker'[q] = worker[q]
    BY <1>9
  <2>2. /\ worker'[p].at = "pick" /\ worker'[p].run = r /\ worker'[p].rv = worker[p].rv
        /\ worker'[p].done = worker[p].done \cup {j} /\ worker'[p].pos = j /\ ~worker'[p].ok
    BY <1>1, <1>2, <1>3, <2>1 DEF Workers
  <2>3. worker' \in [Procs -> Workers]
    <3> DEFINE w == [worker[p] EXCEPT !.at = "pick", !.step = 0, !.progress = TRUE]
    <3>1. w \in Workers
      BY <1>2, Sizes DEF Workers, Stages
    <3>2. worker'[p] = [w EXCEPT !.done = worker[p].done \cup {j}, !.vars = captured]
      BY <2>1
    <3>3. worker[p].done \cup {j} \in SUBSET Jobs
      BY <1>2, <1>3 DEF Workers
    <3> HIDE DEF w
    <3>4. worker'[p] \in Workers
      BY <3>1, <3>2, <3>3 DEF Workers
    <3> QED
      BY <1>9, <3>4
  <2>4. /\ result'[r][j] = "completed" /\ \A k \in Jobs \ {j} : result'[r][k] = result[r][k]
        /\ \A q \in Runs \ {r} : result'[q] = result[q]
        /\ result' \in [Runs -> [Jobs -> Results]]
    BY <1>3, <1>9 DEF Results
  <2>5. \A s \in Steps \ guarded : starts'[r][j][s] = 1
    <3>1. \A s \in Steps : s <= n
      BY <1>9, WorkflowAssumption DEF Steps
    <3> QED
      BY <1>4, <3>1
  <2>6. WorkerKnows(p, r)'
    <3> HIDE DEF RunInv
    <3>1. /\ obj'[r] = obj[r] /\ starts'[r] = starts[r]
          /\ obj[r].wf.jobs[j].needs \subseteq worker[p].done
      BY <1>3
    <3>2. /\ \A k \in Jobs : k \in worker'[p].done <=> k \in worker[p].done \/ k = j
          /\ worker[p].done \subseteq worker'[p].done
      BY <2>2
    <3>3. \A k \in Jobs :
            /\ k \in worker[p].done => result[r][k] \in Settled
                                       /\ obj[r].wf.jobs[k].needs \subseteq worker[p].done
            /\ result[r][k] = "completed" => Carried(r, k)
            /\ k \notin worker[p].done /\ k # j =>
                 result[r][k] = "none" /\ \A s \in Steps : starts[r][k][s] = 0
      BY <1>2, <1>3 DEF WorkerKnows
    <3>4. ASSUME NEW k \in Jobs
          PROVE  /\ k \in worker'[p].done => result'[r][k] \in Settled
                                    /\ obj'[r].wf.jobs[k].needs \subseteq worker'[p].done
                 /\ result'[r][k] = "completed" => Carried(r, k)'
                 /\ k \notin worker'[p].done /\ k # worker'[p].pos =>
                      result'[r][k] = "none" /\ \A s \in Steps : starts'[r][k][s] = 0
      <4>1. CASE k = j
        BY <2>2, <2>4, <2>5, <3>1, <3>2, <4>1 DEF Carried, Settled
      <4>2. CASE k # j
        BY <2>2, <2>4, <3>1, <3>2, <3>3, <4>2 DEF Carried
      <4> QED
        BY <4>1, <4>2
    <3> QED
      BY <2>2, <3>4 DEF WorkerKnows
  <2> QED
    BY <1>6, <2>1, <2>2, <2>3, <2>4, <2>6
<1> QED
  BY <1>1, <1>7, <1>8, <1>9 DEF LeaveStep, Run

LEMMA StartKeeps ==
    ASSUME RunInv, NEW p \in Procs, StartStep(p)
    PROVE  RunInv'
<1> USE Typed DEF RunInv
<1>1. PICK r \in Runs : worker[p].run = r
  BY DEF StartStep, At, InHand, Workers
<1> DEFINE j == worker[p].pos
           n == worker[p].step
<1>2. /\ worker[p].at = "start" /\ worker[p] \in Workers /\ At(p, "start")
      /\ Busy(p, r) /\ WorkerKnows(p, r) /\ UNCHANGED <<obj, cache, excuse, faults>>
  BY <1>1 DEF StartStep, At, Busy
<1>3. /\ j \in Jobs /\ n \in Steps /\ starts[r][j][n] = 0 /\ worker[p].vars \in SUBSET Names
  BY <1>2 DEF WorkerKnows, Workers
<1>4. CASE /\ starts' = [starts EXCEPT ![r][j][n] = @ + 1]
           /\ Move(p, "step") /\ UNCHANGED result
  <2>1. /\ worker'[p] = [worker[p] EXCEPT !.at = "step"]
        /\ \A q \in Procs \ {p} : worker'[q] = worker[q]
    BY <1>4 DEF Move
  <2>2. /\ worker'[p].at = "step" /\ worker'[p].run = r /\ worker'[p].rv = worker[p].rv
        /\ worker'[p].done = worker[p].done /\ worker'[p].pos = j /\ worker'[p].ok = worker[p].ok
        /\ worker'[p].step = n
    BY <1>1, <1>2, <2>1 DEF Workers
  <2>3. worker' \in [Procs -> Workers]
    <3>1. [worker[p] EXCEPT !.at = "step"] \in Workers
      BY <1>2 DEF Workers, Stages
    <3> QED
      BY <1>4, <3>1 DEF Move
  <2>4. /\ starts'[r][j][n] = 1 /\ \A q \in Runs \ {r} : starts'[q] = starts[q]
        /\ \A k \in Jobs, s \in Steps : k # j \/ s # n => starts'[r][k][s] = starts[r][k][s]
    BY <1>3, <1>4
  <2>5. starts' \in [Runs -> [Jobs -> [Steps -> Nat]]]
    BY <1>3, <1>4
  <2>6. TypeOK'
    BY <1>2, <1>4, <2>3, <2>5 DEF TypeOK, Workers
  <2>7. \A k \in Jobs, s \in Steps : starts'[r][k][s] <= 1
    <3> SUFFICES ASSUME NEW k \in Jobs, NEW s \in Steps PROVE starts'[r][k][s] <= 1
      OBVIOUS
    <3>1. starts[r][k][s] <= 1
      BY DEF StepsRunOnce
    <3>2. starts'[r][k][s] = 1 \/ starts'[r][k][s] = starts[r][k][s]
      BY <2>4
    <3> QED
      BY <3>1, <3>2
  <2>8. Busy(p, r)'
    BY <2>2 DEF Busy
  <2>9. WorkerKnows(p, r)'
    <3>1. /\ obj'[r] = obj[r] /\ result'[r] = result[r]
          /\ \A k \in Jobs \ {j} : \A s \in Steps : starts'[r][k][s] = starts[r][k][s]
          /\ \A s \in Steps \ {n} : starts'[r][j][s] = starts[r][j][s]
      BY <1>2, <1>4, <2>4
    <3>2. \A s \in Steps : ~(n < n) /\ ~(n > n)
      BY <1>3 DEF Steps
    <3>3. \A k \in Jobs \ {j} : Carried(r, k)' <=> Carried(r, k)
      BY <3>1 DEF Carried
    <3> HIDE DEF RunInv
    <3>4. /\ result[r][j] = "running" /\ j \in Jobs \ worker[p].done /\ ~worker[p].ok
          /\ obj[r].wf.jobs[j].needs \subseteq worker[p].done
      BY <1>2 DEF WorkerKnows
    <3>5. ASSUME NEW k \in Jobs
          PROVE  /\ k \in worker'[p].done => result'[r][k] \in Settled
                                    /\ obj'[r].wf.jobs[k].needs \subseteq worker'[p].done
                 /\ result'[r][k] = "completed" => Carried(r, k)'
                 /\ k \notin worker'[p].done /\ k # worker'[p].pos =>
                      result'[r][k] = "none" /\ \A s \in Steps : starts'[r][k][s] = 0
      <4>1. CASE k = j
        BY <2>2, <3>1, <3>4, <4>1
      <4>2. CASE k # j
        BY <1>2, <2>2, <3>1, <3>3, <4>2 DEF WorkerKnows
      <4> QED
        BY <4>1, <4>2
    <3>6. ASSUME NEW s \in Steps
          PROVE  /\ s > n => starts'[r][j][s] = 0
                 /\ (s < n /\ s \notin obj'[r].wf.jobs[j].guarded) \/ s = n => starts'[r][j][s] = 1
      <4>1. CASE s = n
        BY <2>4, <3>2, <4>1
      <4>2. CASE s # n
        BY <1>2, <3>1, <4>2 DEF WorkerKnows
      <4> QED
        BY <4>1, <4>2
    <3>7. ASSUME NEW s \in Steps
          PROVE  /\ s > worker'[p].step \/ (s = worker'[p].step /\ worker'[p].at = "start")
                    => starts'[r][worker'[p].pos][s] = 0
                 /\ \/ s < worker'[p].step /\ s \notin obj'[r].wf.jobs[worker'[p].pos].guarded
                    \/ s = worker'[p].step /\ worker'[p].at = "step"
                    => starts'[r][worker'[p].pos][s] = 1
      BY <2>2, <3>6
    <3>8. /\ worker'[p].pos \in Jobs \ worker'[p].done
          /\ result'[r][worker'[p].pos] = "running" /\ worker'[p].step \in Steps
          /\ obj'[r].wf.jobs[worker'[p].pos].needs \subseteq worker'[p].done
      BY <1>3, <2>2, <3>1, <3>4
    <3>9. ~worker'[p].ok
      BY <2>2, <3>4
    <3> QED
      BY <2>2, <3>5, <3>7, <3>8, <3>9 DEF WorkerKnows
  <2> QED
    BY <1>2, <1>4, <2>1, <2>2, <2>4, <2>6, <2>7, <2>8, <2>9, BusyStep
<1>5. CASE n \in Job(p).guarded /\ LeaveStep(p, TRUE, worker[p].vars) /\ UNCHANGED starts
  BY <1>2, <1>3, <1>5, LeaveKeeps
<1>6. ~(n \in Job(p).guarded) => Holds("always", worker[p].vars) = {TRUE}
  BY DEF Holds
<1> QED
  BY <1>1, <1>4, <1>5, <1>6 DEF StartStep, Run

LEMMA EndKeeps ==
    ASSUME RunInv, NEW p \in Procs, EndStep(p)
    PROVE  RunInv'
<1>1. PICK ok \in BOOLEAN, captured \in SUBSET Names : LeaveStep(p, ok, captured)
  <2>1. \A printed \in SUBSET Names : worker[p].vars \cup printed \in SUBSET Names
    BY Typed DEF RunInv, Workers
  <2> QED
    BY <2>1 DEF EndStep
<1>2. At(p, "step") \/ (At(p, "start") /\ worker[p].step \in Job(p).guarded)
  BY DEF EndStep
<1>3. UNCHANGED <<obj, cache, starts, excuse, faults>>
  BY DEF EndStep
<1> QED
  BY <1>1, <1>2, <1>3, LeaveKeeps

-----------------------------------------------------------------------------
LEMMA StepInv == RunInv /\ [Next]_vars => RunInv'
<1> SUFFICES ASSUME RunInv, [Next]_vars PROVE RunInv'
  OBVIOUS
<1>1. CASE UNCHANGED vars
  <2>1. UNCHANGED <<obj, cache, worker, starts, result, excuse, faults>>
    BY <1>1 DEF vars
  <2>2. TypeOK' /\ StepsRunOnce'
    BY <2>1 DEF RunInv, TypeOK, StepsRunOnce
  <2>3. \A r \in Runs : OneWorker(r)' /\ NotBefore(r)'
    BY <2>1 DEF RunInv, OneWorker, NotBefore, Busy, There
  <2>4. \A p \in Procs : InHand(p)'
    BY <2>1 DEF RunInv, InHand, There
  <2>5. \A p \in Procs, r \in Runs : CopiesLag(p, r)' /\ (Busy(p, r)' => WorkerKnows(p, r)')
    <3> SUFFICES ASSUME NEW p \in Procs, NEW r \in Runs
                 PROVE  CopiesLag(p, r)' /\ (Busy(p, r)' => WorkerKnows(p, r)')
      OBVIOUS
    <3>1. CopiesLag(p, r) /\ (Busy(p, r) => WorkerKnows(p, r))
      BY DEF RunInv
    <3>2. CopiesLag(p, r)'
      BY <2>1, <3>1 DEF CopiesLag, There, At, Current
    <3>3. Busy(p, r)' <=> Busy(p, r)
      BY <2>1 DEF Busy
    <3> QED
      BY <2>1, <3>1, <3>2, <3>3, KnowsFrame
  <2> QED
    BY <2>2, <2>3, <2>4, <2>5 DEF RunInv
<1>2. ASSUME NEW r \in Runs, Submit(r) \/ Touch(r) \/ Remove(r) PROVE RunInv'
  BY <1>2, SubmitKeeps, TouchKeeps, RemoveKeeps
<1>3. ASSUME NEW p \in Procs, NEW r \in Runs, Sync(p, r) \/ Begin(p, r) PROVE RunInv'
  BY <1>3, SyncKeeps, BeginKeeps
<1>4. ASSUME NEW p \in Procs, Worker(p) \/ Crash(p) PROVE RunInv'
  <2>1. CASE Executor(p)
    BY <2>1, PickKeeps, EndPassKeeps, StartKeeps, EndKeeps DEF Executor
  <2> QED
    BY <1>4, <2>1, ClaimKeeps, AuthenticateKeeps, FinishKeeps, CrashKeeps DEF Worker
<1> QED
  BY <1>1, <1>2, <1>3, <1>4 DEF Next

(* RunInv: a run is carried out by one worker, which has claimed it, its   *)
(* steps run at most once each (StepsRunOnce), and what the worker knows   *)
(* of it is what has happened.                                             *)
THEOREM RunInvariant == Spec => []RunInv
<1>1. Init => RunInv
  BY InitInv
<1>2. RunInv /\ [Next]_vars => RunInv'
  BY StepInv
<1> QED
  BY <1>1, <1>2, PTL DEF Spec

-----------------------------------------------------------------------------
(* Carrying out a run touches that run's history and no object.            *)
LEMMA Quiet ==
    ASSUME RunInv, NEW p \in Procs, Executor(p) \/ Authenticate(p) \/ Prepare(p)
    PROVE  /\ obj' = obj
           /\ \A q \in Procs, r \in Runs : Busy(q, r)' <=> Busy(q, r)
           /\ \A r \in Runs : ~Busy(p, r) => result'[r] = result[r] /\ starts'[r] = starts[r]
<1> USE Typed DEF RunInv
<1> DEFINE Quietly ==
             /\ obj' = obj /\ \A q \in Procs \ {p} : worker'[q] = worker[q]
             /\ worker[p].at \notin {"idle", "claim"} /\ worker'[p].at \notin {"idle", "claim"}
             /\ worker'[p].run = worker[p].run
             /\ \A r \in Runs : r # worker[p].run =>
                  result'[r] = result[r] /\ starts'[r] = starts[r]
<1>1. SUFFICES Quietly
  BY DEF Busy
<1>2. worker[p] \in Workers
  OBVIOUS
<1>3. ASSUME NEW stage \in Stages \ {"idle", "claim"}, Move(p, stage),
             worker[p].at \notin {"idle", "claim"}, UNCHANGED <<obj, result>>,
             \A r \in Runs : r # worker[p].run => starts'[r] = starts[r]
      PROVE  Quietly
  BY <1>2, <1>3 DEF Move, Workers
<1>4. CASE Authenticate(p) \/ Prepare(p)
  <2>1. PICK stage \in Stages \ {"idle", "claim"} : Move(p, stage)
    BY <1>4 DEF Authenticate, Prepare, Stages
  <2>2. worker[p].at \notin {"idle", "claim"} /\ UNCHANGED <<obj, result, starts>>
    BY <1>4 DEF Authenticate, Prepare, At
  <2> QED
    BY <1>3, <2>1, <2>2
<1>5. CASE PickJob(p)
  BY <1>2, <1>5 DEF PickJob, Settle, At, Run, Workers
<1>6. CASE EndPass(p) \/ EndJobs(p)
  BY <1>2, <1>6 DEF EndPass, EndJobs, At, Workers
<1>7. ASSUME NEW ok, NEW captured, LeaveStep(p, ok, captured), UNCHANGED <<obj, starts>>,
             worker[p].at \in {"start", "step"}
      PROVE  Quietly
  BY <1>2, <1>7 DEF LeaveStep, Workers
<1>8. CASE EndStep(p)
  BY <1>7, <1>8 DEF EndStep, At
<1>9. CASE StartStep(p)
  <2>1. worker[p].at = "start" /\ obj' = obj
    BY <1>9 DEF StartStep, At
  <2>2. CASE LeaveStep(p, TRUE, worker[p].vars) /\ UNCHANGED starts
    BY <1>7, <2>1, <2>2
  <2>3. CASE /\ Move(p, "step") /\ UNCHANGED result
             /\ \E j, s : starts' = [starts EXCEPT ![worker[p].run][j][s] = @ + 1]
    <3>1. \A r \in Runs : r # worker[p].run => starts'[r] = starts[r]
      BY <2>3
    <3>2. "step" \in Stages \ {"idle", "claim"}
      BY DEF Stages
    <3> QED
      BY <1>3, <2>1, <2>3, <3>1, <3>2
  <2> QED
    BY <1>9, <2>2, <2>3 DEF StartStep
<1> QED
  BY <1>4, <1>5, <1>6, <1>8, <1>9 DEF Executor

-----------------------------------------------------------------------------
(* A run that nobody carries out keeps its history.                        *)
LEMMA Bystander ==
    ASSUME RunInv, [Next]_vars, NEW r \in Runs, \A p \in Procs : ~Busy(p, r)
    PROVE  result'[r] = result[r] /\ starts'[r] = starts[r]
<1>1. CASE UNCHANGED <<starts, result>>
  BY <1>1
<1>2. CASE ~UNCHANGED <<starts, result>>
  <2>1. PICK p \in Procs : Executor(p)
    BY <1>2 DEF Next, Worker, Submit, Touch, Remove, Sync, Begin, Claim, Authenticate, Prepare,
                Finish, Crash, vars
  <2> QED
    BY <2>1, Quiet
<1> QED
  BY <1>1, <1>2

(* Only the worker of a run, which has done all its jobs, makes a success  *)
(* of it.                                                                  *)
LEMMA Succeeds ==
    ASSUME RunInv, [Next]_vars, NEW r \in Runs, obj'[r].phase = "Succeeded"
    PROVE  /\ obj'[r].wf = obj[r].wf
           /\ \/ obj[r].phase = "Succeeded"
              \/ \E p \in Procs : Finish(p) /\ Busy(p, r) /\ worker[p].ok
<1> USE Typed DEF RunInv
<1>1. obj[r] \in Objects
  OBVIOUS
<1>2. CASE obj'[r] = obj[r]
  BY <1>2
<1>3. ASSUME NEW q \in Runs, Submit(q) \/ Touch(q) \/ Remove(q), obj'[r] # obj[r]
      PROVE  obj'[r].wf = obj[r].wf /\ obj[r].phase = "Succeeded"
  BY <1>1, <1>3 DEF Submit, Touch, Remove, Objects
<1>4. ASSUME NEW p \in Procs, Claim(p), obj'[r] # obj[r] PROVE FALSE
  <2>1. obj' = [obj EXCEPT ![Run(p)] = Written(@, "Running")]
    BY <1>4 DEF Claim
  <2>2. obj'[r] = Written(obj[r], "Running")
    BY <1>4, <2>1
  <2> QED
    BY <1>1, <2>2, Writing DEF Phases
<1>5. ASSUME NEW p \in Procs, Finish(p), obj'[r] # obj[r]
      PROVE  obj'[r].wf = obj[r].wf /\ Busy(p, r) /\ worker[p].ok
  <2>1. obj' = [obj EXCEPT ![Run(p)] = Written(@, Reported(worker[p].ok))]
    BY <1>5 DEF Finish
  <2>2. obj'[r] = Written(obj[r], Reported(worker[p].ok)) /\ r = Run(p)
    BY <1>5, <2>1
  <2>3. Reported(worker[p].ok) \in Phases
    BY DEF Reported, Phases
  <2>4. obj'[r].phase = Reported(worker[p].ok) /\ obj'[r].wf = obj[r].wf
    BY <1>1, <2>2, <2>3, Writing
  <2>5. worker[p].ok
    BY <2>4 DEF Reported
  <2> QED
    BY <1>5, <2>2, <2>4, <2>5 DEF Busy, Run, Finish, At
<1>6. ASSUME NEW p \in Procs, Executor(p) \/ Authenticate(p) \/ Prepare(p) \/ Crash(p)
      PROVE  obj'[r] = obj[r]
  BY <1>6, Quiet DEF Crash
<1>7. ASSUME NEW p \in Procs, NEW q \in Runs, Sync(p, q) \/ Begin(p, q) PROVE obj'[r] = obj[r]
  BY <1>7 DEF Sync, Begin
<1> QED
  BY <1>2, <1>3, <1>4, <1>5, <1>6, <1>7 DEF Next, Worker, vars

(* SuccessIsEarned: a run reported as a success has completed or skipped   *)
(* every job, each after all it depends on, and every unconditional step   *)
(* of a completed job was started.                                         *)
THEOREM SuccessEarned == Spec => []SuccessIsEarned
<1>1. Init => SuccessIsEarned
  BY DEF Init, SuccessIsEarned
<1>2. RunInv /\ SuccessIsEarned /\ [Next]_vars => SuccessIsEarned'
  <2> SUFFICES ASSUME RunInv, SuccessIsEarned, [Next]_vars, NEW r \in Runs,
                      obj'[r].phase = "Succeeded", NEW j \in Jobs
               PROVE  /\ result'[r][j] \in Settled
                      /\ result'[r][j] = "completed" => Carried(r, j)'
                      /\ obj'[r].wf.jobs[j].needs \subseteq Jobs
    BY DEF SuccessIsEarned
  <2>1. obj'[r].wf = obj[r].wf
    BY Succeeds
  <2>2. CASE obj[r].phase = "Succeeded"
    <3>1. \A p \in Procs : ~Busy(p, r)
      BY <2>2 DEF RunInv, OneWorker
    <3>2. result'[r] = result[r] /\ starts'[r] = starts[r]
      BY <3>1, Bystander
    <3> HIDE DEF RunInv
    <3>3. /\ result[r][j] \in Settled
          /\ result[r][j] = "completed" => Carried(r, j)
          /\ obj[r].wf.jobs[j].needs \subseteq Jobs
      BY <2>2 DEF SuccessIsEarned
    <3> QED
      BY <2>1, <3>2, <3>3 DEF Carried
  <2>3. CASE \E p \in Procs : Finish(p) /\ Busy(p, r) /\ worker[p].ok
    <3>1. PICK p \in Procs : Finish(p) /\ Busy(p, r) /\ worker[p].ok
      BY <2>3
    <3>2. WorkerKnows(p, r) /\ UNCHANGED <<starts, result>>
      BY <3>1 DEF RunInv, Finish
    <3> QED
      BY <2>1, <3>1, <3>2 DEF WorkerKnows, Carried
  <2> QED
    BY <2>2, <2>3, Succeeds
<1> QED
  BY <1>1, <1>2, RunInvariant, PTL DEF Spec

-----------------------------------------------------------------------------
(* Each step of the controllers and their clients, as OneShotRun sees it.  *)
LEMMA Becomes ==
    ASSUME NEW r \in Runs, NEW p, NEW w, obj'[r].phase = p, Work'[r] = w,
           \A q \in Runs \ {r} : obj'[q].phase = obj[q].phase /\ Work'[q] = Work[q]
    PROVE  OneShot!Become(r, p, w)
<1>1. [q \in Runs |-> obj'[q].phase] = [[q \in Runs |-> obj[q].phase] EXCEPT ![r] = p]
  OBVIOUS
<1>2. /\ Work' = [q \in Runs |-> Work'[q]]
      /\ [Work EXCEPT ![r] = w] = [q \in Runs |-> IF q = r THEN w ELSE Work[q]]
  BY DEF Work
<1>3. Work' = [Work EXCEPT ![r] = w]
  BY <1>2
<1> QED
  BY <1>1, <1>3 DEF OneShot!Become

LEMMA Works ==
    ASSUME NEW r \in Runs
    PROVE  /\ obj[r].phase \in {"absent", "Pending"} => Work[r] = "none"
           /\ obj[r].phase \notin {"absent", "Pending"} =>
                Work[r] = IF \E p \in Procs : Busy(p, r) THEN "going" ELSE "over"
BY DEF Work

LEMMA WorksNext ==
    ASSUME NEW r \in Runs
    PROVE  /\ obj'[r].phase \in {"absent", "Pending"} => Work'[r] = "none"
           /\ obj'[r].phase \notin {"absent", "Pending"} =>
                Work'[r] = IF \E p \in Procs : Busy(p, r)' THEN "going" ELSE "over"
BY DEF Work

LEMMA SameWork ==
    ASSUME NEW r \in Runs, obj'[r].phase = obj[r].phase,
           \A p \in Procs : Busy(p, r)' <=> Busy(p, r)
    PROVE  Work'[r] = Work[r]
BY Works, WorksNext

(* Nothing that OneShotRun speaks of has changed.                          *)
Stutters == \A r \in Runs : obj'[r].phase = obj[r].phase /\ Work'[r] = Work[r]

LEMMA Stuttering == Stutters => UNCHANGED <<[r \in Runs |-> obj[r].phase], Work>>
BY DEF Stutters, Work

LEMMA WritersRefine ==
    ASSUME RunInv, NEW r \in Runs, Submit(r) \/ Touch(r) \/ Remove(r)
    PROVE  OneShot!Next \/ Stutters
<1> USE Typed DEF RunInv
<1>1. /\ worker' = worker /\ \A q \in Runs \ {r} : obj'[q] = obj[q]
      /\ \A p \in Procs, q \in Runs : Busy(p, q)' <=> Busy(p, q)
  BY DEF Submit, Touch, Remove, Busy
<1>2. \A q \in Runs \ {r} : obj'[q].phase = obj[q].phase /\ Work'[q] = Work[q]
  BY <1>1, SameWork
<1>3. CASE Submit(r)
  <2>1. obj[r].phase = "absent" /\ obj'[r].phase = "Pending"
    BY <1>3 DEF Submit
  <2>2. OneShot!Become(r, "Pending", "none")
    BY <1>2, <2>1, WorksNext, Becomes
  <2> QED
    BY <2>1, <2>2 DEF OneShot!Create, OneShot!Next
<1>4. CASE Touch(r)
  <2>1. obj'[r].phase = obj[r].phase
    BY <1>4 DEF Touch, Objects
  <2> QED
    BY <1>1, <1>2, <2>1, SameWork DEF Stutters
<1>5. CASE Remove(r)
  <2>1. obj[r].phase \notin {"absent", "gone"} /\ obj'[r].phase = "gone"
    BY <1>5 DEF Remove, There, Objects
  <2>2. Work'[r] = IF \E p \in Procs : Busy(p, r) THEN "going" ELSE "over"
    BY <1>1, <2>1, WorksNext
  <2>3. obj[r].phase = "Pending" => ~\E p \in Procs : Busy(p, r)
    BY DEF OneWorker
  <2>4. Work'[r] = IF Work[r] = "none" THEN "over" ELSE Work[r]
    BY <2>1, <2>2, <2>3, Works
  <2>5. ASSUME NEW w, Work'[r] = w PROVE OneShot!Next
    <3>1. OneShot!Become(r, "gone", w)
      BY <1>2, <2>1, <2>5, Becomes
    <3>2. w = IF Work[r] = "none" THEN "over" ELSE Work[r]
      BY <2>4, <2>5
    <3> QED
      BY <2>1, <3>1, <3>2 DEF OneShot!Remove, OneShot!Become, OneShot!Next
  <2> QED
    BY <2>5
<1> QED
  BY <1>3, <1>4, <1>5

LEMMA ClaimRefines ==
    ASSUME RunInv, NEW p \in Procs, Claim(p)
    PROVE  OneShot!Next \/ Stutters
<1> USE Typed DEF RunInv
<1>1. PICK r \in Runs : worker[p].run = r /\ worker[p].at = "claim"
  BY DEF Claim, At, InHand, Workers
<1>2. /\ \A q \in Procs \ {p} : worker'[q] = worker[q]
      /\ \A q \in Runs \ {r} : obj'[q] = obj[q]
      /\ worker'[p].run \in {r, NoRun}
  BY <1>1, IdleTyped DEF Claim, Run, Workers
<1>3. \A q \in Runs \ {r} : obj'[q].phase = obj[q].phase /\ Work'[q] = Work[q]
  <2>1. \A x \in Procs, q \in Runs \ {r} : Busy(x, q)' <=> Busy(x, q)
    BY <1>1, <1>2, WorkflowAssumption DEF Busy
  <2> QED
    BY <1>2, <2>1, SameWork
<1>4. CASE ~Current(r, worker[p].rv)
  <2>1. obj' = obj /\ worker'[p] = Idle
    BY <1>1, <1>4 DEF Claim, Run
  <2>2. \A x \in Procs : Busy(x, r)' <=> Busy(x, r)
    BY <1>1, <1>2, <2>1, IdleTyped DEF Busy
  <2> QED
    BY <1>3, <2>1, <2>2, SameWork DEF Stutters
<1>5. CASE Current(r, worker[p].rv)
  <2>1. obj[r].phase = "Pending" /\ obj[r] \in Objects
    BY <1>1, <1>5 DEF CopiesLag, At
  <2>2. obj'[r] = Written(obj[r], "Running") /\ "Running" \in Phases
    BY <1>1, <1>5 DEF Claim, Run, Phases
  <2>3. obj'[r].phase = "Running"
    BY <2>1, <2>2, Writing
  <2>4. Work'[r] \in {"going", "over"}
    BY <2>3, WorksNext
  <2>5. OneShot!Become(r, "Running", "going") \/ OneShot!Become(r, "Running", "over")
    BY <1>3, <2>3, <2>4, Becomes
  <2> QED
    BY <2>1, <2>5 DEF OneShot!Take, OneShot!Lose, OneShot!Next
<1> QED
  BY <1>4, <1>5

(* The worker of a run puts it down: it reports, or its process dies.      *)
LEMMA EndRefines ==
    ASSUME RunInv, NEW p \in Procs, Finish(p) \/ Crash(p)
    PROVE  OneShot!Next \/ Stutters
<1> USE Typed DEF RunInv
<1>1. /\ worker'[p] = Idle /\ \A q \in Procs \ {p} : worker'[q] = worker[q]
      /\ \A q \in Runs : q # Run(p) => obj'[q] = obj[q]
  BY DEF Finish, Crash
<1>2. \A x \in Procs, q \in Runs : Busy(x, q)' <=> Busy(x, q) /\ x # p
  BY <1>1, IdleTyped, WorkflowAssumption DEF Busy
<1>3. ASSUME NEW r \in Runs, ~Busy(p, r), obj'[r] = obj[r]
      PROVE  obj'[r].phase = obj[r].phase /\ Work'[r] = Work[r]
  BY <1>2, <1>3, SameWork
<1>4. CASE \A r \in Runs : ~Busy(p, r)
  <2>1. obj' = obj
    BY <1>4 DEF Finish, Crash, At, Busy, InHand, Workers, Run
  <2> QED
    BY <1>3, <1>4, <2>1 DEF Stutters
<1>5. ASSUME NEW r \in Runs, Busy(p, r) PROVE OneShot!Next
  <2>1. Run(p) = r /\ obj[r].phase \in {"Running", "gone"} /\ Work[r] = "going"
    BY <1>5, Works DEF Busy, Run, OneWorker
  <2>2. \A q \in Runs \ {r} : obj'[q].phase = obj[q].phase /\ Work'[q] = Work[q]
    BY <1>1, <1>3, <2>1 DEF Busy, Run
  <2>3. \/ obj'[r].phase = obj[r].phase
        \/ obj[r].phase = "Running" /\ obj'[r].phase \in Final
    <3>1. CASE obj' = obj
      BY <3>1
    <3>2. CASE Current(r, worker[p].rv) /\ obj'[r] = Written(obj[r], Reported(worker[p].ok))
      <4>1. obj[r].phase = "Running" /\ obj[r] \in Objects
        BY <2>1, <3>2 DEF Current, There
      <4>2. Reported(worker[p].ok) \in Phases /\ Reported(worker[p].ok) \in Final
        BY DEF Reported, Phases, Final
      <4> QED
        BY <3>2, <4>1, <4>2, Writing
    <3> QED
      BY <2>1, <3>1, <3>2 DEF Finish, Crash
  <2>4. Work'[r] = "over"
    <3>1. \A x \in Procs : ~Busy(x, r)'
      BY <1>2, <1>5 DEF OneWorker
    <3>2. obj'[r].phase \notin {"absent", "Pending"}
      BY <2>1, <2>3 DEF Final
    <3> QED
      BY <3>1, <3>2, WorksNext
  <2>5. OneShot!Become(r, obj'[r].phase, "over")
    BY <2>2, <2>4, Becomes
  <2> QED
    BY <2>1, <2>3, <2>5 DEF OneShot!End, OneShot!Next, OneShot!Final, Final
<1> QED
  BY <1>4, <1>5

(* ImplementsOneShot: each run is carried out at most once, while its      *)
(* phase says Running, and an outcome is never taken back.                 *)
THEOREM Refinement == Spec => ImplementsOneShot
<1>1. Init => OneShot!Init
  <2> SUFFICES ASSUME Init PROVE OneShot!Init
    OBVIOUS
  <2>1. \A r \in Runs : obj[r].phase = "absent"
    BY DEF Init
  <2> QED
    BY <2>1 DEF OneShot!Init, Work
<1>2. RunInv /\ [Next]_vars => [OneShot!Next]_<<[r \in Runs |-> obj[r].phase], Work>>
  <2> SUFFICES ASSUME RunInv, [Next]_vars PROVE OneShot!Next \/ Stutters
    BY Stuttering
  <2>1. CASE UNCHANGED <<obj, worker>>
    BY <2>1, SameWork DEF Stutters, Busy
  <2>2. ASSUME NEW r \in Runs, Submit(r) \/ Touch(r) \/ Remove(r)
        PROVE  OneShot!Next \/ Stutters
    BY <2>2, WritersRefine
  <2>3. ASSUME NEW p \in Procs, Executor(p) \/ Authenticate(p) \/ Prepare(p) PROVE Stutters
    BY <2>3, Quiet, SameWork DEF Stutters
  <2>4. ASSUME NEW p \in Procs, Claim(p) \/ Finish(p) \/ Crash(p)
        PROVE  OneShot!Next \/ Stutters
    BY <2>4, ClaimRefines, EndRefines
  <2>5. ASSUME NEW p \in Procs, NEW r \in Runs, Begin(p, r) PROVE Stutters
    <3>1. /\ \A q \in Procs \ {p} : worker'[q] = worker[q]
          /\ worker[p].at = "idle" /\ worker'[p].at = "claim" /\ obj' = obj
      BY <2>5, Typed DEF Begin, At, RunInv, Idle
    <3>2. \A q \in Procs, i \in Runs : Busy(q, i)' <=> Busy(q, i)
      BY <3>1 DEF Busy
    <3> QED
      BY <3>1, <3>2, SameWork DEF Stutters
  <2>6. ASSUME NEW p \in Procs, NEW r \in Runs, Sync(p, r) PROVE UNCHANGED <<obj, worker>>
    BY <2>6 DEF Sync
  <2> QED
    BY <2>1, <2>2, <2>3, <2>4, <2>5, <2>6 DEF Next, Worker, vars
<1> QED
  BY <1>1, <1>2, RunInvariant, PTL DEF Spec, ImplementsOneShot, OneShot!Spec
=============================================================================
