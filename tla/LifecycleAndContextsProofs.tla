--------------------- MODULE LifecycleAndContextsProofs ---------------------
(***************************************************************************)
(* Theorems about ClusterLifecycle and Contexts for every value of their   *)
(* constants. A cluster: the finalizer covers whatever may exist, hashes   *)
(* record what was applied. The command line: with any number of contexts, *)
(* processes and shells, a command acts in the organization its user       *)
(* meant, and on the server of the session it sends.                       *)
(***************************************************************************)
EXTENDS ClusterLifecycle, Contexts, FiniteSetTheorems, WellFoundedInduction, TLAPS

-----------------------------------------------------------------------------
(* Typing of the operators the actions are built from.                     *)

(* Deleted and Gone, the two results of a deletion request, are objects.   *)
LEMMA DeletedType ==
    ASSUME NEW o \in Objects
    PROVE  /\ Deleted(o) \in Objects
           /\ Unfinalized(o) \in Objects
           /\ \A u \in 0..MaxUid : Gone(u) \in Objects
<1>1. \A u \in 0..MaxUid : Gone(u) \in Objects
  BY ConstantsAssumption DEF Gone, Objects, Hashes, Phases
<1>2. o.uid \in 0..MaxUid
  BY DEF Objects
<1>3. [o EXCEPT !.dt = TRUE] \in Objects /\ [o EXCEPT !.fin = FALSE] \in Objects
  BY DEF Objects
<1> QED
  BY <1>1, <1>2, <1>3 DEF Deleted, Unfinalized

(* ParamsHash maps every params value into the recorded hashes.            *)
LEMMA ParamsHashType == \A p \in Params : ParamsHash(p) \in Hashes
  BY DEF ParamsHash, Hashes

(* A pass that has read nothing.                                           *)
LEMMA NoPassType == NoPass \in Passes
<1>1. Gone(0) \in Objects
  BY ConstantsAssumption DEF Gone, Objects, Hashes, Phases
<1> QED
  BY <1>1 DEF NoPass, Passes, Hashes, Phases

(* A step that spends a fault or none keeps the count of them typed.       *)
LEMMA FaultType == faults \in Nat /\ (Fault \/ NoFault) => faults' \in Nat
  BY DEF Fault, NoFault

(* A Job's effect leaves a well-typed cloud; a delete op leaves none, or   *)
(* one being deleted; only a create op leaves one no delete op has seen.   *)
LEMMA EffectType ==
    ASSUME cloud \in Clouds, NEW j \in Jobs, NEW c \in Effect(j)
    PROVE  /\ c \in Clouds
           /\ j.op = "delete" => c.st = "NOT_FOUND" \/ c.asked
           /\ j.op # "create" /\ c.st # "NOT_FOUND" /\ ~c.asked
                => cloud.st # "NOT_FOUND" /\ ~cloud.asked
<1>1. EmptyParams \in Params /\ j.params \in Params
  BY ConstantsAssumption DEF Jobs
<1>2. CASE j.op = "create" /\ cloud.st \in {"NOT_FOUND", "FAILED"}
  <2>1. PICK s \in {"CREATING", "ACTIVE"} :
          c = [st |-> s, params |-> j.params, asked |-> FALSE]
    BY <1>2 DEF Effect
  <2> QED
    BY <1>1, <1>2, <2>1 DEF Clouds, Statuses
<1>3. CASE j.op = "scale" /\ cloud.st \in {"ACTIVE", "UPDATING"}
  <2>1. PICK s \in {"ACTIVE", "UPDATING"} : c = [cloud EXCEPT !.st = s, !.params = j.params]
    BY <1>3 DEF Effect
  <2> QED
    BY <1>1, <1>3, <2>1 DEF Clouds, Statuses
<1>4. CASE j.op = "delete" /\ cloud.st # "NOT_FOUND"
  <2>1. \/ c = [st |-> "NOT_FOUND", params |-> EmptyParams, asked |-> TRUE]
        \/ c = [cloud EXCEPT !.st = "DELETING", !.asked = TRUE]
    BY <1>4 DEF Effect
  <2>2. CASE c = [st |-> "NOT_FOUND", params |-> EmptyParams, asked |-> TRUE]
    BY <1>1, <2>2 DEF Clouds, Statuses
  <2>3. CASE c = [cloud EXCEPT !.st = "DELETING", !.asked = TRUE]
    <3>1. c \in Clouds /\ c.asked
      BY <2>3 DEF Clouds, Statuses
    <3> QED
      BY <1>4, <3>1
  <2> QED
    BY <2>1, <2>2, <2>3
<1>5. CASE /\ ~(j.op = "create" /\ cloud.st \in {"NOT_FOUND", "FAILED"})
           /\ ~(j.op = "scale" /\ cloud.st \in {"ACTIVE", "UPDATING"})
           /\ ~(j.op = "delete" /\ cloud.st # "NOT_FOUND")
  BY <1>5 DEF Effect, Jobs, Clouds
<1> QED
  BY <1>2, <1>3, <1>4, <1>5

(* A write leaves the old object or the new one.                           *)
LEMMA WriteResult ==
    ASSUME NEW new, Write(new)
    PROVE  /\ cr' \in {cr, new}
           /\ faults \in Nat => faults' \in Nat
           /\ cr' # cr => cr' = new /\ cache = cr /\ cr.exists
  BY ConstantsAssumption DEF Write, Fault, NoFault, CanWrite

(* Returning from ReconcileOne leaves a well-typed pass and step.          *)
LEMMA ReturnType ==
    ASSUME NEW p \in Passes, Return(p)
    PROVE  pass' \in Passes /\ pc' \in {"idle", "finish", "recordDelete", "unfinalize"}
  BY NoPassType DEF Return

-----------------------------------------------------------------------------
(* ClusterLifecycle's variables keep their types.                          *)
THEOREM Typing == Spec => []TypeOK
<1>1. Init => TypeOK
  <2> SUFFICES ASSUME Init PROVE TypeOK
    OBVIOUS
  <2>1. Gone(0) \in Objects
    BY ConstantsAssumption DEF Gone, Objects, Hashes, Phases
  <2>2. cloud \in Clouds
    BY ConstantsAssumption DEF Init, Clouds, Statuses
  <2> QED
    BY <2>1, <2>2, NoPassType DEF Init, TypeOK, Pcs
<1>2. TypeOK /\ [Next]_vars => TypeOK'
  <2> SUFFICES ASSUME TypeOK, [Next]_vars PROVE TypeOK'
    OBVIOUS
  <2> USE ConstantsAssumption
  <2>1. CASE UNCHANGED vars
    BY <2>1 DEF vars, TypeOK
  <2>2. CASE UserCreate
    <3>1. cr.uid + 1 \in 0..MaxUid
      BY <2>2 DEF UserCreate, TypeOK, Objects
    <3>2. PICK p \in FirstParams : cr' = [Gone(cr.uid + 1) EXCEPT !.exists = TRUE, !.params = p]
      BY <2>2 DEF UserCreate
    <3>3. cr' \in Objects
      <4>1. Gone(cr.uid + 1) \in Objects
        BY <3>1, ConstantsAssumption DEF Gone, Objects, Hashes, Phases
      <4> QED
        BY <3>2, <4>1 DEF Objects
    <3> QED
      BY <2>2, <3>3 DEF UserCreate, TypeOK
  <2>3. CASE UserEdit
    <3>1. edits' \in Nat
      BY <2>3 DEF UserEdit, Edit, TypeOK
    <3>2. /\ \A p \in Params : [cr EXCEPT !.params = p] \in Objects
          /\ [cr EXCEPT !.pause = ~@] \in Objects
          /\ [cr EXCEPT !.delete = ~@] \in Objects
      BY DEF TypeOK, Objects
    <3>3. cr' \in Objects
      BY <2>3, <3>2 DEF UserEdit
    <3> QED
      BY <2>3, <3>1, <3>3 DEF UserEdit, TypeOK
  <2>4. CASE UserDelete
    BY <2>4, DeletedType DEF UserDelete, TypeOK
  <2>5. CASE DependencyChanges
    BY <2>5 DEF DependencyChanges, Edit, TypeOK
  <2>6. CASE Expire
    BY <2>6 DEF Expire, Edit, TypeOK
  <2>7. CASE CacheSync
    BY <2>7 DEF CacheSync, TypeOK
  <2>8. CASE CloudSettles
    BY <2>8 DEF CloudSettles, TypeOK, Clouds, Statuses
  <2>9. CASE CloudFails
    BY <2>9 DEF CloudFails, Fault, TypeOK, Clouds, Statuses
  <2>10. CASE OrphanEnds
    <3>1. PICK j \in orphans : orphans' = orphans \ {j} /\ cloud' \in Effect(j) \cup {cloud}
      BY <2>10 DEF OrphanEnds
    <3>2. cloud' \in Clouds
      BY <3>1, EffectType DEF TypeOK
    <3> QED
      BY <2>10, <3>1, <3>2 DEF OrphanEnds, TypeOK
  <2>11. CASE StartPass
    <3>1. pass' \in Passes
      BY <2>11, NoPassType DEF StartPass, TypeOK, Passes, Objects
    <3>2. pc' \in Pcs /\ excuse' \subseteq Excuses
      BY <2>11 DEF StartPass, TypeOK, Pcs, Excuses
    <3> QED
      BY <2>11, <3>1, <3>2 DEF StartPass, TypeOK
  <2>12. CASE AddFinalizer
    <3>1. [cr EXCEPT !.fin = TRUE] \in Objects
      BY DEF TypeOK, Objects
    <3>2. cr' \in Objects /\ faults' \in Nat
      BY <2>12, <3>1, FaultType DEF AddFinalizer, TypeOK
    <3> QED
      BY <2>12, <3>2, NoPassType DEF AddFinalizer, TypeOK, Pcs
  <2>13. CASE Check
    <3>1. /\ [pass EXCEPT !.err = TRUE] \in Passes
          /\ [pass EXCEPT !.skip = TRUE] \in Passes
          /\ [pass EXCEPT !.delete = @ \/ expired] \in Passes
      BY DEF TypeOK, Passes
    <3>2. pass' \in Passes /\ pc' \in Pcs /\ faults' \in Nat
      BY <2>13, <3>1, ReturnType DEF Check, Fault, NoFault, TypeOK, Pcs
    <3> QED
      BY <2>13, <3>2 DEF Check, TypeOK
  <2>14. CASE Status
    <3>1. ASSUME NEW s \in Phases, Dispatch(s)
          PROVE  pass' \in Passes /\ pc' \in Pcs
      <4> DEFINE p == [pass EXCEPT !.phase = IF Deleting THEN "" ELSE s]
      <4>1. p \in Passes
        BY DEF TypeOK, Passes, Phases
      <4>2. /\ [p EXCEPT !.phase = IF Deleting THEN "" ELSE "DELETING"] \in Passes
            /\ [p EXCEPT !.skip = TRUE] \in Passes
            /\ [p EXCEPT !.err = TRUE] \in Passes
        BY <4>1 DEF Passes, Phases, Statuses
      <4> HIDE DEF p
      <4>3. \/ pc' \in Pcs /\ pass' \in Passes
            \/ Return([p EXCEPT !.skip = TRUE])
            \/ Return([p EXCEPT !.err = TRUE])
        BY <3>1, <4>1, <4>2 DEF Dispatch, p, Pcs
      <4> QED
        BY <4>2, <4>3, ReturnType DEF Pcs
    <3>2. [pass EXCEPT !.err = TRUE] \in Passes
      BY DEF TypeOK, Passes
    <3>3. "" \in Phases /\ cloud.st \in Phases
      BY DEF Phases, TypeOK, Clouds
    <3>4. pass' \in Passes /\ pc' \in Pcs
      BY <2>14, <3>1, <3>2, <3>3, ReturnType DEF Status, Pcs
    <3>5. faults' \in Nat
      BY <2>14, FaultType DEF Status, TypeOK
    <3> QED
      BY <2>14, <3>4, <3>5 DEF Status, TypeOK
  <2>15. CASE Create
    <3>1. Job \in Jobs
      BY <2>15 DEF Create, Job, Jobs, TypeOK, Passes, Objects
    <3>2. /\ [pass EXCEPT !.hash = ParamsHash(pass.obj.params)] \in Passes
          /\ [pass EXCEPT !.err = TRUE] \in Passes
      BY ParamsHashType DEF TypeOK, Passes, Objects
    <3>3. pass' \in Passes /\ pc' \in Pcs
      BY <2>15, <3>2, ReturnType DEF Create, Pcs
    <3>4. cloud' \in Clouds
      BY <2>15, <3>1, EffectType DEF Create, TypeOK, Clouds, Statuses
    <3>5. orphans' \subseteq Jobs /\ excuse' \subseteq Excuses /\ faults' \in Nat
      BY <2>15, <3>1 DEF Create, LoseJob, Fault, NoFault, TypeOK, Excuses
    <3> QED
      BY <2>15, <3>3, <3>4, <3>5 DEF Create, TypeOK
  <2>16. CASE CreateSave
    <3>1. [cr EXCEPT !.hash = pass.hash] \in Objects
      BY DEF TypeOK, Objects, Passes
    <3>2. cr' \in Objects /\ faults' \in Nat
      BY <2>16, <3>1, WriteResult DEF CreateSave, Save, TypeOK
    <3>3. pass' \in Passes
      BY <2>16 DEF CreateSave, TypeOK, Passes, Phases, Statuses
    <3> QED
      BY <2>16, <3>2, <3>3 DEF CreateSave, Save, TypeOK, Pcs, Excuses
  <2>17. CASE CreateTail
    <3>1. [cr EXCEPT !.hash = pass.hash] \in Objects /\ pass \in Passes
      BY DEF TypeOK, Objects, Passes
    <3>2. cr' \in Objects /\ faults' \in Nat
      BY <2>17, <3>1, WriteResult DEF CreateTail, NoFault, TypeOK
    <3>3. pass' \in Passes /\ pc' \in Pcs
      BY <2>17, <3>1, ReturnType DEF CreateTail, Pcs
    <3> QED
      BY <2>17, <3>2, <3>3 DEF CreateTail, TypeOK
  <2>18. CASE Scale
    <3>1. Job \in Jobs
      BY <2>18 DEF Scale, Job, Jobs, TypeOK, Passes, Objects
    <3>2. [pass EXCEPT !.hash = ParamsHash(pass.obj.params)] \in Passes
      BY ParamsHashType DEF TypeOK, Passes, Objects
    <3>3. pass' \in Passes /\ pc' \in Pcs
      BY <2>18, <3>2 DEF Scale, TypeOK, Pcs
    <3>4. cloud' \in Clouds
      BY <2>18, <3>1, EffectType DEF Scale, TypeOK
    <3>5. orphans' \subseteq Jobs /\ excuse' \subseteq Excuses /\ faults' \in Nat
      BY <2>18, <3>1 DEF Scale, LoseJob, Fault, NoFault, TypeOK, Excuses
    <3> QED
      BY <2>18, <3>3, <3>4, <3>5 DEF Scale, TypeOK
  <2>19. CASE ScaleSave
    <3>1. [cr EXCEPT !.hash = pass.hash] \in Objects
      BY DEF TypeOK, Objects, Passes
    <3>2. cr' \in Objects /\ faults' \in Nat
      BY <2>19, <3>1, WriteResult DEF ScaleSave, Save, TypeOK
    <3> QED
      BY <2>19, <3>2 DEF ScaleSave, Save, TypeOK, Pcs, Excuses
  <2>20. CASE ActiveTail
    <3>1. /\ [cr EXCEPT !.hash = pass.hash] \in Objects
          /\ pass \in Passes /\ [pass EXCEPT !.err = TRUE] \in Passes
      BY DEF TypeOK, Objects, Passes
    <3>2. cr' \in Objects /\ faults' \in Nat
      BY <2>20, <3>1, WriteResult DEF ActiveTail, Fault, NoFault, TypeOK
    <3>3. pass' \in Passes /\ pc' \in Pcs
      BY <2>20, <3>1, ReturnType DEF ActiveTail, Pcs
    <3> QED
      BY <2>20, <3>2, <3>3 DEF ActiveTail, TypeOK
  <2>21. CASE Delete
    <3>1. Job \in Jobs
      BY <2>21 DEF Delete, Job, Jobs, TypeOK, Passes, Objects
    <3>2. /\ \A o \in BOOLEAN : /\ [pass EXCEPT !.out = o] \in Passes
                                /\ [pass EXCEPT !.out = o, !.err = TRUE] \in Passes
          /\ [pass EXCEPT !.err = TRUE] \in Passes
      BY DEF TypeOK, Passes
    <3>3. pass' \in Passes /\ pc' \in Pcs
      BY <2>21, <3>2, ReturnType DEF Delete, Pcs
    <3>4. cloud' \in Clouds
      BY <2>21, <3>1, EffectType DEF Delete, TypeOK, Clouds, Statuses
    <3>5. orphans' \subseteq Jobs /\ excuse' \subseteq Excuses /\ faults' \in Nat
      BY <2>21, <3>1, FaultType DEF Delete, LoseJob, TypeOK, Excuses
    <3> QED
      BY <2>21, <3>3, <3>4, <3>5 DEF Delete, TypeOK
  <2>22. CASE Remove
    <3>1. pass \in Passes /\ [pass EXCEPT !.err = TRUE] \in Passes
      BY DEF TypeOK, Passes
    <3>2. pass' \in Passes /\ pc' \in Pcs
      BY <2>22, <3>1, ReturnType DEF Remove, Pcs
    <3>3. cr' \in Objects
      <4>1. cr \in Objects /\ Deleted(cr) \in Objects
        BY DeletedType DEF TypeOK
      <4>2. cr' \in {cr, Deleted(cr)}
        BY <2>22 DEF Remove
      <4> QED
        BY <4>1, <4>2
    <3>4. faults' \in Nat
      BY <2>22 DEF Remove, Fault, NoFault, TypeOK
    <3> QED
      BY <2>22, <3>2, <3>3, <3>4 DEF Remove, TypeOK
  <2>23. CASE Finish
    <3> DEFINE phase == IF pass.phase = "" THEN pass.obj.phase ELSE pass.phase
               new == [cr EXCEPT !.phase = phase, !.error = pass.err,
                                 !.ready = ~pass.err /\ phase = "ACTIVE"]
    <3>1. new \in Objects
      <4>1. cr \in Objects /\ pass.obj \in Objects /\ pass.err \in BOOLEAN
        BY DEF TypeOK, Passes
      <4>2. phase \in Phases
        BY <4>1 DEF TypeOK, Passes, Objects
      <4> HIDE DEF phase
      <4> QED
        BY <4>1, <4>2 DEF Objects
    <3>2. Write(new)
      BY <2>23 DEF Finish
    <3> HIDE DEF new
    <3>3. cr' \in Objects /\ faults' \in Nat
      BY <3>1, <3>2, WriteResult DEF TypeOK
    <3> QED
      BY <2>23, <3>3, NoPassType DEF Finish, TypeOK, Pcs
  <2>24. CASE RecordDelete
    <3>1. [cr EXCEPT !.error = @ \/ pass.err] \in Objects
      BY DEF TypeOK, Objects, Passes
    <3>2. cr' \in Objects /\ faults' \in Nat
      BY <2>24, <3>1, WriteResult DEF RecordDelete, TypeOK
    <3>3. pass' \in Passes /\ pc' \in Pcs
      BY <2>24, NoPassType DEF RecordDelete, TypeOK, Pcs
    <3> QED
      BY <2>24, <3>2, <3>3 DEF RecordDelete, TypeOK
  <2>25. CASE Unfinalize
    <3>1. cr' \in Objects /\ faults' \in Nat
      BY <2>25, DeletedType, WriteResult DEF Unfinalize, TypeOK
    <3> QED
      BY <2>25, <3>1, NoPassType DEF Unfinalize, TypeOK, Pcs, Excuses
  <2>26. CASE Crash
    <3>1. pc \in {"create", "scale", "delete"} => Job \in Jobs
      BY DEF Job, Jobs, TypeOK, Passes, Objects
    <3>2. orphans' \subseteq Jobs /\ excuse' \subseteq Excuses /\ faults' \in Nat
      BY <2>26, <3>1, FaultType DEF Crash, TypeOK, Excuses
    <3> QED
      BY <2>26, <3>2, NoPassType DEF Crash, TypeOK, Pcs
  <2> QED
    BY <2>1, <2>2, <2>3, <2>4, <2>5, <2>6, <2>7, <2>8, <2>9, <2>10, <2>11, <2>12, <2>13,
       <2>14, <2>15, <2>16, <2>17, <2>18, <2>19, <2>20, <2>21, <2>22, <2>23, <2>24, <2>25,
       <2>26 DEF Next, Environment, Worker
<1> QED
  BY <1>1, <1>2, PTL DEF Spec

-----------------------------------------------------------------------------
(* What a step must leave of the object for the invariant's sake.          *)
ObjectKept ==
    /\ cr'.uid = cr.uid /\ (cr'.fin <=> cr.fin) /\ (cr'.exists => cr.exists)
    /\ cr'.fin \/ cr'.dt \/ cr'.ready => cr'.exists
    /\ cr'.exists /\ cr.dt => cr'.dt
    /\ cr'.ready => cr'.fin
    /\ cr'.ready /\ cr'.error => cr'.dt

(* An object that does not change is kept.                                 *)
LEMMA UnchangedKept == FinalizerInv /\ cr' = cr => ObjectKept
  BY DEF FinalizerInv, MarksNeedObject, ReadyAndErrorOnlyWhileDeleting, ObjectKept

(* The fields of NoPass that the invariant reads.                          *)
LEMMA NoPassReads == NoPass.obj.uid = 0 /\ ~NoPass.obj.dt
<1>1. NoPass.obj = Gone(0)
  BY DEF NoPass
<1>2. Gone(0).uid = 0 /\ ~Gone(0).dt
  BY DEF Gone
<1> QED
  BY <1>1, <1>2

(* A step that keeps the object and ends the pass keeps FinalizerInv.      *)
LEMMA IdleKeepsInv ==
    ASSUME TypeOK, FinalizerInv, ObjectKept, cache' = cache, pc' = "idle",
    pass' = NoPass,
           Exposed' => Exposed,
           orphans' # {} => "jobLost" \in excuse'
    PROVE  FinalizerInv'
<1>1. (Exposed => cr.fin) /\ ReadersLag /\ MarksNeedObject
  BY DEF FinalizerInv
<1>2. pass'.obj.uid = 0 /\ cache.uid \in Nat
  BY ConstantsAssumption, NoPassReads DEF TypeOK, Objects
<1>3. ReadersLag' /\ MarksNeedObject'
  BY <1>2, <1>1 DEF ReadersLag, MarksNeedObject, ObjectKept
<1>4. PassKnows'
  BY NoPassReads DEF PassKnows, Deleting
<1> QED
  BY <1>1, <1>3, <1>4 DEF FinalizerInv, ObjectKept, ReadyAndErrorOnlyWhileDeleting

(* A step that keeps the object, and ends the pass with a return from      *)
(* ReconcileOne, keeps FinalizerInv if a deletion that neither skipped nor *)
(* failed leaves nothing exposed.                                          *)
LEMMA ReturnKeepsInv ==
    ASSUME TypeOK, FinalizerInv, pc \notin {"idle", "addFinalizer"}, ObjectKept,
    cache' = cache,
           NEW p \in Passes, p.obj = pass.obj, p.delete = pass.delete, Return(p),
           Exposed' => Exposed,
           orphans' # {} => "jobLost" \in excuse',
           p.out => ~p.skip,
           Deleting /\ ~p.skip /\ ~p.err => ~Exposed'
    PROVE  FinalizerInv'
<1>1. \/ pc' = "finish" /\ pass' = p /\ ~Deleting
      \/ pc' = "recordDelete" /\ pass' = p /\ Deleting /\ p.out
      \/ pc' = "unfinalize" /\ pass' = p /\ Deleting /\ ~p.err
      \/ pc' = "idle" /\ pass' = NoPass
  BY DEF Return, Passes
<1>2. (Exposed => cr.fin) /\ ReadersLag /\ MarksNeedObject /\ PassKnows
  BY DEF FinalizerInv
<1>3. cache.uid \in Nat /\ pass'.obj.uid <= cache.uid
  BY <1>1, <1>2, ConstantsAssumption, NoPassReads DEF ReadersLag, TypeOK, Objects
<1>4. ReadersLag' /\ MarksNeedObject'
  BY <1>2, <1>3 DEF ReadersLag, MarksNeedObject, ObjectKept
<1>5. PassKnows'
  <2>1. CASE pc' = "finish" /\ pass' = p /\ ~Deleting
    BY <1>2, <2>1 DEF PassKnows, Deleting, ObjectKept
  <2>2. CASE pc' = "recordDelete" /\ pass' = p /\ Deleting /\ p.out
    BY <1>2, <2>2 DEF PassKnows, Deleting, ObjectKept, MarksNeedObject
  <2>3. CASE pc' = "unfinalize" /\ pass' = p /\ Deleting /\ ~p.err
    BY <1>2, <2>3 DEF PassKnows, Deleting, ObjectKept, MarksNeedObject
  <2>4. CASE pc' = "idle" /\ pass' = NoPass
    BY <2>4, NoPassReads DEF PassKnows, Deleting
  <2> QED
    BY <1>1, <2>1, <2>2, <2>3, <2>4
<1> QED
  BY <1>2, <1>4, <1>5 DEF FinalizerInv, ObjectKept, ReadyAndErrorOnlyWhileDeleting

-----------------------------------------------------------------------------
(* FinalizerInv is inductive: while a cluster is exposed, its definition   *)
(* is in etcd and carries the finalizer.                                   *)
THEOREM FinalizerInvariant == Spec => []FinalizerInv
<1>1. Init => FinalizerInv
  <2> SUFFICES ASSUME Init PROVE FinalizerInv
    OBVIOUS
  <2>1. ~pass.obj.dt /\ pass.obj.uid = 0 /\ cr = Gone(0) /\ cache = Gone(0) /\ pc = "idle"
    BY DEF Init, NoPass, Gone
  <2>2. cloud.st = "NOT_FOUND" /\ orphans = {} /\ ~pass.skip /\ ~pass.out /\ ~pass.err
    BY DEF Init, NoPass
  <2>3. /\ cr.uid = 0 /\ ~cr.exists /\ ~cr.fin /\ ~cr.dt /\ ~cr.ready /\ ~cr.error
        /\ cache.uid = 0 /\ ~cache.exists /\ ~cache.fin /\ ~cache.dt
    BY <2>1 DEF Gone
  <2> QED
    BY <2>1, <2>2, <2>3 DEF Exposed, FinalizerInv, ReadersLag, MarksNeedObject,
       PassKnows, ReadyAndErrorOnlyWhileDeleting, Deleting
<1>2. TypeOK /\ FinalizerInv /\ [Next]_vars => FinalizerInv'
  <2> SUFFICES ASSUME TypeOK, FinalizerInv, [Next]_vars PROVE FinalizerInv'
    OBVIOUS
  <2>1. CASE UNCHANGED vars
    BY <2>1 DEF vars, Exposed, Excused,
       FinalizerInv, ReadersLag, MarksNeedObject, PassKnows,
       ReadyAndErrorOnlyWhileDeleting, Deleting
  <2>2. CASE UserCreate
    BY <2>2 DEF UserCreate, TypeOK, Objects, Clouds, Gone, Exposed, Excused,
       FinalizerInv, ReadersLag, MarksNeedObject, PassKnows,
       ReadyAndErrorOnlyWhileDeleting, Deleting
  <2>3. CASE UserEdit
    BY <2>3 DEF UserEdit, TypeOK, Objects, Clouds, Exposed, Excused,
       FinalizerInv, ReadersLag, MarksNeedObject, PassKnows,
       ReadyAndErrorOnlyWhileDeleting, Deleting
  <2>4. CASE UserDelete
    <3>1. /\ UNCHANGED <<cache, cloud, orphans, pc, pass, excuse>> /\ cr.exists
          /\ cr' = Deleted(cr)
      BY <2>4 DEF UserDelete
    <3>2. Exposed' <=> Exposed
      BY <3>1 DEF Exposed, Excused
    <3>3. CASE cr.fin
      <4>1. cr' = [cr EXCEPT !.dt = TRUE]
        BY <3>1, <3>3 DEF Deleted
      <4>2. /\ cr'.exists /\ cr'.dt /\ cr'.fin /\ cr'.uid = cr.uid
            /\ cr'.ready = cr.ready
        BY <3>1, <3>3, <4>1 DEF TypeOK, Objects
      <4>3. ReadersLag'
        BY <3>1, <3>3, <4>2 DEF FinalizerInv, ReadersLag
      <4>4. MarksNeedObject'
        BY <3>1, <3>3, <4>2 DEF FinalizerInv, MarksNeedObject
      <4>5. PassKnows'
        BY <3>1, <3>2, <3>3, <4>2 DEF FinalizerInv, PassKnows, Deleting
      <4> QED
        BY <3>1, <3>2, <3>3, <4>2, <4>3, <4>4, <4>5
        DEF FinalizerInv, ReadyAndErrorOnlyWhileDeleting
    <3>4. CASE ~cr.fin
      <4>1. cr' = Gone(cr.uid)
        BY <3>1, <3>4 DEF Deleted
      <4>2. /\ ~cr'.exists /\ ~cr'.dt /\ ~cr'.fin /\ cr'.uid = cr.uid /\ ~cr'.ready
        BY <4>1 DEF Gone
      <4>3. ReadersLag'
        BY <3>1, <3>4, <4>2 DEF FinalizerInv, ReadersLag
      <4>4. MarksNeedObject'
        BY <3>1, <3>4, <4>2 DEF FinalizerInv, MarksNeedObject
      <4>5. PassKnows' /\ ~Exposed'
        BY <3>1, <3>2, <3>4, <4>2 DEF FinalizerInv, PassKnows, Deleting
      <4> QED
        BY <3>1, <4>2, <4>3, <4>4, <4>5
        DEF FinalizerInv, ReadyAndErrorOnlyWhileDeleting
    <3> QED
      BY <3>3, <3>4
  <2>5. CASE DependencyChanges
    BY <2>5 DEF DependencyChanges, Exposed, Excused,
       FinalizerInv, ReadersLag, MarksNeedObject, PassKnows,
       ReadyAndErrorOnlyWhileDeleting, Deleting
  <2>6. CASE Expire
    BY <2>6 DEF Expire, Exposed, Excused,
       FinalizerInv, ReadersLag, MarksNeedObject, PassKnows,
       ReadyAndErrorOnlyWhileDeleting, Deleting
  <2>7. CASE CacheSync
    <3>1. /\ cache' = cr /\ (Exposed' <=> Exposed)
          /\ UNCHANGED <<cr, cloud, orphans, pc, pass, excuse>>
      BY <2>7 DEF CacheSync, Exposed, Excused
    <3>2. ReadersLag' /\ MarksNeedObject'
      BY <3>1 DEF FinalizerInv, ReadersLag, MarksNeedObject, TypeOK, Objects, Passes
    <3>3. PassKnows'
      BY <3>1 DEF FinalizerInv, PassKnows, Deleting
    <3> QED
      BY <3>1, <3>2, <3>3 DEF FinalizerInv, ReadyAndErrorOnlyWhileDeleting
  <2>8. CASE CloudSettles
    <3>1. Exposed' => Exposed
      BY <2>8 DEF CloudSettles, TypeOK, Clouds, InProgress, Exposed, Excused
    <3>2. cloud.st \notin {"NOT_FOUND", "FAILED"}
      BY <2>8 DEF CloudSettles, InProgress
    <3> QED
      BY <2>8, <3>1, <3>2 DEF CloudSettles, FinalizerInv, ReadersLag, MarksNeedObject,
         PassKnows, ReadyAndErrorOnlyWhileDeleting, Deleting
  <2>9. CASE CloudFails
    <3>1. Exposed' => Exposed
      BY <2>9 DEF CloudFails, TypeOK, Clouds, InProgress, Exposed, Excused
    <3>2. cloud.st \notin {"NOT_FOUND", "FAILED"}
      BY <2>9 DEF CloudFails, InProgress
    <3> QED
      BY <2>9, <3>1, <3>2 DEF CloudFails, FinalizerInv, ReadersLag, MarksNeedObject,
         PassKnows, ReadyAndErrorOnlyWhileDeleting, Deleting
  <2>10. CASE OrphanEnds
    BY <2>10 DEF OrphanEnds, TypeOK, Objects, Exposed, Excused,
       FinalizerInv, ReadersLag, MarksNeedObject, PassKnows,
       ReadyAndErrorOnlyWhileDeleting, Deleting
  <2>11. CASE StartPass
    BY <2>11 DEF StartPass, TypeOK, Objects, Passes, NoPass, Gone, Exposed, Excused,
       FinalizerInv, ReadersLag, MarksNeedObject, PassKnows,
       ReadyAndErrorOnlyWhileDeleting, Deleting
  <2>12. CASE AddFinalizer
    <3>1. Exposed' => Exposed
      BY <2>12 DEF AddFinalizer, Exposed, Excused
    <3>2. /\ pc = "addFinalizer" /\ pc' = "idle"
          /\ pass'.obj.uid = 0 /\ ~pass'.obj.dt
          /\ UNCHANGED <<cache, cloud, orphans, excuse>>
      BY <2>12 DEF AddFinalizer, NoPass, Gone
    <3>3. CASE cr' = cr
      BY <3>1, <3>2, <3>3 DEF TypeOK, Objects, FinalizerInv, ReadersLag,
         MarksNeedObject, PassKnows, ReadyAndErrorOnlyWhileDeleting, Deleting
    <3>4. CASE pass.obj = cr /\ cr' = [cr EXCEPT !.fin = TRUE]
      <4>1. /\ cr'.uid = cr.uid /\ cr'.dt = cr.dt /\ cr'.exists = cr.exists
            /\ cr'.ready = cr.ready /\ cr'.error = cr.error /\ cr'.fin
        BY <3>4 DEF TypeOK, Objects
      <4>2. cr.exists /\ ~cr.dt
        BY <3>2, <3>4 DEF FinalizerInv, PassKnows, Deleting
      <4>3. cache.uid = cr.uid
        BY <3>4 DEF TypeOK, Objects, FinalizerInv, ReadersLag
      <4> QED
        BY <3>1, <3>2, <4>1, <4>2, <4>3 DEF TypeOK, Objects, FinalizerInv, ReadersLag,
           MarksNeedObject, PassKnows, ReadyAndErrorOnlyWhileDeleting, Deleting
    <3> QED
      BY <2>12, <3>3, <3>4 DEF AddFinalizer
  <2>13. CASE Check
    <3>1. (Exposed' <=> Exposed) /\ UNCHANGED <<cr, cache, cloud, orphans, excuse>>
      BY <2>13 DEF Check, Exposed, Excused
    <3>2. /\ pc = "check"
          /\ \/ Return([pass EXCEPT !.err = TRUE])
             \/ Return([pass EXCEPT !.skip = TRUE])
             \/ pc' = "status" /\ pass' = [pass EXCEPT !.delete = @ \/ expired]
      BY <2>13 DEF Check
    <3>3. ~pass.out
      BY <3>2 DEF FinalizerInv, PassKnows
    <3>4. CASE Return([pass EXCEPT !.err = TRUE])
      <4>1. /\ [pass EXCEPT !.err = TRUE] \in Passes
            /\ [pass EXCEPT !.err = TRUE].obj = pass.obj /\ [pass EXCEPT !.err = TRUE].err
            /\ [pass EXCEPT !.err = TRUE].delete = pass.delete
            /\ [pass EXCEPT !.err = TRUE].out = pass.out
        BY DEF TypeOK, Passes
      <4> QED
        BY <3>1, <3>2, <3>4, <3>3, <4>1, UnchangedKept, ReturnKeepsInv DEF FinalizerInv
    <3>5. CASE Return([pass EXCEPT !.skip = TRUE])
      <4>1. /\ [pass EXCEPT !.skip = TRUE] \in Passes
            /\ [pass EXCEPT !.skip = TRUE].obj = pass.obj /\ [pass EXCEPT !.skip = TRUE].skip
            /\ [pass EXCEPT !.skip = TRUE].delete = pass.delete
            /\ [pass EXCEPT !.skip = TRUE].out = pass.out
        BY DEF TypeOK, Passes
      <4> QED
        BY <3>1, <3>2, <3>5, <3>3, <4>1, UnchangedKept, ReturnKeepsInv DEF FinalizerInv
    <3>6. CASE pc' = "status" /\ pass' = [pass EXCEPT !.delete = @ \/ expired]
      BY <3>1, <3>2, <3>6 DEF TypeOK, Passes, Objects, FinalizerInv, ReadersLag,
         MarksNeedObject, PassKnows, ReadyAndErrorOnlyWhileDeleting, Deleting
    <3> QED
      BY <3>2, <3>4, <3>5, <3>6
  <2>14. CASE Status
    <3>1. /\ (Exposed' <=> Exposed) /\ UNCHANGED <<cr, cache, cloud, orphans, excuse>>
          /\ pc = "status"
      BY <2>14 DEF Status, Exposed, Excused
    <3>2. ~pass.out
      BY <3>1 DEF FinalizerInv, PassKnows
    <3>3. CASE Return([pass EXCEPT !.err = TRUE])
      <4>1. /\ [pass EXCEPT !.err = TRUE] \in Passes
            /\ [pass EXCEPT !.err = TRUE].obj = pass.obj /\ [pass EXCEPT !.err = TRUE].err
            /\ [pass EXCEPT !.err = TRUE].delete = pass.delete
            /\ [pass EXCEPT !.err = TRUE].out = pass.out
        BY DEF TypeOK, Passes
      <4> QED
        BY <3>1, <3>3, <3>2, <4>1, UnchangedKept, ReturnKeepsInv DEF FinalizerInv
    <3>4. ASSUME NEW s \in Phases, Dispatch(s), s \in {"NOT_FOUND", "FAILED"} => cloud.st = s
          PROVE  FinalizerInv'
      <4> DEFINE p == [pass EXCEPT !.phase = IF Deleting THEN "" ELSE s]
                 q == [p EXCEPT !.phase = IF Deleting THEN "" ELSE "DELETING"]
      <4>1. /\ p.obj = pass.obj /\ p.delete = pass.delete /\ p.err = pass.err
            /\ p.skip = pass.skip /\ p.out = pass.out
            /\ q.obj = pass.obj /\ q.delete = pass.delete /\ q.skip = pass.skip
        BY DEF TypeOK, Passes
      <4>2. p \in Passes
        BY DEF TypeOK, Passes, Phases
      <4> HIDE DEF p, q
      <4>3. /\ [p EXCEPT !.skip = TRUE] \in Passes /\ [p EXCEPT !.err = TRUE] \in Passes
            /\ ~[p EXCEPT !.skip = TRUE].out /\ ~[p EXCEPT !.err = TRUE].out
            /\ [p EXCEPT !.skip = TRUE].obj = pass.obj /\ [p EXCEPT !.err = TRUE].obj = pass.obj
            /\ [p EXCEPT !.skip = TRUE].delete = pass.delete
            /\ [p EXCEPT !.err = TRUE].delete = pass.delete
            /\ [p EXCEPT !.skip = TRUE].skip /\ [p EXCEPT !.err = TRUE].err
        BY <3>2, <4>2, <4>1 DEF Passes
      <4>4. \/ pass.delete /\ pc' = "delete" /\ pass' = q
            \/ pass.delete /\ s = "NOT_FOUND" /\ pc' = "remove" /\ pass' = p
            \/ ~pass.delete /\ s \in {"NOT_FOUND", "FAILED"} /\ pc' = "create" /\ pass' = p
            \/ ~pass.delete /\ pc' \in {"scale", "activeTail"} /\ pass' = p
            \/ Return([p EXCEPT !.skip = TRUE])
            \/ Return([p EXCEPT !.err = TRUE])
        BY <3>4 DEF Dispatch, p, q
      <4>5. CASE pass.delete /\ pc' = "delete" /\ pass' = q
        BY <3>1, <4>1, <4>5 DEF FinalizerInv, ReadersLag, MarksNeedObject, PassKnows,
           ReadyAndErrorOnlyWhileDeleting, Deleting
      <4>6. CASE pass.delete /\ s = "NOT_FOUND" /\ pc' = "remove" /\ pass' = p
        BY <3>1, <3>4, <4>1, <4>6 DEF Exposed, FinalizerInv, ReadersLag,
           MarksNeedObject, PassKnows, ReadyAndErrorOnlyWhileDeleting, Deleting
      <4>7. CASE /\ ~pass.delete /\ s \in {"NOT_FOUND", "FAILED"}
                 /\ pc' = "create" /\ pass' = p
        BY <3>1, <3>4, <4>1, <4>7 DEF FinalizerInv, ReadersLag, MarksNeedObject,
           PassKnows, ReadyAndErrorOnlyWhileDeleting, Deleting
      <4>8. CASE ~pass.delete /\ pc' \in {"scale", "activeTail"} /\ pass' = p
        BY <3>1, <4>1, <4>8 DEF FinalizerInv, ReadersLag, MarksNeedObject, PassKnows,
           ReadyAndErrorOnlyWhileDeleting, Deleting
      <4>9. CASE Return([p EXCEPT !.skip = TRUE])
        BY <3>1, <4>3, <4>9, UnchangedKept, ReturnKeepsInv DEF FinalizerInv
      <4>10. CASE Return([p EXCEPT !.err = TRUE])
        BY <3>1, <4>3, <4>10, UnchangedKept, ReturnKeepsInv DEF FinalizerInv
      <4> QED
        BY <4>4, <4>5, <4>6, <4>7, <4>8, <4>9, <4>10
    <3>5. "" \in Phases /\ cloud.st \in Phases
      BY DEF Phases, TypeOK, Clouds
    <3> QED
      BY <2>14, <3>3, <3>4, <3>5 DEF Status
  <2>15. CASE Create
    BY <2>15 DEF Create, TypeOK, Objects, Passes, Clouds, Jobs, Exposed, Excused,
       FinalizerInv, ReadersLag, MarksNeedObject, PassKnows,
       ReadyAndErrorOnlyWhileDeleting, Deleting,
       NoPass, Gone, Write, Return, CanWrite, Job, LoseJob, Save
  <2>16. CASE CreateSave
    BY <2>16 DEF CreateSave, TypeOK, Objects, Passes, Clouds, Jobs, Exposed, Excused,
       FinalizerInv, ReadersLag, MarksNeedObject, PassKnows,
       ReadyAndErrorOnlyWhileDeleting, Deleting,
       NoPass, Gone, Write, Return, CanWrite, Job, LoseJob, Save
  <2>17. CASE CreateTail
    BY <2>17 DEF CreateTail, TypeOK, Objects, Passes, Clouds, Jobs, Exposed, Excused,
       FinalizerInv, ReadersLag, MarksNeedObject, PassKnows,
       ReadyAndErrorOnlyWhileDeleting, Deleting,
       NoPass, Gone, Write, Return, CanWrite, Job, LoseJob, Save
  <2>18. CASE Scale
    BY <2>18 DEF Scale, TypeOK, Objects, Passes, Clouds, Jobs, Exposed, Excused,
       FinalizerInv, ReadersLag, MarksNeedObject, PassKnows,
       ReadyAndErrorOnlyWhileDeleting, Deleting,
       NoPass, Gone, Write, Return, CanWrite, Job, LoseJob, Save
  <2>19. CASE ScaleSave
    BY <2>19 DEF ScaleSave, TypeOK, Objects, Passes, Clouds, Jobs, Exposed, Excused,
       FinalizerInv, ReadersLag, MarksNeedObject, PassKnows,
       ReadyAndErrorOnlyWhileDeleting, Deleting,
       NoPass, Gone, Write, Return, CanWrite, Job, LoseJob, Save
  <2>20. CASE ActiveTail
    <3>1. pc = "activeTail" /\ UNCHANGED <<cache, cloud, orphans, depsMet, expired, edits, excuse>>
      BY <2>20 DEF ActiveTail
    <3>2. CASE Write([cr EXCEPT !.hash = pass.hash]) /\ Return(pass)
      BY <3>1, <3>2 DEF TypeOK, Objects, Passes, Clouds, Jobs, Exposed, Excused,
         FinalizerInv, ReadersLag, MarksNeedObject, PassKnows,
         ReadyAndErrorOnlyWhileDeleting, Deleting,
         NoPass, Gone, Write, Return, CanWrite, Job, LoseJob, Save
    <3>3. CASE cr' = cr /\ (Return(pass) \/ Return([pass EXCEPT !.err = TRUE]))
      BY <3>1, <3>3 DEF TypeOK, Objects, Passes, Clouds, Jobs, Exposed, Excused,
         FinalizerInv, ReadersLag, MarksNeedObject, PassKnows,
         ReadyAndErrorOnlyWhileDeleting, Deleting,
         NoPass, Gone, Write, Return, CanWrite, Job, LoseJob, Save
    <3> QED
      BY <2>20, <3>2, <3>3 DEF ActiveTail
  <2>21. CASE Delete
    <3>1. pc = "delete" /\ UNCHANGED <<cr, cache>>
      BY <2>21 DEF Delete
    <3>2. Job \in Jobs /\ Job.op = "delete"
      BY <3>1 DEF Job, Jobs, TypeOK, Passes, Objects
    <3>3. ~pass.skip
      BY <3>1 DEF FinalizerInv, PassKnows
    <3>4. CASE /\ cloud' \in Effect(Job) /\ pc' = "remove" /\ UNCHANGED <<orphans, excuse>>
               /\ \E o \in BOOLEAN : pass' = [pass EXCEPT !.out = o]
      <4>1. ~Exposed'
        BY <3>2, <3>4, EffectType DEF TypeOK, Exposed
      <4>2. pass'.obj = pass.obj /\ pass'.delete = pass.delete
        BY <3>4 DEF TypeOK, Passes
      <4> QED
        BY <3>1, <3>4, <4>1, <4>2 DEF FinalizerInv, ReadersLag, MarksNeedObject,
           PassKnows, ReadyAndErrorOnlyWhileDeleting, Deleting
    <3>5. CASE /\ cloud' \in {cloud, [cloud EXCEPT !.st = IF @ = "NOT_FOUND" THEN @ ELSE "FAILED"]}
               /\ \E o \in BOOLEAN : Return([pass EXCEPT !.out = o, !.err = TRUE])
               /\ UNCHANGED <<orphans, excuse>>
      <4>1. Exposed' => Exposed
        BY <3>5 DEF TypeOK, Clouds, Exposed, Excused
      <4>2. PICK o \in BOOLEAN : Return([pass EXCEPT !.out = o, !.err = TRUE])
        BY <3>5
      <4> DEFINE p == [pass EXCEPT !.out = o, !.err = TRUE]
      <4>3. p \in Passes /\ p.obj = pass.obj /\ p.delete = pass.delete /\ p.err /\ p.skip = pass.skip
        BY DEF TypeOK, Passes
      <4> HIDE DEF p
      <4> QED
        BY <3>1, <3>5, <3>3, <4>1, <4>2, <4>3, UnchangedKept, ReturnKeepsInv
           DEF p, FinalizerInv
    <3>6. CASE LoseJob /\ Return([pass EXCEPT !.err = TRUE]) /\ UNCHANGED cloud
      <4>1. ~Exposed' /\ "jobLost" \in excuse'
        BY <3>6 DEF LoseJob, Exposed, Excused
      <4> DEFINE p == [pass EXCEPT !.err = TRUE]
      <4>2. p \in Passes /\ p.obj = pass.obj /\ p.delete = pass.delete /\ p.err /\ p.skip = pass.skip
        BY DEF TypeOK, Passes
      <4> HIDE DEF p
      <4> QED
        BY <3>1, <3>6, <3>3, <4>1, <4>2, UnchangedKept, ReturnKeepsInv
           DEF p, FinalizerInv
    <3> QED
      BY <2>21, <3>4, <3>5, <3>6 DEF Delete
  <2>22. CASE Remove
    <3>1. /\ pc = "remove" /\ UNCHANGED <<cache, cloud, orphans, excuse>>
          /\ (Exposed' <=> Exposed) /\ ~Exposed
      BY <2>22 DEF Remove, Exposed, Excused, FinalizerInv, PassKnows
    <3>2. ~pass.skip
      BY <3>1 DEF FinalizerInv, PassKnows
    <3>3. CASE cr' = cr /\ Return([pass EXCEPT !.err = TRUE])
      <4>1. /\ [pass EXCEPT !.err = TRUE] \in Passes
            /\ [pass EXCEPT !.err = TRUE].obj = pass.obj /\ [pass EXCEPT !.err = TRUE].err
            /\ [pass EXCEPT !.err = TRUE].delete = pass.delete
            /\ [pass EXCEPT !.err = TRUE].skip = pass.skip
        BY DEF TypeOK, Passes
      <4> QED
        BY <3>1, <3>3, <3>2, <4>1, UnchangedKept, ReturnKeepsInv DEF FinalizerInv
    <3>4. CASE cr' = (IF cr.exists THEN Deleted(cr) ELSE cr) /\ Return(pass)
      <4>1. ObjectKept
        <5>1. CASE cr.exists /\ cr.fin
          <6>1. cr' = [cr EXCEPT !.dt = TRUE]
            BY <3>4, <5>1 DEF Deleted
          <6>2. /\ cr'.uid = cr.uid /\ cr'.fin = cr.fin /\ cr'.exists = cr.exists
                /\ cr'.dt /\ cr'.ready = cr.ready /\ cr'.error = cr.error
            BY <6>1 DEF TypeOK, Objects
          <6> QED
            BY <5>1, <6>2 DEF ObjectKept
        <5>2. CASE cr.exists /\ ~cr.fin
          <6>1. cr' = Gone(cr.uid)
            BY <3>4, <5>2 DEF Deleted
          <6> QED
            BY <5>2, <6>1 DEF Gone, ObjectKept
        <5>3. CASE ~cr.exists
          BY <3>4, <5>3, UnchangedKept
        <5> QED
          BY <5>1, <5>2, <5>3
      <4> QED
        BY <3>1, <3>4, <3>2, <4>1, ReturnKeepsInv DEF TypeOK, FinalizerInv
    <3> QED
      BY <2>22, <3>3, <3>4 DEF Remove
  <2>23. CASE Finish
    <3> DEFINE phase == IF pass.phase = "" THEN pass.obj.phase ELSE pass.phase
               new == [cr EXCEPT !.phase = phase, !.error = pass.err,
                                 !.ready = ~pass.err /\ phase = "ACTIVE"]
    <3>1. /\ pc = "finish" /\ pc' = "idle" /\ pass' = NoPass
          /\ (Exposed' <=> Exposed) /\ UNCHANGED <<cache, orphans, excuse>>
      BY <2>23 DEF Finish, Exposed, Excused
    <3>2. /\ new.uid = cr.uid /\ new.dt = cr.dt /\ new.exists = cr.exists /\ new.fin = cr.fin
          /\ ~(new.ready /\ new.error)
      BY DEF TypeOK, Objects
    <3>3. cr' \in {cr, new}
      BY <2>23, WriteResult DEF Finish
    <3>4. cr.fin /\ cr.exists
      BY <3>1 DEF FinalizerInv, PassKnows, MarksNeedObject
    <3> HIDE DEF new
    <3>5. ObjectKept
      BY <3>2, <3>3, <3>4, UnchangedKept DEF ObjectKept, TypeOK, Objects
    <3> QED
      BY <3>1, <3>5, IdleKeepsInv DEF FinalizerInv
  <2>24. CASE RecordDelete
    <3> DEFINE new == [cr EXCEPT !.error = @ \/ pass.err]
    <3>1. /\ pc = "recordDelete" /\ (Exposed' <=> Exposed) /\ UNCHANGED <<cache, orphans, excuse>>
          /\ \/ pass.err /\ pc' = "idle" /\ pass' = NoPass
             \/ ~pass.err /\ pc' = "unfinalize" /\ pass' = pass
      BY <2>24 DEF RecordDelete, Exposed, Excused
    <3>2. /\ new.uid = cr.uid /\ new.dt = cr.dt /\ new.exists = cr.exists /\ new.fin = cr.fin
          /\ new.ready = cr.ready
      BY DEF TypeOK, Objects
    <3>3. cr' \in {cr, new}
      BY <2>24, WriteResult DEF RecordDelete
    <3>4. cr.fin => cr.dt /\ cr.exists
      BY <3>1 DEF FinalizerInv, PassKnows, MarksNeedObject, Deleting
    <3> HIDE DEF new
    <3>5. ObjectKept
      BY <3>2, <3>3, <3>4, UnchangedKept DEF ObjectKept, FinalizerInv, MarksNeedObject
    <3>6. CASE pass.err /\ pc' = "idle" /\ pass' = NoPass
      BY <3>1, <3>5, <3>6, IdleKeepsInv DEF FinalizerInv
    <3>7. CASE ~pass.err /\ pc' = "unfinalize" /\ pass' = pass
      <4>1. ReadersLag' /\ MarksNeedObject'
        BY <3>1, <3>5, <3>7
           DEF FinalizerInv, ReadersLag, MarksNeedObject, ObjectKept, TypeOK, Objects
      <4>2. PassKnows'
        BY <3>1, <3>5, <3>7
           DEF FinalizerInv, PassKnows, Deleting, MarksNeedObject, ObjectKept
      <4> QED
        BY <3>1, <3>5, <4>1, <4>2
           DEF FinalizerInv, ObjectKept, ReadyAndErrorOnlyWhileDeleting
    <3> QED
      BY <3>1, <3>6, <3>7
  <2>25. CASE Unfinalize
    <3>1. /\ pc = "unfinalize" /\ pc' = "idle" /\ pass' = NoPass
          /\ UNCHANGED <<cache, cloud, orphans>> /\ excuse \subseteq excuse'
      BY <2>25 DEF Unfinalize
    <3>2. Exposed' => Exposed
      BY <3>1 DEF Exposed, Excused
    <3>3. CASE cr' = cr
      BY <3>1, <3>2, <3>3, UnchangedKept, IdleKeepsInv DEF FinalizerInv
    <3>4. CASE cr' # cr
      <4>1. cache = cr /\ cr.exists /\ cr' = Unfinalized(cr)
        BY <2>25, <3>4, WriteResult DEF Unfinalize
      <4>2. ~Exposed'
        BY <2>25, <3>2, <3>4 DEF Unfinalize, Exposed, Excused, FinalizerInv, PassKnows
      <4>3. cr.dt /\ cr' = Gone(cr.uid)
        BY <3>1, <3>4, <4>1 DEF Unfinalized, TypeOK, Objects, FinalizerInv, PassKnows
      <4>4. /\ ~cr'.exists /\ ~cr'.fin /\ ~cr'.dt /\ ~cr'.ready
            /\ cr'.uid = cr.uid
        BY <4>3 DEF Gone
      <4>5. /\ pass'.obj.uid = 0 /\ cache.uid = cr.uid /\ cr.uid \in Nat
            /\ cache.dt /\ cache.exists /\ cache' = cache
        BY <3>1, <4>1, <4>3, ConstantsAssumption, NoPassReads DEF TypeOK, Objects
      <4>6. ReadersLag' /\ MarksNeedObject'
        BY <4>4, <4>5 DEF ReadersLag, MarksNeedObject
      <4>7. PassKnows'
        BY <3>1, NoPassReads DEF PassKnows, Deleting
      <4> QED
        BY <3>1, <4>2, <4>6, <4>7, <4>4 DEF FinalizerInv, ReadyAndErrorOnlyWhileDeleting
    <3> QED
      BY <3>3, <3>4
  <2>26. CASE Crash
    <3>1. /\ cr' = cr /\ cache' = cr /\ pc' = "idle" /\ ~pass'.obj.dt /\ pass'.obj.uid = 0
          /\ excuse \subseteq excuse'
          /\ UNCHANGED cloud
      BY <2>26 DEF Crash, NoPass, Gone
    <3>2. Exposed' => Exposed
      BY <3>1 DEF Exposed, Excused
    <3>3. orphans' # {} => "jobLost" \in excuse'
      BY <2>26 DEF Crash, FinalizerInv
    <3> QED
      BY <3>1, <3>2, <3>3 DEF TypeOK, Objects, FinalizerInv, ReadersLag,
         MarksNeedObject, PassKnows, ReadyAndErrorOnlyWhileDeleting, Deleting
  <2> QED
    BY <2>1, <2>2, <2>3, <2>4, <2>5, <2>6, <2>7, <2>8, <2>9, <2>10, <2>11, <2>12, <2>13,
       <2>14, <2>15, <2>16, <2>17, <2>18, <2>19, <2>20, <2>21, <2>22, <2>23, <2>24, <2>25,
       <2>26 DEF Next, Environment, Worker
<1> QED
  BY <1>1, <1>2, Typing, PTL DEF Spec

-----------------------------------------------------------------------------
(* No cluster outlives its definition: reconcileDelete removes the         *)
(* finalizer of a running cluster nobody asked to delete only after a pass *)
(* that skipped the dispatch, or after a Job was lost.                     *)
THEOREM NoLeak == Spec => []NoLeakUnlessExcused
<1>1. TypeOK /\ FinalizerInv => NoLeakUnlessExcused
  BY DEF TypeOK, Objects, FinalizerInv, MarksNeedObject, Exposed, Excused,
     NoLeakUnlessExcused
<1> QED
  BY <1>1, Typing, FinalizerInvariant, PTL

-----------------------------------------------------------------------------
(* The recorded params hash.                                               *)

(* What excuses a recorded hash that is not that of the applied params.    *)
Dirty == Excused({"saveLost", "jobLost", "stalePass"})

Live(c) == c.st \in {"CREATING", "ACTIVE", "UPDATING"}

(* A step that changes neither a recorded hash nor what a cluster runs with.*)
Quiet ==
    /\ cr'.exists /\ cr'.hash # NoHash => cr.exists /\ cr'.hash = cr.hash
    /\ Live(cloud') => Live(cloud) /\ cloud'.params = cloud.params

(* What HashInv says of the pass.                                          *)
PassHash ==
    /\ pc \in {"check", "status", "create", "createTail", "scale", "activeTail"} /\ ~Deleting
         => pass.hash = cr.hash
    /\ pc \in {"createSave", "scaleSave"} /\ Live(cloud) => pass.hash = ParamsHash(cloud.params)
    /\ pc = "scale" => cloud.st \in {"ACTIVE", "FAILED"}

(* What a deletion request, or the last finalizer going, leaves of a hash. *)
LEMMA DeletedReads ==
    ASSUME NEW o \in Objects
    PROVE  /\ Deleted(o).exists => o.exists /\ Deleted(o).hash = o.hash
           /\ Unfinalized(o).exists => o.exists /\ Unfinalized(o).hash = o.hash
<1>1. ~Gone(o.uid).exists
  BY DEF Gone
<1>2. /\ [o EXCEPT !.dt = TRUE].exists = o.exists /\ [o EXCEPT !.dt = TRUE].hash = o.hash
      /\ [o EXCEPT !.fin = FALSE].exists = o.exists /\ [o EXCEPT !.fin = FALSE].hash = o.hash
  BY DEF Objects
<1> QED
  BY <1>1, <1>2 DEF Deleted, Unfinalized

(* HashInv in two halves.                                                  *)
LEMMA HashInvParts == HashInv <=> Dirty \/ (HashMeansApplied /\ PassHash)
  BY DEF HashInv, PassHash, Dirty, Live

(* Windows are only ever added to.                                         *)
LEMMA DirtyStays == [Next]_vars /\ Dirty => Dirty'
<1> SUFFICES ASSUME [Next]_vars PROVE excuse \subseteq excuse'
  BY DEF Dirty, Excused
<1> QED
  BY DEF Next, Environment, Worker, vars, UserCreate, UserEdit, UserDelete, DependencyChanges,
     Expire, CacheSync, CloudSettles, CloudFails, OrphanEnds, StartPass, AddFinalizer, Check,
     Status, Create, CreateSave, CreateTail, Scale, ScaleSave, ActiveTail, Delete, Remove,
     Finish, RecordDelete, Unfinalize, Crash, Save, LoseJob

(* A quiet step that leaves the places where a hash is kept keeps HashInv. *)
LEMMA QuietKeepsHash ==
    ASSUME HashMeansApplied, ~Dirty, Quiet, pc \notin {"createSave", "scaleSave"},
           pc' \notin {"check", "status", "create", "createTail", "scale", "activeTail",
                       "createSave", "scaleSave"}
    PROVE  HashInv'
<1>1. HashMeansApplied'
  BY DEF HashMeansApplied, Dirty, Quiet, Live
<1> QED
  BY <1>1 DEF HashInv

(* So does one that leaves the pass alone.                                 *)
LEMMA BystanderKeepsHash ==
    ASSUME HashMeansApplied, PassHash, ~Dirty, Quiet, UNCHANGED <<pc, pass>>,
           ~Deleting /\ pc \notin {"idle", "addFinalizer", "finish"} => cr'.hash = cr.hash,
           pc = "scale" => cloud'.st \in {"ACTIVE", "FAILED"}
    PROVE  HashInv'
<1>1. HashMeansApplied'
  BY DEF HashMeansApplied, Dirty, Quiet, Live
<1>2. PassHash'
  BY DEF PassHash, Quiet, Deleting
<1> QED
  BY <1>1, <1>2 DEF HashInv, PassHash, Live

(* A recorded hash is that of the params the cluster runs with, and every  *)
(* pass that may save holds the hash that is recorded or of what it has    *)
(* just applied.                                                           *)
THEOREM HashInvariant == Spec => []HashInv
<1>1. Init => HashInv
  <2> SUFFICES ASSUME Init PROVE HashInv
    OBVIOUS
  <2>1. ~cr.exists /\ pc = "idle"
    BY DEF Init, Gone
  <2> QED
    BY <2>1 DEF HashInv, HashMeansApplied
<1>2. TypeOK /\ FinalizerInv /\ HashInv /\ [Next]_vars => HashInv'
  <2> SUFFICES ASSUME TypeOK, FinalizerInv, HashInv, [Next]_vars, ~Dirty'
               PROVE  HashInv'
    BY DEF HashInv, Dirty
  <2>1. ~Dirty /\ HashMeansApplied /\ PassHash
    BY DirtyStays, HashInvParts
  <2>2. orphans = {}
    BY <2>1 DEF FinalizerInv, Dirty, Excused
  <2>3. ~Deleting /\ pc \notin {"idle", "addFinalizer"} => cr.fin /\ cr.exists
    BY DEF FinalizerInv, PassKnows, MarksNeedObject
  <2>4. CASE UNCHANGED vars
    BY <2>1, <2>4, BystanderKeepsHash DEF vars, Quiet, PassHash
  <2>5. CASE UserCreate
    <3>1. ~cr.exists /\ cr'.hash = NoHash /\ UNCHANGED <<cloud, pc, pass>>
      BY <2>5 DEF UserCreate, Gone
    <3> QED
      BY <2>1, <2>3, <3>1, BystanderKeepsHash DEF Quiet, PassHash
  <2>6. CASE UserEdit
    <3>1. cr.exists /\ cr'.hash = cr.hash /\ UNCHANGED <<cloud, pc, pass>>
      BY <2>6 DEF UserEdit, TypeOK, Objects
    <3> QED
      BY <2>1, <3>1, BystanderKeepsHash DEF Quiet, PassHash
  <2>7. CASE UserDelete
    <3>1. /\ cr.fin => cr'.hash = cr.hash
          /\ cr'.exists => cr.exists /\ cr'.hash = cr.hash
          /\ UNCHANGED <<cloud, pc, pass>>
      BY <2>7 DEF UserDelete, Deleted, Gone, TypeOK, Objects
    <3> QED
      BY <2>1, <2>3, <3>1, BystanderKeepsHash DEF Quiet, PassHash
  <2>8. CASE DependencyChanges \/ Expire \/ CacheSync
    BY <2>1, <2>8, BystanderKeepsHash
       DEF DependencyChanges, Expire, CacheSync, Quiet, PassHash
  <2>9. CASE CloudSettles
    <3>1. /\ Live(cloud') => Live(cloud) /\ cloud'.params = cloud.params
          /\ cloud.st = "ACTIVE" \/ cloud.st = "FAILED" => FALSE
      BY <2>9 DEF CloudSettles, InProgress, Live, TypeOK, Clouds
    <3> QED
      BY <2>1, <2>9, <3>1, BystanderKeepsHash DEF CloudSettles, Quiet, PassHash
  <2>10. CASE CloudFails
    <3>1. cloud'.st = "FAILED"
      BY <2>10 DEF CloudFails, TypeOK, Clouds
    <3> QED
      BY <2>1, <2>10, <3>1, BystanderKeepsHash DEF CloudFails, Quiet, Live
  <2>11. CASE OrphanEnds
    BY <2>2, <2>11 DEF OrphanEnds
  <2>12. CASE StartPass
    <3>1. /\ pass'.hash = cr.hash /\ UNCHANGED <<cr, cloud>>
          /\ pc = "idle" /\ pc' \in {"addFinalizer", "check"}
      BY <2>12 DEF StartPass, Dirty, Excused, NoPass
    <3>2. HashMeansApplied'
      BY <2>1, <3>1 DEF HashMeansApplied, Dirty
    <3> QED
      BY <3>1, <3>2 DEF HashInv
  <2>13. CASE AddFinalizer
    <3>1. /\ pc = "addFinalizer" /\ pc' = "idle" /\ cloud' = cloud
          /\ cr'.hash = cr.hash /\ cr'.exists = cr.exists
      BY <2>13 DEF AddFinalizer, TypeOK, Objects
    <3> QED
      BY <2>1, <3>1, QuietKeepsHash DEF Quiet
  <2>14. CASE Check
    <3>1. pc = "check" /\ UNCHANGED <<cr, cloud>>
      BY <2>14 DEF Check
    <3>2. CASE pc' = "status" /\ pass' = [pass EXCEPT !.delete = @ \/ expired]
      <4>1. pass'.hash = pass.hash /\ pass'.obj = pass.obj
        BY <3>2 DEF TypeOK, Passes
      <4>2. HashMeansApplied'
        BY <2>1, <3>1, <3>2 DEF HashMeansApplied, Dirty
      <4>3. PassHash'
        BY <2>1, <3>1, <3>2, <4>1 DEF PassHash, Deleting
      <4> QED
        BY <4>2, <4>3 DEF HashInv, PassHash, Live
    <3>3. CASE \E p : Return(p)
      BY <2>1, <3>1, <3>3, QuietKeepsHash DEF Return, Quiet
    <3> QED
      BY <2>14, <3>2, <3>3 DEF Check
  <2>15. CASE Status
    <3>1. pc = "status" /\ UNCHANGED <<cr, cloud>>
      BY <2>15 DEF Status
    <3>2. CASE \E p : Return(p)
      BY <2>1, <3>1, <3>2, QuietKeepsHash DEF Return, Quiet
    <3>3. CASE pc' \in {"delete", "remove"}
      BY <2>1, <3>1, <3>3, QuietKeepsHash DEF Quiet
    <3>4. CASE /\ pass'.hash = pass.hash /\ pass'.obj = pass.obj
               /\ pc' \in {"create", "scale", "activeTail"}
               /\ pc' = "scale" => cloud.st = "ACTIVE"
      <4>1. HashMeansApplied'
        BY <2>1, <3>1, <3>4 DEF HashMeansApplied, Dirty
      <4>2. PassHash'
        BY <2>1, <3>1, <3>4 DEF PassHash, Deleting
      <4> QED
        BY <4>1, <4>2 DEF HashInv, PassHash, Live
    <3>5. ASSUME NEW s \in {"", cloud.st}, Dispatch(s)
          PROVE  \/ \E p : Return(p)
                 \/ pc' \in {"delete", "remove"}
                 \/ /\ pass'.hash = pass.hash /\ pass'.obj = pass.obj
                    /\ pc' \in {"create", "scale", "activeTail"}
                    /\ pc' = "scale" => cloud.st = "ACTIVE"
      <4> DEFINE p == [pass EXCEPT !.phase = IF Deleting THEN "" ELSE s]
      <4>1. p.hash = pass.hash /\ p.obj = pass.obj
        BY DEF TypeOK, Passes
      <4> HIDE DEF p
      <4> QED
        BY <3>5, <4>1 DEF Dispatch, p
    <3> QED
      BY <2>15, <3>2, <3>3, <3>4, <3>5 DEF Status
  <2>16. CASE Create
    <3>1. pc = "create" /\ cr' = cr /\ cloud.st \in {"NOT_FOUND", "FAILED"}
      BY <2>1, <2>16 DEF Create, FinalizerInv, PassKnows, Dirty, Excused
    <3>2. CASE /\ cloud' \in Effect(Job) /\ pc' = "createSave"
               /\ pass' = [pass EXCEPT !.hash = ParamsHash(pass.obj.params)]
      <4>1. cloud'.params = pass.obj.params
        BY <3>1, <3>2 DEF Effect, Job
      <4>2. pass'.hash = ParamsHash(cloud'.params)
        BY <3>2, <4>1 DEF TypeOK, Passes
      <4> QED
        BY <3>2, <4>2 DEF HashInv, HashMeansApplied
    <3>3. CASE /\ \E p : Return(p)
               /\ cloud' \in {cloud, [cloud EXCEPT !.st = IF @ = "NOT_FOUND" THEN "FAILED" ELSE @,
                                                   !.asked = FALSE]}
      <4>1. ~Live(cloud')
        BY <3>1, <3>3 DEF Live, TypeOK, Clouds
      <4> QED
        BY <2>1, <3>1, <3>3, <4>1, QuietKeepsHash DEF Return, Quiet
    <3> QED
      BY <2>16, <3>2, <3>3 DEF Create
  <2>17. CASE CreateSave \/ ScaleSave
    <3>1. /\ pc \in {"createSave", "scaleSave"} /\ cloud' = cloud
          /\ pc' \in {"createTail", "activeTail"}
          /\ cr'.hash = pass.hash
      BY <2>17 DEF CreateSave, ScaleSave, Save, Dirty, Excused
    <3>2. pass'.hash = pass.hash /\ pass'.obj = pass.obj
      BY <2>17 DEF CreateSave, ScaleSave, TypeOK, Passes
    <3>3. HashMeansApplied'
      BY <2>1, <3>1 DEF HashMeansApplied, PassHash, Live
    <3>4. PassHash'
      BY <3>1, <3>2 DEF PassHash, Deleting
    <3> QED
      BY <3>3, <3>4 DEF HashInv, PassHash, Live
  <2>18. CASE CreateTail \/ ActiveTail
    <3>1. /\ pc \in {"createTail", "activeTail"} /\ cloud' = cloud
          /\ \E p : Return(p)
      BY <2>18 DEF CreateTail, ActiveTail
    <3>2. cr' = cr \/ Write([cr EXCEPT !.hash = pass.hash])
      BY <2>18 DEF CreateTail, ActiveTail
    <3>3. ~Deleting
      BY <3>1 DEF FinalizerInv, PassKnows
    <3>4. cr'.hash = cr.hash /\ cr'.exists = cr.exists
      <4>1. CASE cr' = [cr EXCEPT !.hash = pass.hash]
        BY <2>1, <3>1, <3>3, <4>1 DEF PassHash, TypeOK, Objects
      <4> QED
        BY <3>2, <4>1, WriteResult
    <3> QED
      BY <2>1, <3>1, <3>4, QuietKeepsHash DEF Return, Quiet
  <2>19. CASE Scale
    <3>1. pc = "scale" /\ cr' = cr /\ cloud.st \in {"ACTIVE", "FAILED"}
      BY <2>1, <2>19 DEF Scale, PassHash
    <3>2. CASE /\ cloud' \in Effect(Job) /\ pc' = "scaleSave"
               /\ pass' = [pass EXCEPT !.hash = ParamsHash(pass.obj.params)]
      <4>1. Live(cloud') => cloud'.params = pass.obj.params
        BY <3>1, <3>2 DEF Effect, Job, Live, TypeOK, Clouds
      <4>2. pass'.hash = ParamsHash(pass.obj.params)
        BY <3>2 DEF TypeOK, Passes
      <4> QED
        BY <3>2, <4>1, <4>2 DEF HashInv, HashMeansApplied, Live
    <3>3. CASE pc' = "activeTail" /\ UNCHANGED <<cloud, pass>>
      <4>1. HashMeansApplied'
        BY <2>1, <3>1, <3>3 DEF HashMeansApplied, Dirty
      <4>2. PassHash'
        BY <2>1, <3>1, <3>3 DEF PassHash, Deleting
      <4> QED
        BY <4>1, <4>2 DEF HashInv, PassHash, Live
    <3> QED
      BY <2>19, <3>2, <3>3 DEF Scale
  <2>20. CASE Delete
    <3>1. pc = "delete" /\ cr' = cr
          /\ pc' \in {"remove", "finish", "recordDelete", "unfinalize", "idle"}
      BY <2>20 DEF Delete, Return
    <3>2. Job \in Jobs /\ Job.op = "delete"
      BY <3>1 DEF Job, Jobs, TypeOK, Passes, Objects
    <3>3. Live(cloud') => Live(cloud) /\ cloud'.params = cloud.params
      <4>1. CASE cloud' \in Effect(Job)
        <5>1. \/ cloud' = [st |-> "NOT_FOUND", params |-> EmptyParams, asked |-> TRUE]
              \/ cloud' = [cloud EXCEPT !.st = "DELETING", !.asked = TRUE]
              \/ cloud' = cloud
          BY <3>2, <4>1 DEF Effect
        <5>2. cloud'.st \in {"NOT_FOUND", "DELETING"} \/ cloud' = cloud
          <6>1. [cloud EXCEPT !.st = "DELETING", !.asked = TRUE].st = "DELETING"
            BY DEF TypeOK, Clouds
          <6>2. [st |-> "NOT_FOUND", params |-> EmptyParams, asked |-> TRUE].st = "NOT_FOUND"
            OBVIOUS
          <6> QED
            BY <5>1, <6>1, <6>2
        <5> QED
          BY <5>2 DEF Live
      <4>2. CASE cloud' = [cloud EXCEPT !.st = IF @ = "NOT_FOUND" THEN @ ELSE "FAILED"]
        BY <4>2 DEF Live, TypeOK, Clouds
      <4> QED
        BY <2>20, <4>1, <4>2 DEF Delete
    <3> QED
      BY <2>1, <3>1, <3>3, QuietKeepsHash DEF Quiet
  <2>21. CASE Remove
    <3>1. pc = "remove" /\ cloud' = cloud /\ \E p : Return(p)
      BY <2>21 DEF Remove
    <3>2. cr'.exists => cr.exists /\ cr'.hash = cr.hash
      BY <2>21, DeletedReads DEF Remove, TypeOK
    <3> QED
      BY <2>1, <3>1, <3>2, QuietKeepsHash DEF Return, Quiet
  <2>22. CASE Finish \/ RecordDelete
    <3>1. /\ pc \in {"finish", "recordDelete"} /\ cloud' = cloud
          /\ pc' \in {"idle", "unfinalize"}
      BY <2>22 DEF Finish, RecordDelete
    <3>2. cr'.hash = cr.hash /\ cr'.exists = cr.exists
      BY <2>22 DEF Finish, RecordDelete, Write, TypeOK, Objects
    <3> QED
      BY <2>1, <3>1, <3>2, QuietKeepsHash DEF Quiet
  <2>23. CASE Unfinalize
    <3>1. pc = "unfinalize" /\ pc' = "idle" /\ cloud' = cloud
      BY <2>23 DEF Unfinalize
    <3>2. cr' \in {cr, Unfinalized(cr)}
      BY <2>23, WriteResult DEF Unfinalize
    <3>3. cr'.exists => cr.exists /\ cr'.hash = cr.hash
      BY <3>2, DeletedReads DEF TypeOK
    <3> QED
      BY <2>1, <3>1, <3>3, QuietKeepsHash DEF Quiet
  <2>24. CASE Crash
    <3>1. /\ pc \notin {"createSave", "scaleSave"} /\ pc' = "idle"
          /\ UNCHANGED <<cr, cloud>>
      BY <2>24 DEF Crash, Dirty, Excused
    <3> QED
      BY <2>1, <3>1, QuietKeepsHash DEF Quiet
  <2> QED
    BY <2>4, <2>5, <2>6, <2>7, <2>8, <2>9, <2>10, <2>11, <2>12, <2>13, <2>14, <2>15,
       <2>16, <2>17, <2>18, <2>19, <2>20, <2>21, <2>22, <2>23, <2>24 DEF Next, Environment, Worker
<1> QED
  BY <1>1, <1>2, Typing, FinalizerInvariant, PTL DEF Spec

(* createCluster and the scale branch: the recorded hash is that of the    *)
(* params the cluster runs with, unless excused.                           *)
THEOREM HashApplied == Spec => []HashMeansApplied
<1>1. HashInv => HashMeansApplied
  BY DEF HashInv, HashMeansApplied
<1> QED
  BY <1>1, HashInvariant, PTL

(* Typing and the two invariants, for Reconcile and reconcileDelete.       *)
THEOREM LifecycleInvariant == Spec => []LifecycleInv
  BY Typing, FinalizerInvariant, HashInvariant, PTL DEF LifecycleInv

(* Ready and Error are both true only on an object being deleted: the one  *)
(* writer that sets Error alone is recordDeleteOutput.                     *)
THEOREM ReadyError == Spec => []ReadyAndErrorOnlyWhileDeleting
<1>1. FinalizerInv => ReadyAndErrorOnlyWhileDeleting
  BY DEF FinalizerInv
<1> QED
  BY <1>1, FinalizerInvariant, PTL

(* createCluster's create op succeeds only where status had found no       *)
(* cluster, unless a lost Job raced it.                                    *)
THEOREM CreateFinds == Spec => CreateFindsNoCluster
<1>1. FinalizerInv /\ [Next]_vars
        => [pc = "create" /\ pc' = "createSave" =>
              cloud.st \in {"NOT_FOUND", "FAILED"} \/ Excused({"jobLost"})]_vars
  BY DEF FinalizerInv, PassKnows, Excused
<1> QED
  BY <1>1, FinalizerInvariant, PTL DEF Spec, CreateFindsNoCluster

-----------------------------------------------------------------------------
(* The contexts of the CLI: which of several contexts a query picks.       *)

LEMMA LeastThere ==
    ASSUME NEW S, S \subseteq Nat, S # {}
    PROVE  \E m \in S : \A k \in S : m =< k
<1>1. PICK R : IsWellFoundedOn(R, Nat) /\ \A x \in Nat : \A y \in Nat : <<x, y>> \in R <=> x < y
  <2> DEFINE R == OpToRel(<, Nat)
  <2>1. IsWellFoundedOn(R, Nat)
    BY NatLessThanWellFounded
  <2>2. \A x \in Nat : \A y \in Nat : <<x, y>> \in R <=> x < y
    BY DEF OpToRel
  <2> HIDE DEF R
  <2> QED
    BY <2>1, <2>2
<1>2. PICK m \in S : \A y \in S : ~ (<<y, m>> \in R)
  <2>1. IsWellFoundedOn(R, Nat)
    BY <1>1
  <2> QED
    BY <2>1, WFMin, Zenon
<1>3. ASSUME NEW k \in S PROVE m =< k
  <2>1. k \in Nat /\ m \in Nat
    OBVIOUS
  <2>2. <<k, m>> \in R <=> k < m
    BY <1>1, <2>1
  <2>3. ~(k < m)
    BY <1>2, <2>2
  <2> QED
    BY <2>1, <2>3
<1> QED
  BY <1>3

LEMMA NamesAre == Names \subseteq Nat /\ None \notin Names /\ None \notin Servers /\ None \notin Orgs
BY ContextsAssumption DEF Names

LEMMA OldestIn ==
    ASSUME rows \in [Names -> Rows], NEW S, S \subseteq Names, S # {}
    PROVE  Oldest(S) \in S
<1> DEFINE ids == {rows[n].id : n \in S}
<1>1. ids \subseteq Nat /\ ids # {}
  BY DEF Rows
<1> HIDE DEF ids
<1>2. PICK i \in ids : \A k \in ids : i =< k
  BY <1>1, LeastThere
<1>3. \E n \in S : rows[n].id = i
  BY DEF ids
<1>4. \A m \in S : rows[m].id \in ids
  BY DEF ids
<1>5. \E n \in S : \A m \in S : rows[n].id =< rows[m].id
  BY <1>2, <1>3, <1>4
<1> QED
  BY <1>5, Zenon DEF Oldest

LEMMA ListedIn ==
    ASSUME NEW n \in Names, Others(n) # {}
    PROVE  Listed(n) \in Others(n)
<1> DEFINE marked == Others(n) \cap Currents
           from   == IF marked # {} THEN marked ELSE Others(n)
<1>1. from \subseteq Others(n) /\ from # {} /\ Others(n) \subseteq Nat
  BY NamesAre DEF Others, Registered
<1>2. PICK m \in from : \A k \in from : m =< k
  BY <1>1, LeastThere
<1>3. /\ m \in Others(n)
      /\ marked # {} => m \in marked
      /\ \A k \in Others(n) : (marked = {} \/ k \in marked) => m =< k
  BY <1>2
<1> QED
  BY <1>3, Zenon DEF Listed

LEMMA NoRowIs ==
    /\ NoRow \in Rows /\ NoRow.id = 0 /\ NoRow.cur = FALSE /\ NoRow.local = FALSE
    /\ NoRow.api = None /\ NoRow.org = None /\ NoRow.env = None /\ \A hit : Scoped(NoRow, hit)
BY DEF NoRow, Rows, OrgSel, EnvSel, Scoped

LEMMA ScopedStays ==
    ASSUME NEW r, NEW hit, NEW more, Scoped(r, hit), hit \subseteq more
    PROVE  Scoped(r, more)
BY DEF Scoped

LEMMA RowIs ==
    ASSUME NEW r \in Rows
    PROVE  /\ r.id \in Nat /\ r.cur \in BOOLEAN /\ r.local \in BOOLEAN
           /\ r.api \in Servers \cup {None} /\ r.org \in OrgSel /\ r.env \in EnvSel
BY DEF Rows

LEMMA SameRow ==
    ASSUME NEW r \in Rows, NEW s \in Rows, r.id = s.id, r.cur = s.cur, r.local = s.local,
           r.api = s.api, r.org = s.org, r.env = s.env
    PROVE  r = s
BY DEF Rows

LEMMA CurrentIs ==
    ASSUME rows \in [Names -> Rows]
    PROVE  /\ Current \in Rows
           /\ Currents # {} => Oldest(Currents) \in Currents /\ Current = rows[Oldest(Currents)]
           /\ Currents = {} => Current = NoRow
<1>1. Currents \subseteq Names
  BY DEF Currents
<1>2. Currents # {} => Oldest(Currents) \in Currents
  BY <1>1, OldestIn
<1> QED
  BY <1>1, <1>2, NoRowIs DEF Current

(* Which context is current depends on nothing but the contexts.           *)
LEMMA SameRows ==
    ASSUME rows' = rows
    PROVE  /\ Current' = Current /\ Currents' = Currents /\ Registered' = Registered
           /\ \A n \in Names : Exists(n)' = Exists(n)
           /\ \A n : Others(n)' = Others(n)
BY DEF Current, Currents, Registered, Exists, Others, Oldest

LEMMA SessionIs ==
    ASSUME NEW s \in Sessions
    PROVE  /\ s.sid \in Nat /\ s.token \in Nat /\ s.fresh \in BOOLEAN
           /\ s.api \in Servers \cup {None}
BY DEF Sessions

LEMMA NoSessionIs == NoSession \in Sessions /\ NoSession.sid = 0 /\ NoSession.token = 0
BY DEF NoSession, Sessions

LEMMA WorksAre == \A w \in Works : w.lookups \in Nat /\ w.remote \in BOOLEAN /\ w.scoped \in BOOLEAN
<1> DEFINE Kinds == [remote : BOOLEAN, scoped : BOOLEAN, lookups : Nat]
<1>1. /\ ShowCluster \in Kinds /\ AuthCluster \in Kinds /\ CreateCluster \in Kinds
      /\ DeleteCluster \in Kinds /\ AdoptCluster \in Kinds /\ CreateTemplate \in Kinds
      /\ ManageTemplates \in Kinds /\ CreateWorkflow \in Kinds
  BY DEF ShowCluster, AuthCluster, CreateCluster, DeleteCluster, AdoptCluster, CreateTemplate,
         ManageTemplates, CreateWorkflow
<1>2. /\ DeleteWorkflow \in Kinds /\ ShowWorkflows \in Kinds /\ RunWorkflow \in Kinds
      /\ CreateResource \in Kinds /\ ShowResources \in Kinds /\ Organizations \in Kinds
      /\ Environments \in Kinds /\ Registrations \in Kinds
  BY DEF DeleteWorkflow, ShowWorkflows, RunWorkflow, CreateResource, ShowResources, Organizations,
         Environments, Registrations
<1> HIDE DEF Kinds
<1>3. Works \subseteq Kinds
  BY <1>1, <1>2 DEF Works
<1> QED
  BY <1>3 DEF Kinds

LEMMA IdleIs ==
    /\ Idle \in Commands /\ Idle.op = "idle" /\ Idle.at = "idle" /\ Idle.meant = NoRow
    /\ Idle.dirs = {} /\ Idle.left = 0 /\ Idle.name = None /\ Idle.pick = None
    /\ Idle.api = None
<1>2. "idle" \in Ops /\ "idle" \in Steps /\ None \in OrgSel /\ None \in EnvSel
  BY DEF Ops, Steps, OrgSel, EnvSel
<1> QED
  BY <1>2, NoRowIs, NoSessionIs DEF Idle, Commands

LEMMA CommandIs ==
    ASSUME NEW c \in Commands
    PROVE  /\ c.op \in Ops /\ c.at \in Steps /\ c.no \in Nat
           /\ c.remote \in BOOLEAN /\ c.scoped \in BOOLEAN
           /\ c.forOrg \in Orgs \cup {None} /\ c.forEnv \in BOOLEAN
           /\ c.name \in Names \cup {None} /\ c.local \in BOOLEAN
           /\ c.api \in Servers \cup {None} /\ c.pick \in Names \cup Orgs \cup {None}
           /\ c.first \in BOOLEAN /\ c.had \in BOOLEAN /\ c.sess \in Sessions
           /\ c.meant \in Rows /\ c.own \in Nat /\ c.id \in Nat
           /\ c.org \in OrgSel /\ c.env \in EnvSel /\ c.left \in Nat /\ c.dirs \subseteq Nat
BY DEF Commands

(* What of a command a Goto leaves as it was: everything but its step.     *)
Along(c, d) ==
    /\ d.op = c.op /\ d.no = c.no /\ d.name = c.name /\ d.local = c.local
    /\ d.remote = c.remote /\ d.scoped = c.scoped /\ d.forOrg = c.forOrg /\ d.forEnv = c.forEnv
    /\ d.api = c.api /\ d.pick = c.pick /\ d.first = c.first /\ d.had = c.had
    /\ d.sess = c.sess /\ d.meant = c.meant /\ d.own = c.own /\ d.id = c.id
    /\ d.org = c.org /\ d.env = c.env /\ d.left = c.left /\ d.dirs = c.dirs

LEMMA GotoIs ==
    ASSUME NEW c \in Commands, NEW s \in Steps, NEW d, d = [c EXCEPT !.at = s]
    PROVE  d \in Commands /\ d.at = s /\ Along(c, d)
<1>1. d \in Commands
  BY DEF Commands
<1> QED
  BY <1>1 DEF Commands, Along

-----------------------------------------------------------------------------
(* What the invariant says of one command, and what of it a step of        *)
(* another one leaves true.                                                *)

Fine(c) == Aimed(c) /\ AsSeen(c) /\ Chooses(c) /\ Leaves(c) /\ Refreshes(c) /\ Keeps(c)

LookingAt(c)  == c.op \in Looks /\ c.at \in {"mode", "load", "token", "env", "org", "send", "pick",
                                             "select", "target", "keep", "dir"}
ChoosingAt(c) == \/ c.at \in {"clear", "insert", "unset", "set"}
                 \/ c.op = "remove" /\ c.at \in {"forget", "drop"}

LEMMA AimedStays ==
    ASSUME NEW c, Aimed(c), lapses \subseteq lapses'
    PROVE  Aimed(c)'
BY DEF Aimed, Unexcused

LEMMA AsSeenStays ==
    ASSUME NEW c, Routed(c), AsSeen(c), lapses \subseteq lapses',
           rows' = rows \/ (LookingAt(c) => "switched" \in lapses')
    PROVE  AsSeen(c)'
<1>1. CASE "switched" \in lapses'
  BY <1>1 DEF AsSeen, Unexcused
<1>2. CASE "switched" \notin lapses' /\ rows' = rows
  <2>1. Current' = Current
    BY <1>2, SameRows
  <2>2. Unexcused({"switched"})
    BY <1>2 DEF Unexcused
  <2>3. Scoped(c.meant, lapses')
    BY <2>2, ScopedStays DEF AsSeen
  <2> QED
    BY <1>2, <2>1, <2>2, <2>3 DEF AsSeen
<1>3. CASE "switched" \notin lapses' /\ ~LookingAt(c)
  <2>1. Unexcused({"switched"})
    BY <1>3 DEF Unexcused
  <2>2. c.at # "mode" /\ ~Authorizing(c) /\ ~Scoping(c) /\ c.at # "dir"
    BY <1>3 DEF Routed, LookingAt, Authorizing, Scoping, Looks
  <2>3. Scoped(c.meant, lapses')
    BY <2>1, ScopedStays DEF AsSeen
  <2> QED
    BY <2>1, <2>2, <2>3 DEF AsSeen
<1> QED
  BY <1>1, <1>2, <1>3

LEMMA ChoosesStays ==
    ASSUME NEW c, Chooses(c), lapses \subseteq lapses',
           rows' = rows \/ (ChoosingAt(c) => "overlap" \in lapses')
    PROVE  Chooses(c)'
<1>1. CASE rows' = rows
  BY <1>1, SameRows DEF Chooses, Unexcused
<1>2. CASE ChoosingAt(c) => "overlap" \in lapses'
  BY <1>2 DEF Chooses, Unexcused, ChoosingAt
<1> QED
  BY <1>1, <1>2

LEMMA LeavesStays ==
    ASSUME NEW c, Routed(c), Leaves(c), lapses \subseteq lapses',
           rows' = rows \/ (ChoosingAt(c) => "overlap" \in lapses'),
           "torn" \in lapses' \/ \A q \in Procs : At(q, "set") => At(q, "set")'
    PROVE  Leaves(c)'
<1>1. CASE rows' = rows
  <2>1. Others(c.name)' = Others(c.name) /\ Currents' = Currents
    BY <1>1, SameRows
  <2> QED
    BY <2>1 DEF Leaves, Unexcused
<1>2. CASE ChoosingAt(c) => "overlap" \in lapses'
  BY <1>2 DEF Leaves, Unexcused, ChoosingAt, Routed
<1> QED
  BY <1>1, <1>2

LEMMA RefreshesStays ==
    ASSUME NEW c, Refreshes(c), lapses \subseteq lapses',
           \/ session'.sid \in {0, session.sid}
           \/ c.at \in {"early", "token"} => "relogged" \in lapses'
    PROVE  Refreshes(c)'
BY DEF Refreshes, Unexcused

LEMMA KeepsStays ==
    ASSUME NEW c, Keeps(c), lapses \subseteq lapses', lastId \in Nat, lastId' \in Nat, lastId =< lastId',
           c.at = "drop" => c.name \in Names,
           \/ \A n \in Names : rows[n].id # 0 => rows'[n].id = rows[n].id
           \/ c.at = "keep" => "late" \in lapses',
           c.at = "drop" => \/ "late" \in lapses'
                            \/ /\ secrets' \subseteq secrets \/ rows'[c.name].id \notin secrets' \ secrets
                               /\ rows'[c.name].id = rows[c.name].id \/ rows'[c.name].id \notin secrets
    PROVE  Keeps(c)'
<1>1. ASSUME c.at = "keep" PROVE c.id \in 1..lastId'
  BY <1>1 DEF Keeps
<1>2. ASSUME c.at = "keep", "late" \notin lapses'
      PROVE  c.id \in {rows'[n].id : n \in Names}
  <2>1. c.id \in {rows[n].id : n \in Names} /\ c.id # 0
    BY <1>2 DEF Keeps, Unexcused
  <2>2. PICK n \in Names : rows[n].id = c.id
    BY <2>1
  <2>3. rows'[n].id = c.id
    BY <1>2, <2>1, <2>2
  <2> QED
    BY <2>3
<1>3. ASSUME c.at = "drop", "late" \notin lapses'
      PROVE  rows'[c.name].id \notin secrets'
  BY <1>3 DEF Keeps, Unexcused
<1> QED
  BY <1>1, <1>2, <1>3 DEF Keeps, Unexcused

(* A command that is at none of the steps the invariant says more about.   *)
LEMMA Plain ==
    ASSUME NEW c, "switched" \in lapses \/ Scoped(c.meant, lapses),
           \/ c.at \in {"idle", "open", "prelude", "own", "exists", "unset", "lookup", "login", "save",
                        "register", "remember", "logout", "revoke", "clearSession", "target"}
           \/ c.at \in {"pick", "select"} /\ c.op = "unsetEnv"
    PROVE  Fine(c)
<1>1. ~Authorizing(c) /\ ~Scoping(c) /\ ~Sent(c) /\ ~Worked(c) /\ c.at \notin {"mode", "dir"}
  BY DEF Authorizing, Scoping, Sent, Worked
<1>2. c.at \notin {"clear", "insert", "set", "forget", "drop", "early", "token", "keep"}
  OBVIOUS
<1>3. Aimed(c)
  BY <1>1 DEF Aimed
<1>4. AsSeen(c)
  BY <1>1 DEF AsSeen, Unexcused
<1>5. Chooses(c) /\ Leaves(c) /\ Refreshes(c) /\ Keeps(c)
  BY <1>2 DEF Chooses, Leaves, Refreshes, Keeps
<1> QED
  BY <1>3, <1>4, <1>5 DEF Fine

LEMMA PlainNext ==
    ASSUME NEW c, "switched" \in lapses' \/ Scoped(c.meant, lapses'),
           \/ c.at \in {"idle", "open", "prelude", "own", "exists", "unset", "lookup", "login", "save",
                        "register", "remember", "logout", "revoke", "clearSession", "target"}
           \/ c.at \in {"pick", "select"} /\ c.op = "unsetEnv"
    PROVE  Fine(c)'
<1>1. ~Authorizing(c) /\ ~Scoping(c) /\ ~Sent(c) /\ ~Worked(c) /\ c.at \notin {"mode", "dir"}
  BY DEF Authorizing, Scoping, Sent, Worked
<1>2. c.at \notin {"clear", "insert", "set", "forget", "drop", "early", "token", "keep"}
  OBVIOUS
<1>3. Aimed(c)'
  BY <1>1 DEF Aimed
<1>4. AsSeen(c)'
  BY <1>1 DEF AsSeen, Unexcused
<1>5. Chooses(c)' /\ Leaves(c)' /\ Refreshes(c)' /\ Keeps(c)'
  BY <1>2 DEF Chooses, Leaves, Refreshes, Keeps
<1> QED
  BY <1>3, <1>4, <1>5 DEF Fine

LEMMA IdleFine ==
    /\ Fine(Idle) /\ Fine(Idle)' /\ Routed(Idle)
    /\ Numbered(Idle) /\ Numbered(Idle)'
<1>1. Routed(Idle)
  BY IdleIs, NamesAre DEF Routed, Looks
<1>2. Numbered(Idle) /\ Numbered(Idle)'
  BY IdleIs DEF Numbered
<1>3. Scoped(Idle.meant, lapses) /\ Scoped(Idle.meant, lapses') /\ Idle.at = "idle"
  BY IdleIs, NoRowIs
<1> QED
  BY <1>1, <1>2, <1>3, Plain, PlainNext

LEMMA FineStays ==
    ASSUME NEW c \in Commands, Routed(c), Fine(c), lapses \subseteq lapses',
           rows' = rows \/ (LookingAt(c) => "switched" \in lapses'),
           rows' = rows \/ (ChoosingAt(c) => "overlap" \in lapses'),
           "torn" \in lapses' \/ \A q \in Procs : At(q, "set") => At(q, "set")',
           \/ session'.sid \in {0, session.sid}
           \/ c.at \in {"early", "token"} => "relogged" \in lapses',
           lastId \in Nat, lastId' \in Nat, lastId =< lastId',
           \/ \A n \in Names : rows[n].id # 0 => rows'[n].id = rows[n].id
           \/ c.at = "keep" => "late" \in lapses',
           c.at = "drop" => \/ "late" \in lapses'
                            \/ /\ secrets' \subseteq secrets \/ rows'[c.name].id \notin secrets' \ secrets
                               /\ rows'[c.name].id = rows[c.name].id \/ rows'[c.name].id \notin secrets
    PROVE  Fine(c)'
<1>1. Aimed(c)' /\ AsSeen(c)' /\ Chooses(c)' /\ Refreshes(c)' /\ Leaves(c)'
  BY AimedStays, AsSeenStays, ChoosesStays, RefreshesStays, LeavesStays DEF Fine
<1>2. c.at = "drop" => c.name \in Names
  BY DEF Routed
<1>3. Keeps(c)'
  BY <1>2, KeepsStays DEF Fine
<1> QED
  BY <1>1, <1>3 DEF Fine

LEMMA CommandsAre ==
    ASSUME ContextsInv, NEW q \in Procs
    PROVE  /\ proc[q] \in Commands /\ Numbered(proc[q]) /\ Routed(proc[q]) /\ Fine(proc[q])
           /\ proc[q].dirs \subseteq 0..lastId
BY DEF ContextsInv, ContextsTypeOK, CommandsInv, Fine

LEMMA StateIs ==
    ASSUME ContextsInv
    PROVE  /\ rows \in [Names -> Rows] /\ lastId \in Nat /\ secrets \subseteq 1..lastId
           /\ session \in Sessions /\ live \subseteq 1..started
           /\ old \in [name : Names \cup {None}, cur : BOOLEAN] /\ proc \in [Procs -> Commands]
           /\ started \in 1..MaxCommands /\ started \in Nat /\ lapses \subseteq Windows
           /\ OneCurrent /\ TokenIsOwn /\ SecretsHaveContext /\ RowsInv
           /\ Names \subseteq Nat /\ MaxCommands \in Nat
<1>1. MaxCommands \in Nat
  BY ContextsAssumption
<1>2. started \in 1..MaxCommands /\ started \in Nat
  BY <1>1 DEF ContextsInv, ContextsTypeOK
<1> QED
  BY <1>1, <1>2, NamesAre DEF ContextsInv, ContextsTypeOK

(* A step of p that leaves it with c, when the others keep what is said    *)
(* of them.                                                                *)
LEMMA CommandsStep ==
    ASSUME ContextsInv, NEW p \in Procs, NEW c \in Commands, proc' = [proc EXCEPT ![p] = c],
           started' \in Nat, started =< started', Numbered(c)', Routed(c), Fine(c)',
           \A q \in Procs \ {p} : \A d \in Commands :
              d = proc[q] /\ Routed(d) /\ Fine(d) => Fine(d)',
           lastId' \in Nat, lastId =< lastId', c.dirs \subseteq 0..lastId'
    PROVE  /\ CommandsInv' /\ proc' \in [Procs -> Commands]
           /\ \A q \in Procs : proc'[q].dirs \subseteq 0..lastId'
<1>1. proc' \in [Procs -> Commands] /\ proc'[p] = c /\ \A q \in Procs \ {p} : proc'[q] = proc[q]
  BY StateIs
<1>2. ASSUME NEW q \in Procs, NEW d, d = proc'[q]
      PROVE  Numbered(d)' /\ Routed(d) /\ Fine(d)' /\ d.dirs \subseteq 0..lastId'
  <2>1. CASE q = p
    BY <1>1, <1>2, <2>1
  <2>2. CASE q # p
    <3>1. d = proc[q] /\ d \in Commands
      BY <1>1, <1>2, <2>2, CommandsAre
    <3>2. Numbered(d) /\ Routed(d) /\ Fine(d) /\ d.dirs \subseteq 0..lastId
      BY <3>1, CommandsAre
    <3>3. Numbered(d)'
      BY <3>2, StateIs DEF Numbered
    <3>4. d.dirs \subseteq 0..lastId'
      BY <3>2, StateIs
    <3> QED
      BY <3>1, <3>2, <3>3, <3>4, <2>2
  <2> QED
    BY <2>1, <2>2
<1>3. ASSUME NEW q \in Procs
      PROVE  /\ Numbered(proc[q])' /\ Routed(proc[q])' /\ Fine(proc[q])'
             /\ proc'[q].dirs \subseteq 0..lastId'
  BY <1>2 DEF Numbered, Routed, Fine, Aimed, AsSeen, Chooses, Leaves, Refreshes, Keeps
<1> QED
  BY <1>1, <1>3 DEF CommandsInv, Fine

(* The state but for the commands, when the contexts stay as they are.     *)
LEMMA SameContexts ==
    ASSUME ContextsInv, UNCHANGED <<rows, lastId, old>>, lapses \subseteq lapses',
           "torn" \in lapses' \/ \A q \in Procs : At(q, "set") => At(q, "set")'
    PROVE  /\ OneCurrent' /\ RowsInv' /\ rows' \in [Names -> Rows] /\ lastId' \in Nat /\ lastId =< lastId'
           /\ old' \in [name : Names \cup {None}, cur : BOOLEAN]
<1>1. Currents' = Currents /\ Registered' = Registered
  BY SameRows
<1>2. OneCurrent'
  BY <1>1, StateIs DEF OneCurrent, Unexcused
<1>3. RowsInv'
  <2>1. ASSUME NEW n \in Names PROVE Scoped(rows[n], lapses) => Scoped(rows[n], lapses')
    BY ScopedStays
  <2> QED
    BY <2>1, StateIs DEF RowsInv, Unexcused, Exists
<1> QED
  BY <1>2, <1>3, StateIs

(* A step of p that only changes p, the sessions of the servers and the    *)
(* windows hit.                                                            *)
LEMMA QuietStep ==
    ASSUME ContextsInv, NEW p \in Procs, NEW c \in Commands, proc' = [proc EXCEPT ![p] = c],
           UNCHANGED <<rows, lastId, secrets, session, old>>,
           lapses \subseteq lapses', lapses' \subseteq Windows,
           started' \in 1..MaxCommands, started =< started', live' \subseteq 1..started',
           Routed(c), Fine(c), Numbered(c)', c.dirs \subseteq 0..lastId,
           c.at # "set", At(p, "set") => "torn" \in lapses'
    PROVE  ContextsInv'
<1>1. "torn" \in lapses' \/ \A q \in Procs : At(q, "set") => At(q, "set")'
  BY StateIs DEF At
<1>2. ASSUME NEW d \in Commands, Routed(d), Fine(d) PROVE Fine(d)'
  <2>1. lastId \in Nat /\ lastId' \in Nat /\ lastId =< lastId'
    BY StateIs
  <2> QED
    BY <1>1, <1>2, <2>1, FineStays
<1>3. started' \in Nat /\ Fine(c)'
  BY <1>2, StateIs
<1>4. lastId' \in Nat /\ lastId =< lastId' /\ c.dirs \subseteq 0..lastId'
  BY StateIs
<1>5. /\ CommandsInv' /\ proc' \in [Procs -> Commands]
      /\ \A q \in Procs : proc'[q].dirs \subseteq 0..lastId'
  BY <1>2, <1>3, <1>4, CommandsStep
<1>6. TokenIsOwn' /\ SecretsHaveContext'
  BY StateIs DEF TokenIsOwn, SecretsHaveContext, Unexcused
<1>7. /\ OneCurrent' /\ RowsInv' /\ rows' \in [Names -> Rows] /\ lastId' \in Nat
      /\ old' \in [name : Names \cup {None}, cur : BOOLEAN]
  BY <1>1, SameContexts
<1>8. secrets' \subseteq 1..lastId' /\ session' \in Sessions
  BY StateIs
<1> QED
  BY <1>5, <1>6, <1>7, <1>8 DEF ContextsInv, ContextsTypeOK

(* A step of p that writes the session.                                    *)
LEMMA SessionStep ==
    ASSUME ContextsInv, NEW p \in Procs, NEW c \in Commands, proc' = [proc EXCEPT ![p] = c],
           UNCHANGED <<rows, lastId, secrets, live, old, started>>,
           lapses \subseteq lapses', lapses' \subseteq Windows, session' \in Sessions,
           \/ session'.sid \in {0, session.sid}
           \/ \A q \in Procs \ {p} : proc[q].at \in {"early", "token"} => "relogged" \in lapses',
           TokenIsOwn', Routed(c), Fine(c)', Numbered(c), c.dirs \subseteq 0..lastId,
           c.at # "set", ~At(p, "set")
    PROVE  ContextsInv'
<1>1. \A q \in Procs : At(q, "set") => At(q, "set")'
  BY StateIs DEF At
<1>2. ASSUME NEW q \in Procs \ {p}, NEW d \in Commands, d = proc[q], Routed(d), Fine(d) PROVE Fine(d)'
  <2>1. lastId \in Nat /\ lastId' \in Nat /\ lastId =< lastId'
    BY StateIs
  <2>2. \/ session'.sid \in {0, session.sid}
        \/ d.at \in {"early", "token"} => "relogged" \in lapses'
    BY <1>2
  <2> QED
    BY <1>1, <1>2, <2>1, <2>2, FineStays
<1>3. started' \in Nat /\ started =< started' /\ Numbered(c)'
  BY StateIs DEF Numbered
<1>4. lastId' \in Nat /\ lastId =< lastId' /\ c.dirs \subseteq 0..lastId'
  BY StateIs
<1>5. /\ CommandsInv' /\ proc' \in [Procs -> Commands]
      /\ \A q \in Procs : proc'[q].dirs \subseteq 0..lastId'
  BY <1>2, <1>3, <1>4, CommandsStep
<1>6. SecretsHaveContext'
  BY StateIs DEF SecretsHaveContext, Unexcused
<1>7. /\ OneCurrent' /\ RowsInv' /\ rows' \in [Names -> Rows] /\ lastId' \in Nat
      /\ old' \in [name : Names \cup {None}, cur : BOOLEAN]
  BY <1>1, SameContexts
<1>8. secrets' \subseteq 1..lastId' /\ live' \subseteq 1..started' /\ started' \in 1..MaxCommands
  BY StateIs
<1> QED
  BY <1>5, <1>6, <1>7, <1>8 DEF ContextsInv, ContextsTypeOK

(* A step of p that sets or forgets secrets.                               *)
LEMMA SecretsStep ==
    ASSUME ContextsInv, NEW p \in Procs, NEW c \in Commands, proc' = [proc EXCEPT ![p] = c],
           UNCHANGED <<rows, lastId, session, live, old, started>>,
           lapses \subseteq lapses', lapses' \subseteq Windows, secrets' \subseteq 1..lastId,
           \/ secrets' \subseteq secrets
           \/ \A q \in Procs \ {p} : proc[q].at = "drop" => "late" \in lapses',
           SecretsHaveContext', Routed(c), Fine(c)', Numbered(c), c.dirs \subseteq 0..lastId,
           c.at # "set", ~At(p, "set")
    PROVE  ContextsInv'
<1>1. \A q \in Procs : At(q, "set") => At(q, "set")'
  BY StateIs DEF At
<1>2. ASSUME NEW q \in Procs \ {p}, NEW d \in Commands, d = proc[q], Routed(d), Fine(d) PROVE Fine(d)'
  <2>1. lastId \in Nat /\ lastId' \in Nat /\ lastId =< lastId'
    BY StateIs
  <2>2. d.at = "drop" => "late" \in lapses' \/ secrets' \subseteq secrets
    BY <1>2
  <2> QED
    BY <1>1, <1>2, <2>1, <2>2, FineStays
<1>3. started' \in Nat /\ started =< started' /\ Numbered(c)'
  BY StateIs DEF Numbered
<1>4. lastId' \in Nat /\ lastId =< lastId' /\ c.dirs \subseteq 0..lastId'
  BY StateIs
<1>5. /\ CommandsInv' /\ proc' \in [Procs -> Commands]
      /\ \A q \in Procs : proc'[q].dirs \subseteq 0..lastId'
  BY <1>2, <1>3, <1>4, CommandsStep
<1>6. TokenIsOwn' /\ session' \in Sessions
  BY StateIs DEF TokenIsOwn, Unexcused
<1>7. /\ OneCurrent' /\ RowsInv' /\ rows' \in [Names -> Rows] /\ lastId' \in Nat
      /\ old' \in [name : Names \cup {None}, cur : BOOLEAN]
  BY <1>1, SameContexts
<1>8. secrets' \subseteq 1..lastId' /\ live' \subseteq 1..started' /\ started' \in 1..MaxCommands
  BY StateIs
<1> QED
  BY <1>5, <1>6, <1>7, <1>8 DEF ContextsInv, ContextsTypeOK

(* A step of p that writes the contexts: it hits the windows of the        *)
(* commands beside it, and the id of a context is never given to another.  *)
LEMMA RowsStep ==
    ASSUME ContextsInv, NEW p \in Procs, NEW c \in Commands, proc' = [proc EXCEPT ![p] = c],
           UNCHANGED <<secrets, session, live, old, started>>,
           lapses \cup Moved(p) \subseteq lapses', lapses' \subseteq Windows,
           rows' \in [Names -> Rows], lastId' \in Nat, lastId =< lastId',
           \A n \in Names : \/ rows'[n].id = rows[n].id
                            \/ rows[n].id = 0 /\ rows'[n].id > lastId
                            \/ /\ rows'[n].id = 0
                               /\ "late" \notin lapses' =>
                                    rows[n].id \notin secrets /\ \A q \in Procs : ~At(q, "keep"),
           OneCurrent', RowsInv', Routed(c), Fine(c)', Numbered(c), c.dirs \subseteq 0..lastId
    PROVE  ContextsInv'
<1>1. ASSUME NEW q \in Procs \ {p}
      PROVE  /\ LookingAt(proc[q]) => "switched" \in lapses'
             /\ ChoosingAt(proc[q]) => "overlap" \in lapses'
  BY DEF Moved, Hit, Looking, Choosing, LookingAt, ChoosingAt, Looks
<1>2. ASSUME NEW q \in Procs \ {p}, NEW d \in Commands, d = proc[q], Routed(d), Fine(d) PROVE Fine(d)'
  <2>1. (LookingAt(d) => "switched" \in lapses') /\ (ChoosingAt(d) => "overlap" \in lapses')
    BY <1>1, <1>2
  <2>2. Aimed(d)' /\ AsSeen(d)' /\ Chooses(d)' /\ Refreshes(d)'
    <3>1. session'.sid \in {0, session.sid}
      OBVIOUS
    <3> QED
      BY <1>2, <2>1, <3>1, AimedStays, AsSeenStays, ChoosesStays, RefreshesStays DEF Fine
  <2>3. Leaves(d)'
    BY <1>2, <2>1 DEF Leaves, Unexcused, ChoosingAt, Routed
  <2>4. d.at = "drop" => d.name \in Names
    BY <1>2 DEF Routed
  <2>5. \/ \A n \in Names : rows[n].id # 0 => rows'[n].id = rows[n].id
        \/ d.at = "keep" => "late" \in lapses'
    BY <1>2 DEF At
  <2>6. d.at = "drop" => \/ rows'[d.name].id = rows[d.name].id
                         \/ rows'[d.name].id \notin secrets
    BY <2>4, StateIs
  <2>7. Keeps(d)'
    BY <1>2, <2>4, <2>5, <2>6, StateIs, KeepsStays DEF Fine
  <2> QED
    BY <2>2, <2>3, <2>7 DEF Fine
<1>3. started' \in Nat /\ started =< started' /\ Numbered(c)'
  BY StateIs DEF Numbered
<1>4. c.dirs \subseteq 0..lastId'
  BY StateIs
<1>5. /\ CommandsInv' /\ proc' \in [Procs -> Commands]
      /\ \A q \in Procs : proc'[q].dirs \subseteq 0..lastId'
  BY <1>2, <1>3, <1>4, CommandsStep
<1>6. TokenIsOwn' /\ session' \in Sessions
  BY StateIs DEF TokenIsOwn, Unexcused
<1>7. SecretsHaveContext'
  <2>1. ASSUME "late" \notin lapses', NEW i \in secrets PROVE \E n \in Names : i = rows'[n].id
    <3>1. PICK n \in Names : rows[n].id = i
      BY <2>1, StateIs DEF SecretsHaveContext, Unexcused
    <3>2. i # 0
      BY StateIs
    <3>3. rows'[n].id = i
      BY <2>1, <3>1, <3>2
    <3> QED
      BY <3>3
  <2> QED
    BY <2>1 DEF SecretsHaveContext, Unexcused
<1>8. secrets' \subseteq 1..lastId' /\ live' \subseteq 1..started' /\ started' \in 1..MaxCommands
  BY StateIs
<1>9. old' \in [name : Names \cup {None}, cur : BOOLEAN]
  BY StateIs
<1> QED
  BY <1>5, <1>6, <1>7, <1>8, <1>9 DEF ContextsInv, ContextsTypeOK

-----------------------------------------------------------------------------
(* The steps that leave the database alone.                                *)

LEMMA Quietly ==
    ASSUME ContextsInv, NEW p \in Procs, NEW c \in Commands, Become(p, c),
           UNCHANGED <<rows, lastId, secrets, session, old, started, lapses>>, live' \subseteq 1..started,
           Routed(c), Fine(c), Numbered(c), c.dirs \subseteq 0..lastId, c.at # "set", ~At(p, "set")
    PROVE  ContextsInv'
<1>1. Numbered(c)'
  BY DEF Numbered
<1>2. started' \in 1..MaxCommands /\ started =< started' /\ live' \subseteq 1..started'
  BY StateIs
<1>3. lapses \subseteq lapses' /\ lapses' \subseteq Windows
  BY StateIs
<1>4. proc' = [proc EXCEPT ![p] = c]
  BY DEF Become
<1> QED
  BY <1>1, <1>2, <1>3, <1>4, QuietStep

LEMMA Ends ==
    ASSUME ContextsInv, NEW p \in Procs, End(p),
           UNCHANGED <<rows, lastId, secrets, session, old, started, lapses>>, live' \subseteq 1..started,
           ~At(p, "set")
    PROVE  ContextsInv'
<1>1. Become(p, Idle)
  BY DEF End, Become
<1>2. Idle.dirs \subseteq 0..lastId
  BY IdleIs
<1> QED
  BY <1>1, <1>2, IdleIs, IdleFine, Quietly

LEMMA Goes ==
    ASSUME ContextsInv, NEW p \in Procs, NEW s \in Steps, Goto(p, s),
           UNCHANGED <<rows, lastId, secrets, session, old, started, lapses>>, live' \subseteq 1..started,
           s \notin {"idle", "set"}, ~At(p, "set"), ~At(p, "idle"),
           \A d \in Commands : d.at = s /\ Along(proc[p], d) => Routed(d) /\ Fine(d)
    PROVE  ContextsInv'
<1>1. PICK c : c = proc[p]
  OBVIOUS
<1>2. c \in Commands /\ Numbered(c) /\ c.dirs \subseteq 0..lastId
  BY <1>1, CommandsAre
<1>3. PICK d : d = [c EXCEPT !.at = s]
  OBVIOUS
<1>4. d \in Commands /\ d.at = s /\ Along(c, d)
  BY <1>2, <1>3, GotoIs
<1>5. Become(p, d)
  <2>1. [proc[p] EXCEPT !.at = s] = d
    BY <1>1, <1>3
  <2>2. proc' = [proc EXCEPT ![p] = [proc[p] EXCEPT !.at = s]]
    BY DEF Goto
  <2> QED
    BY <2>1, <2>2 DEF Become
<1>6. Routed(d) /\ Fine(d)
  BY <1>1, <1>4
<1>7. Numbered(d) /\ d.dirs \subseteq 0..lastId
  BY <1>1, <1>2, <1>4 DEF Numbered, Along, At
<1> QED
  BY <1>4, <1>5, <1>6, <1>7, Quietly

LEMMA Begins ==
    ASSUME ContextsInv, NEW p \in Procs, NEW c \in Commands, Begin(p, c),
           c.op # "idle", c.meant = NoRow, c.dirs = {},
           c.op \in {"create", "use", "remove"} => c.name \in Names,
           c.op \in {"login", "useOrg"} => c.pick \in Orgs \cup (IF c.op = "login" THEN {None} ELSE {})
    PROVE  ContextsInv'
<1>1. PICK d : d = [c EXCEPT !.at = IF old.name = None THEN "prelude" ELSE "open",
                               !.no = IF c.op = "login" THEN started' ELSE 0]
  OBVIOUS
<1>2. /\ started' \in 1..MaxCommands /\ started' \in Nat /\ started =< started'
      /\ proc' = [proc EXCEPT ![p] = d] /\ proc[p] = Idle
      /\ UNCHANGED <<rows, lastId, secrets, session, live, old, lapses>>
  BY <1>1, StateIs DEF Begin, Become
<1>3. d \in Commands
  <2>1. PICK s : s = IF old.name = None THEN "prelude" ELSE "open"
    OBVIOUS
  <2>2. PICK k : k = IF c.op = "login" THEN started' ELSE 0
    OBVIOUS
  <2>3. s \in Steps /\ k \in Nat /\ d = [c EXCEPT !.at = s, !.no = k]
    BY <1>1, <1>2, <2>1, <2>2 DEF Steps
  <2> QED
    BY <2>3 DEF Commands
<1>4. /\ d.at \in {"prelude", "open"} /\ (d.op = "login" => d.no = started') /\ d.op = c.op /\ d.meant = NoRow
      /\ d.dirs = {} /\ d.name = c.name /\ d.pick = c.pick
  BY <1>1 DEF Commands
<1>5. Routed(d)
  BY <1>4 DEF Routed
<1>6. Fine(d)
  BY <1>4, Plain, NoRowIs
<1>7. Numbered(d)'
  BY <1>2, <1>4 DEF Numbered
<1>8. live' \subseteq 1..started' /\ lapses \subseteq lapses' /\ lapses' \subseteq Windows
  BY <1>2, StateIs
<1>9. ~At(p, "set") /\ d.at # "set" /\ d.dirs \subseteq 0..lastId
  BY <1>2, <1>4, IdleIs DEF At
<1>10. UNCHANGED <<rows, lastId, secrets, session, old>>
  BY <1>2
<1> QED
  BY <1>2, <1>3, <1>5, <1>6, <1>7, <1>8, <1>9, <1>10, QuietStep

LEMMA StartStep ==
    ASSUME ContextsInv, NEW p \in Procs, Start(p)
    PROVE  ContextsInv'
<1> USE IdleIs
<1> DEFINE AllOps == {"create", "use", "remove", "login", "logout", "unsetEnv", "work", "secret",
                      "useOrg", "useEnv", "deleteEnv"}
<1>a. AllOps \subseteq Ops
  BY DEF Ops, Looks
<1>1. ASSUME NEW n \in Names, NEW local \in BOOLEAN, NEW api \in Servers \cup {None},
             CreateContext(p, n, local, api)
      PROVE  ContextsInv'
  <2>1. PICK c : c = [Idle EXCEPT !.op = "create", !.name = n, !.local = local, !.api = api]
    OBVIOUS
  <2>2. /\ c \in Commands /\ c.op = "create" /\ c.name = n /\ c.meant = NoRow /\ c.dirs = {}
    BY <1>a, <2>1 DEF Commands
  <2> QED
    BY <1>1, <2>1, <2>2, Begins DEF CreateContext
<1>2. ASSUME NEW n \in Names, NEW op \in {"use", "remove"},
             Begin(p, [Idle EXCEPT !.op = op, !.name = n])
      PROVE  ContextsInv'
  <2>1. PICK c : c = [Idle EXCEPT !.op = op, !.name = n]
    OBVIOUS
  <2>2. /\ c \in Commands /\ c.op = op /\ c.name = n /\ c.meant = NoRow /\ c.dirs = {}
    BY <1>a, <2>1 DEF Commands
  <2> QED
    BY <1>2, <2>1, <2>2, Begins
<1>3. ASSUME NEW s \in Servers \cup {None}, NEW o \in Orgs \cup {None}, Login(p, s, o)
      PROVE  ContextsInv'
  <2>1. PICK c : c = [Idle EXCEPT !.op = "login", !.api = s, !.pick = o]
    OBVIOUS
  <2>2. /\ c \in Commands /\ c.op = "login" /\ c.pick = o /\ c.meant = NoRow /\ c.dirs = {}
    BY <1>a, <2>1 DEF Commands
  <2> QED
    BY <1>3, <2>1, <2>2, Begins DEF Login
<1>4. ASSUME NEW o \in Orgs, UseOrg(p, o)
      PROVE  ContextsInv'
  <2>1. PICK c : c = [Idle EXCEPT !.op = "useOrg", !.pick = o]
    OBVIOUS
  <2>2. /\ c \in Commands /\ c.op = "useOrg" /\ c.pick = o /\ c.meant = NoRow /\ c.dirs = {}
    BY <1>a, <2>1 DEF Commands
  <2> QED
    BY <1>4, <2>1, <2>2, Begins DEF UseOrg
<1>5. ASSUME NEW w \in Works, NEW o \in Orgs \cup {None}, NEW e \in BOOLEAN, Work(p, w, o, e)
      PROVE  ContextsInv'
  <2>1. PICK c : c = [Idle EXCEPT !.op = "work", !.remote = w.remote, !.scoped = w.scoped,
                                  !.left = w.lookups, !.forOrg = o, !.forEnv = e]
    OBVIOUS
  <2>2. /\ c \in Commands /\ c.op = "work" /\ c.meant = NoRow /\ c.dirs = {}
    BY <1>a, <2>1, WorksAre DEF Commands
  <2> QED
    BY <1>5, <2>1, <2>2, Begins DEF Work
<1>6. ASSUME NEW op \in {"logout", "unsetEnv"}, Begin(p, [Idle EXCEPT !.op = op])
      PROVE  ContextsInv'
  <2>1. PICK c : c = [Idle EXCEPT !.op = op]
    OBVIOUS
  <2>2. /\ c \in Commands /\ c.op = op /\ c.meant = NoRow /\ c.dirs = {}
    BY <1>a, <2>1 DEF Commands
  <2> QED
    BY <1>6, <2>1, <2>2, Begins
<1>7. ASSUME NEW op \in {"useEnv", "secret"}, NEW o \in Orgs \cup {None},
             Begin(p, [Idle EXCEPT !.op = op, !.forOrg = o])
      PROVE  ContextsInv'
  <2>1. PICK c : c = [Idle EXCEPT !.op = op, !.forOrg = o]
    OBVIOUS
  <2>2. /\ c \in Commands /\ c.op = op /\ c.meant = NoRow /\ c.dirs = {}
    BY <1>a, <2>1 DEF Commands
  <2> QED
    BY <1>7, <2>1, <2>2, Begins
<1>8. ASSUME NEW o \in Orgs \cup {None}, NEW e \in BOOLEAN, DeleteEnv(p, o, e)
      PROVE  ContextsInv'
  <2>1. PICK c : c = [Idle EXCEPT !.op = "deleteEnv", !.forOrg = o, !.forEnv = e]
    OBVIOUS
  <2>2. /\ c \in Commands /\ c.op = "deleteEnv" /\ c.meant = NoRow /\ c.dirs = {}
    BY <1>a, <2>1 DEF Commands
  <2> QED
    BY <1>8, <2>1, <2>2, Begins DEF DeleteEnv
<1> QED
  BY <1>1, <1>2, <1>3, <1>4, <1>5, <1>6, <1>7, <1>8
     DEF Start, Use, RemoveContext, Logout, UseEnv, UnsetEnv, Secret

LEMMA HasSeen ==
    ASSUME NEW c, Fine(c)
    PROVE  "switched" \in lapses \/ Scoped(c.meant, lapses)
BY DEF Fine, AsSeen, Unexcused

LEMMA HasSeenNext ==
    ASSUME NEW c, Fine(c), lapses \subseteq lapses'
    PROVE  "switched" \in lapses' \/ Scoped(c.meant, lapses')
BY HasSeen, ScopedStays

(* At these steps the only thing to show is what was looked at.            *)
LEMMA OnlySeen ==
    ASSUME NEW c, c.at \in {"mode", "env", "org", "send", "pick", "select", "dir", "done", "load"},
           Aimed(c), AsSeen(c)
    PROVE  Fine(c)
BY DEF Fine, Chooses, Leaves, Refreshes, Keeps

LEMMA FirstIs ==
    /\ First("create") = "exists" /\ First("use") = "unset" /\ First("remove") = "lookup"
    /\ First("login") = "login" /\ First("logout") = "logout" /\ First("unsetEnv") = "pick"
    /\ \A op \in Looks : First(op) = "mode"
<1>1. First("create") = "exists"
  BY DEF First
<1>2. First("use") = "unset"
  BY DEF First
<1>3. First("remove") = "lookup"
  BY DEF First
<1>4. First("login") = "login"
  BY DEF First
<1>5. First("logout") = "logout"
  BY DEF First
<1>6. First("unsetEnv") = "pick"
  BY DEF First
<1>7. ASSUME NEW op \in Looks PROVE First(op) = "mode"
  <2>1. op \notin {"create", "use", "remove", "login", "logout", "unsetEnv"}
    BY DEF Looks
  <2> QED
    BY <2>1 DEF First
<1> QED
  BY <1>1, <1>2, <1>3, <1>4, <1>5, <1>6, <1>7

LEMMA LoadOwnStep ==
    ASSUME ContextsInv, NEW p \in Procs, LoadOwn(p), At(p, "prelude") \/ At(p, "own"),
           UNCHANGED <<rows, lastId, secrets, session, live, old, started, lapses>>
    PROVE  ContextsInv'
<1>1. PICK c : c = proc[p]
  OBVIOUS
<1>2. /\ c \in Commands /\ Numbered(c) /\ Routed(c) /\ Fine(c) /\ c.at \in {"prelude", "own"}
  BY <1>1, CommandsAre DEF At
<1>3. PICK f : f = First(c.op)
  OBVIOUS
<1>4. /\ c.op \in Ops \ {"idle"} /\ (c.op = "login" => c.no \in 1..started) /\ c.dirs = {}
      /\ c.op \in {"create", "use", "remove"} => c.name \in Names
      /\ c.op \in {"login", "useOrg"} => c.pick \in Orgs \cup (IF c.op = "login" THEN {None} ELSE {})
  BY <1>2, CommandIs DEF Numbered, Routed
<1>5. /\ f \in Steps
      /\ \/ f = "exists" /\ c.op = "create"
         \/ f = "unset" /\ c.op = "use"
         \/ f = "lookup" /\ c.op = "remove"
         \/ f = "login" /\ c.op = "login"
         \/ f = "logout" /\ c.op = "logout"
         \/ f = "pick" /\ c.op = "unsetEnv"
         \/ f = "mode" /\ c.op \in Looks
  <2>1. c.op \in Looks \cup {"create", "use", "remove", "login", "logout", "unsetEnv"}
    BY <1>4 DEF Ops
  <2>2. c.op \in Looks => f = "mode"
    BY <1>3, FirstIs
  <2>3. /\ (c.op = "create" => f = "exists") /\ (c.op = "use" => f = "unset")
        /\ (c.op = "remove" => f = "lookup") /\ (c.op = "login" => f = "login")
        /\ (c.op = "logout" => f = "logout") /\ (c.op = "unsetEnv" => f = "pick")
    BY <1>3, FirstIs
  <2> QED
    BY <2>1, <2>2, <2>3 DEF Steps
<1>6. PICK i : i = Current.id
  OBVIOUS
<1>7. i \in Nat
  BY <1>6, CurrentIs, StateIs, RowIs
<1>8. PICK d : d = [c EXCEPT !.at = f, !.own = i]
  OBVIOUS
<1>9. /\ d \in Commands /\ d.at = f /\ d.own = i /\ d.op = c.op /\ d.no = c.no /\ d.dirs = {}
      /\ d.name = c.name /\ d.pick = c.pick /\ d.meant = c.meant /\ d.api = c.api
  BY <1>2, <1>4, <1>5, <1>7, <1>8 DEF Commands
<1>10. Become(p, d)
  BY <1>1, <1>3, <1>6, <1>8 DEF LoadOwn, Become
<1>11. Routed(d)
  BY <1>4, <1>5, <1>9 DEF Routed, Looks
<1>12. Numbered(d) /\ d.at # "set" /\ d.dirs \subseteq 0..lastId
  BY <1>4, <1>5, <1>9 DEF Numbered
<1>13. Fine(d)
  <2>1. CASE f = "mode"
    <3>1. Aimed(d)
      BY <2>1, <1>9 DEF Aimed, Authorizing, Scoping, Sent, Worked
    <3>2. AsSeen(d)
      BY <2>1, <1>2, <1>6, <1>9, HasSeen DEF AsSeen, Authorizing, Scoping, Sent, Worked, Unexcused
    <3> QED
      BY <3>1, <3>2, <2>1, <1>9, OnlySeen
  <2>2. CASE f # "mode"
    BY <2>2, <1>2, <1>5, <1>9, HasSeen, Plain
  <2> QED
    BY <2>1, <2>2
<1>14. ~At(p, "set") /\ live' \subseteq 1..started
  BY <1>1, <1>2, StateIs DEF At
<1> QED
  BY <1>9, <1>10, <1>11, <1>12, <1>13, <1>14, Quietly

LEMMA PreludeStep ==
    ASSUME ContextsInv, NEW p \in Procs, Prelude(p) \/ OwnSecrets(p)
    PROVE  ContextsInv'
<1>1. CASE LoadOwn(p) /\ (Prelude(p) \/ OwnSecrets(p))
  BY <1>1, LoadOwnStep DEF Prelude, OwnSecrets
<1>2. CASE Prelude(p) /\ Become(p, [proc[p] EXCEPT !.at = "early", !.sess = session])
  <2>1. PICK c : c = proc[p]
    OBVIOUS
  <2>2. c \in Commands /\ Numbered(c) /\ Routed(c) /\ Fine(c) /\ c.at = "prelude"
    BY <1>2, <2>1, CommandsAre DEF At, Prelude
  <2>3. PICK s : s = session
    OBVIOUS
  <2>4. PICK d : d = [c EXCEPT !.at = "early", !.sess = s]
    OBVIOUS
  <2>4a. s \in Sessions /\ "early" \in Steps
    BY <2>3, StateIs DEF Steps
  <2>5. /\ d \in Commands /\ d.at = "early" /\ d.sess = s /\ d.op = c.op /\ d.no = c.no
        /\ d.name = c.name /\ d.pick = c.pick /\ d.meant = c.meant /\ d.dirs = c.dirs
    BY <2>2, <2>4, <2>4a DEF Commands
  <2>6. Routed(d) /\ Numbered(d) /\ d.dirs \subseteq 0..lastId
    BY <2>2, <2>5 DEF Routed, Numbered
  <2>7. Fine(d)
    <3>1. Aimed(d)
      BY <2>5 DEF Aimed, Authorizing, Scoping, Sent, Worked
    <3>2. AsSeen(d)
      BY <2>2, <2>5, HasSeen DEF AsSeen, Authorizing, Scoping, Sent, Worked, Unexcused
    <3>3. Chooses(d) /\ Leaves(d) /\ Refreshes(d) /\ Keeps(d)
      BY <2>3, <2>5 DEF Chooses, Leaves, Refreshes, Keeps
    <3> QED
      BY <3>1, <3>2, <3>3 DEF Fine
  <2>8. Become(p, d) /\ ~At(p, "set") /\ live' \subseteq 1..started /\ d.at # "set"
    BY <1>2, <2>1, <2>2, <2>3, <2>4, <2>5, StateIs DEF At, Prelude
  <2>9. UNCHANGED <<rows, lastId, secrets, session, old, started, lapses>>
    BY <1>2 DEF Prelude
  <2> QED
    BY <2>5, <2>6, <2>7, <2>8, <2>9, Quietly
<1> QED
  BY <1>1, <1>2 DEF Prelude, OwnSecrets, Ensure

LEMMA CheckNameStep ==
    ASSUME ContextsInv, NEW p \in Procs, CheckName(p)
    PROVE  ContextsInv'
<1> DEFINE Unch == UNCHANGED <<rows, lastId, secrets, session, old, started, lapses>>
<1>1. Unch /\ live' \subseteq 1..started /\ ~At(p, "set") /\ ~At(p, "idle")
  BY StateIs DEF CheckName, At
<1>2. PICK c : c = proc[p]
  OBVIOUS
<1>3. c \in Commands /\ Numbered(c) /\ Routed(c) /\ Fine(c) /\ c.at = "exists"
  BY <1>2, CommandsAre DEF At, CheckName
<1>4. CASE AddFailed(p)
  <2>1. CASE c.op # "login"
    BY <2>1, <1>1, <1>2, <1>4, Ends DEF AddFailed
  <2>2. CASE c.op = "login"
    <3>1. ASSUME NEW d \in Commands, d.at = "remember", Along(c, d)
          PROVE  Routed(d) /\ Fine(d)
      <4>1. Routed(d)
        BY <3>1, <2>2, <1>3 DEF Routed, Along
      <4>2. Fine(d)
        BY <3>1, <1>3, HasSeen, Plain DEF Along
      <4> QED
        BY <4>1, <4>2
    <3>2. Goto(p, "remember") /\ "remember" \in Steps
      BY <2>2, <1>2, <1>4 DEF AddFailed, Steps
    <3> QED
      BY <3>1, <3>2, <1>1, <1>2, Goes
  <2> QED
    BY <2>1, <2>2
<1>5. CASE ~Exists(c.name) /\ ~AddFailed(p)
  <2>1. PICK f : f = (Registered = {})
    OBVIOUS
  <2>2. PICK s : s = IF Registered = {} THEN "clear" ELSE "insert"
    OBVIOUS
  <2>3. PICK d : d = [c EXCEPT !.first = f, !.at = s]
    OBVIOUS
  <2>4. s \in Steps /\ s \in {"clear", "insert"} /\ f \in BOOLEAN
    BY <2>1, <2>2 DEF Steps
  <2>5. /\ d \in Commands /\ d.at = s /\ d.first = f /\ d.op = c.op /\ d.no = c.no /\ d.api = c.api
        /\ d.name = c.name /\ d.pick = c.pick /\ d.meant = c.meant /\ d.dirs = c.dirs
    BY <1>3, <2>3, <2>4 DEF Commands
  <2>6. Routed(d) /\ Numbered(d) /\ d.dirs \subseteq 0..lastId
    BY <1>3, <2>1, <2>2, <2>4, <2>5 DEF Routed, Numbered
  <2>7. Fine(d)
    <3>1. Aimed(d)
      BY <2>4, <2>5 DEF Aimed, Authorizing, Scoping, Sent, Worked
    <3>2. AsSeen(d)
      BY <1>3, <2>4, <2>5, HasSeen DEF AsSeen, Authorizing, Scoping, Sent, Worked, Unexcused
    <3>3. Chooses(d)
      BY <2>1, <2>2, <2>5 DEF Chooses
    <3>4. Leaves(d) /\ Refreshes(d) /\ Keeps(d)
      BY <2>4, <2>5 DEF Leaves, Refreshes, Keeps
    <3> QED
      BY <3>1, <3>2, <3>3, <3>4 DEF Fine
  <2>8. Become(p, d)
    BY <1>2, <1>5, <2>1, <2>2, <2>3 DEF CheckName
  <2> QED
    BY <2>4, <2>5, <2>6, <2>7, <2>8, <1>1, Quietly
<1> QED
  BY <1>2, <1>4, <1>5 DEF CheckName

LEMMA LookupStep ==
    ASSUME ContextsInv, NEW p \in Procs, Lookup(p)
    PROVE  ContextsInv'
<1>1. /\ UNCHANGED <<rows, lastId, secrets, session, old, started, lapses>>
      /\ live' \subseteq 1..started /\ ~At(p, "set") /\ ~At(p, "idle")
  BY StateIs DEF Lookup, At
<1>2. PICK c : c = proc[p]
  OBVIOUS
<1>3. c \in Commands /\ Numbered(c) /\ Routed(c) /\ Fine(c) /\ c.at = "lookup"
  BY <1>2, CommandsAre DEF At, Lookup
<1>4. c.op = "remove" /\ c.name \in Names /\ c.dirs = {}
  BY <1>3 DEF Routed
<1>5. CASE End(p)
  BY <1>1, <1>5, Ends
<1>6. CASE /\ Exists(c.name) /\ Goto(p, "forget")
           /\ ~(Current = rows[c.name] /\ Others(c.name) # {})
  <2>1. ASSUME NEW d \in Commands, d.at = "forget", Along(c, d)
        PROVE  Routed(d) /\ Fine(d)
    <3>1. d.op = "remove" /\ d.name = c.name /\ d.dirs = {} /\ d.meant = c.meant
      BY <2>1, <1>4 DEF Along
    <3>2. Routed(d)
      BY <2>1, <3>1, <1>4 DEF Routed, Looks
    <3>3. Aimed(d)
      BY <2>1, <3>1 DEF Aimed, Authorizing, Scoping, Sent, Worked
    <3>4. AsSeen(d)
      BY <2>1, <3>1, <1>3, HasSeen DEF AsSeen, Authorizing, Scoping, Sent, Worked, Unexcused
    <3>5. Chooses(d) /\ Refreshes(d) /\ Keeps(d)
      BY <2>1 DEF Chooses, Refreshes, Keeps
    <3>6. Leaves(d)
      <4>1. SUFFICES ASSUME Unexcused({"overlap", "imported", "unknown", "torn"}),
                            \A q \in Procs : ~At(q, "set"), Others(c.name) # {}
                     PROVE  \E m \in Currents : m # c.name
        BY <3>1 DEF Leaves
      <4>2. Currents # {}
        BY <4>1, <1>4, <1>6, StateIs DEF OneCurrent, Registered
      <4>3. Current # rows[c.name]
        BY <4>1, <1>6
      <4>4. Oldest(Currents) \in Currents /\ Oldest(Currents) # c.name
        BY <4>2, <4>3, StateIs, CurrentIs
      <4> QED
        BY <4>4
    <3> QED
      BY <3>2, <3>3, <3>4, <3>5, <3>6 DEF Fine
  <2>2. "forget" \in Steps
    BY DEF Steps
  <2> QED
    BY <2>1, <2>2, <1>1, <1>2, <1>6, Goes
<1>7. CASE /\ Exists(c.name) /\ Others(c.name) # {}
           /\ Become(p, [proc[p] EXCEPT !.at = "unset", !.pick = Listed(c.name)])
  <2>1. PICK k : k = Listed(c.name)
    OBVIOUS
  <2>2. k \in Names \ {c.name}
    BY <2>1, <1>4, <1>7, ListedIn DEF Others, Registered
  <2>3. PICK d : d = [c EXCEPT !.at = "unset", !.pick = k]
    OBVIOUS
  <2>4. "unset" \in Steps
    BY DEF Steps
  <2>5. /\ d \in Commands /\ d.at = "unset" /\ d.pick = k /\ d.op = c.op /\ d.no = c.no
        /\ d.name = c.name /\ d.meant = c.meant /\ d.dirs = c.dirs
    BY <1>3, <2>2, <2>3, <2>4 DEF Commands
  <2>6. Routed(d) /\ Numbered(d) /\ d.dirs \subseteq 0..lastId /\ d.at # "set"
    BY <1>3, <1>4, <2>2, <2>5 DEF Routed, Numbered, Looks
  <2>7. Fine(d)
    BY <1>3, <2>5, HasSeen, Plain
  <2>8. Become(p, d)
    BY <1>2, <1>7, <2>1, <2>3
  <2> QED
    BY <1>1, <2>5, <2>6, <2>7, <2>8, Quietly
<1> QED
  BY <1>2, <1>5, <1>6, <1>7 DEF Lookup

LEMMA PerformLoginStep ==
    ASSUME ContextsInv, NEW p \in Procs, PerformLogin(p)
    PROVE  ContextsInv'
<1>1. /\ UNCHANGED <<rows, lastId, secrets, session, old, started, lapses>> /\ ~At(p, "set")
  BY DEF PerformLogin, At
<1>2. PICK c : c = proc[p]
  OBVIOUS
<1>3. c \in Commands /\ Numbered(c) /\ Routed(c) /\ Fine(c) /\ c.at = "login"
  BY <1>2, CommandsAre DEF At, PerformLogin
<1>4. PICK api : api = IF c.api # None THEN c.api ELSE Current.api
  OBVIOUS
<1>5. CASE End(p) /\ UNCHANGED live
  BY <1>1, <1>5, Ends, StateIs
<1>6. CASE /\ api # None /\ live' = live \cup {proc[p].no}
           /\ Become(p, [proc[p] EXCEPT !.at = "save", !.api = api,
                  !.sess = [sid |-> proc[p].no, api |-> api, token |-> proc[p].no, fresh |-> TRUE]])
  <2>1. api \in Servers
    BY <1>3, <1>4, <1>6, CommandIs, CurrentIs, StateIs, RowIs
  <2>2. c.no \in 1..started /\ c.no \in Nat /\ c.op = "login" /\ c.dirs = {}
    BY <1>3, CommandIs DEF Numbered, Routed
  <2>3. PICK s : s = [sid |-> c.no, api |-> api, token |-> c.no, fresh |-> TRUE]
    OBVIOUS
  <2>4. s \in Sessions /\ s.token = s.sid
    BY <2>1, <2>2, <2>3 DEF Sessions
  <2>5. PICK d : d = [c EXCEPT !.at = "save", !.api = api, !.sess = s]
    OBVIOUS
  <2>6. "save" \in Steps
    BY DEF Steps
  <2>7. /\ d \in Commands /\ d.at = "save" /\ d.pick = c.pick /\ d.op = c.op /\ d.no = c.no
        /\ d.name = c.name /\ d.meant = c.meant /\ d.dirs = c.dirs /\ d.sess = s /\ d.api = api
    BY <1>3, <2>1, <2>4, <2>5, <2>6 DEF Commands
  <2>8. Routed(d) /\ Numbered(d) /\ d.dirs \subseteq 0..lastId /\ d.at # "set"
    BY <1>3, <2>1, <2>2, <2>4, <2>7 DEF Routed, Numbered, Looks
  <2>9. Fine(d)
    BY <1>3, <2>7, HasSeen, Plain
  <2>10. Become(p, d) /\ live' \subseteq 1..started
    BY <1>2, <1>6, <2>2, <2>3, <2>5, StateIs
  <2> QED
    BY <1>1, <2>7, <2>8, <2>9, <2>10, Quietly
<1> QED
  BY <1>2, <1>4, <1>5, <1>6 DEF PerformLogin

LEMMA RegisterStep ==
    ASSUME ContextsInv, NEW p \in Procs, Register(p)
    PROVE  ContextsInv'
<1>1. /\ UNCHANGED <<rows, lastId, secrets, session, old, started, lapses>>
      /\ live' \subseteq 1..started /\ ~At(p, "set") /\ ~At(p, "idle")
  BY StateIs DEF Register, At
<1>2. PICK c : c = proc[p]
  OBVIOUS
<1>3. c \in Commands /\ Numbered(c) /\ Routed(c) /\ Fine(c) /\ c.at = "register"
  BY <1>2, CommandsAre DEF At, Register
<1>4. c.op = "login" /\ c.api \in Servers /\ c.dirs = {}
  BY <1>3 DEF Routed
<1>5. CASE Goto(p, "remember")
  <2>1. ASSUME NEW d \in Commands, d.at = "remember", Along(c, d)
        PROVE  Routed(d) /\ Fine(d)
    <3>1. Routed(d)
      BY <2>1, <1>3, <1>4 DEF Routed, Along
    <3>2. Fine(d)
      BY <2>1, <1>3, HasSeen, Plain DEF Along
    <3> QED
      BY <3>1, <3>2
  <2>2. "remember" \in Steps
    BY DEF Steps
  <2> QED
    BY <2>1, <2>2, <1>1, <1>2, <1>5, Goes
<1>6. ASSUME NEW n \in Names \ Registered,
             Become(p, [proc[p] EXCEPT !.at = "exists", !.name = n, !.had = (Registered # {})])
      PROVE  ContextsInv'
  <2>1. PICK h : h = (Registered # {})
    OBVIOUS
  <2>2. PICK d : d = [c EXCEPT !.at = "exists", !.name = n, !.had = h]
    OBVIOUS
  <2>3. "exists" \in Steps /\ h \in BOOLEAN
    BY <2>1 DEF Steps
  <2>4. /\ d \in Commands /\ d.at = "exists" /\ d.pick = c.pick /\ d.op = c.op /\ d.no = c.no
        /\ d.name = n /\ d.meant = c.meant /\ d.dirs = c.dirs /\ d.api = c.api
    BY <1>3, <2>2, <2>3 DEF Commands
  <2>5. Routed(d) /\ Numbered(d) /\ d.dirs \subseteq 0..lastId /\ d.at # "set"
    BY <1>3, <1>4, <2>4 DEF Routed, Numbered, Looks
  <2>6. Fine(d)
    BY <1>3, <2>4, HasSeen, Plain
  <2>7. Become(p, d)
    BY <1>2, <1>6, <2>1, <2>2
  <2> QED
    BY <1>1, <2>4, <2>5, <2>6, <2>7, Quietly
<1> QED
  BY <1>5, <1>6 DEF Register

LEMMA LogoutStep ==
    ASSUME ContextsInv, NEW p \in Procs, StartLogout(p) \/ RevokeSession(p)
    PROVE  ContextsInv'
<1>1. /\ UNCHANGED <<rows, lastId, secrets, session, old, started, lapses>>
      /\ live' \subseteq 1..started /\ ~At(p, "set") /\ ~At(p, "idle")
  BY StateIs DEF StartLogout, RevokeSession, At
<1>2. PICK c : c = proc[p]
  OBVIOUS
<1>3. c \in Commands /\ Numbered(c) /\ Routed(c) /\ Fine(c) /\ c.at \in {"logout", "revoke"}
  BY <1>2, CommandsAre DEF At, StartLogout, RevokeSession
<1>4. CASE End(p)
  BY <1>1, <1>4, Ends
<1>5. CASE Goto(p, "clearSession")
  <2>1. ASSUME NEW d \in Commands, d.at = "clearSession", Along(c, d)
        PROVE  Routed(d) /\ Fine(d)
    <3>1. Routed(d)
      BY <2>1, <1>3 DEF Routed, Along
    <3>2. Fine(d)
      BY <2>1, <1>3, HasSeen, Plain DEF Along
    <3> QED
      BY <3>1, <3>2
  <2>2. "clearSession" \in Steps
    BY DEF Steps
  <2> QED
    BY <2>1, <2>2, <1>1, <1>2, <1>5, Goes
<1>6. CASE Become(p, [proc[p] EXCEPT !.at = "revoke", !.sess = session])
  <2>1. PICK s : s = session
    OBVIOUS
  <2>2. PICK d : d = [c EXCEPT !.at = "revoke", !.sess = s]
    OBVIOUS
  <2>3. "revoke" \in Steps /\ s \in Sessions
    BY <2>1, StateIs DEF Steps
  <2>4. /\ d \in Commands /\ d.at = "revoke" /\ d.pick = c.pick /\ d.op = c.op /\ d.no = c.no
        /\ d.name = c.name /\ d.meant = c.meant /\ d.dirs = c.dirs /\ d.api = c.api
    BY <1>3, <2>2, <2>3 DEF Commands
  <2>5. Routed(d) /\ Numbered(d) /\ d.dirs \subseteq 0..lastId /\ d.at # "set"
    BY <1>3, <2>4 DEF Routed, Numbered
  <2>6. Fine(d)
    BY <1>3, <2>4, HasSeen, Plain
  <2>7. Become(p, d)
    BY <1>2, <1>6, <2>1, <2>2
  <2> QED
    BY <1>1, <2>4, <2>5, <2>6, <2>7, Quietly
<1> QED
  BY <1>4, <1>5, <1>6 DEF StartLogout, RevokeSession

(* What a command of mode, or beyond, has of the context it looks at.      *)
LEMMA UseClusterModeStep ==
    ASSUME ContextsInv, NEW p \in Procs, UseClusterMode(p)
    PROVE  ContextsInv'
<1>1. /\ UNCHANGED <<rows, lastId, secrets, session, old, started, lapses>>
      /\ live' \subseteq 1..started /\ ~At(p, "set") /\ ~At(p, "idle")
  BY StateIs DEF UseClusterMode, At
<1>2. PICK c : c = proc[p]
  OBVIOUS
<1>3. c \in Commands /\ Numbered(c) /\ Routed(c) /\ Fine(c) /\ c.at = "mode"
  BY <1>2, CommandsAre DEF At, UseClusterMode
<1>4. c.op \in Looks /\ c.dirs = {}
  BY <1>3 DEF Routed
<1>5. PICK m : m = Current
  OBVIOUS
<1>6. m \in Rows /\ ("switched" \in lapses \/ Scoped(m, lapses))
  BY <1>5, StateIs, CurrentIs, NoRowIs DEF RowsInv, Unexcused, Currents
<1>7. CASE End(p)
  BY <1>1, <1>7, Ends
<1>8. ASSUME NEW s \in {"load", "target", "dir"},
             Become(p, [[proc[p] EXCEPT !.meant = Current] EXCEPT !.at = s]),
             s = "load" => m.api # None,
             s = "dir" => c.left > 0 /\ m.api = None
      PROVE  ContextsInv'
  <2>1. PICK e : e = [c EXCEPT !.meant = m]
    OBVIOUS
  <2>2. PICK d : d = [e EXCEPT !.at = s]
    OBVIOUS
  <2>3. e \in Commands /\ e.meant = m /\ e.op = c.op /\ e.no = c.no /\ e.dirs = {} /\ e.own = c.own
        /\ e.name = c.name /\ e.pick = c.pick /\ e.left = c.left
    BY <1>3, <1>4, <1>6, <2>1 DEF Commands
  <2>4. s \in Steps
    BY DEF Steps
  <2>5. d \in Commands /\ d.at = s /\ Along(e, d)
    BY <2>2, <2>3, <2>4, GotoIs
  <2>6. d.meant = m /\ d.op = c.op /\ d.no = c.no /\ d.dirs = {} /\ d.own = c.own
        /\ d.name = c.name /\ d.pick = c.pick /\ d.left = c.left
    BY <2>3, <2>5 DEF Along
  <2>7. Routed(d)
    BY <1>3, <1>4, <1>8, <2>5, <2>6 DEF Routed, Looks
  <2>8. Numbered(d) /\ d.dirs \subseteq 0..lastId /\ d.at # "set"
    BY <1>3, <2>5, <2>6 DEF Numbered
  <2>9. Fine(d)
    <3>1. CASE s = "target"
      BY <3>1, <1>6, <2>5, <2>6, Plain
    <3>2. CASE s # "target"
      <4>1. s \in {"load", "dir"} /\ m.api \in Servers \cup {None}
        BY <3>2, <1>6, RowIs
      <4>2. Aimed(d)
        BY <4>1, <1>8, <2>5, <2>6 DEF Aimed, Authorizing, Scoping, Sent, Worked
      <4>3. Unexcused({"switched"}) => c.own = Current.id
        BY <1>3 DEF Fine, AsSeen
      <4>4. AsSeen(d)
        BY <4>1, <4>3, <1>5, <1>6, <2>5, <2>6
           DEF AsSeen, Authorizing, Scoping, Sent, Worked, Unexcused
      <4> QED
        BY <4>1, <4>2, <4>4, <2>5, OnlySeen
    <3> QED
      BY <3>1, <3>2
  <2>10. Become(p, d)
    BY <1>2, <1>5, <1>8, <2>1, <2>2
  <2> QED
    BY <1>1, <2>5, <2>7, <2>8, <2>9, <2>10, Quietly
<1>9. PICK e : e = [proc[p] EXCEPT !.meant = Current]
  OBVIOUS
<1>10. e.op = c.op /\ e.left = c.left
  BY <1>2, <1>3, <1>9 DEF Commands
<1>11. CASE Current.api # None /\ Become(p, [e EXCEPT !.at = "load"])
  BY <1>5, <1>8, <1>9, <1>11
<1>12. CASE /\ Current.api = None /\ LocalStep(e) # "refused"
            /\ Become(p, [e EXCEPT !.at = LocalStep(e)])
  <2>1. PICK s : s = LocalStep(e)
    OBVIOUS
  <2>2. s \in {"target", "dir"} /\ (s = "dir" => c.left > 0)
    BY <2>1, <1>10, <1>12 DEF LocalStep
  <2> QED
    BY <2>1, <2>2, <1>5, <1>8, <1>9, <1>12
<1> QED
  BY <1>7, <1>9, <1>11, <1>12 DEF UseClusterMode

(* The mode comes to the server only with a session for it.                *)
LEMMA AuthorizedIs ==
    ASSUME ContextsInv, NEW p \in Procs, NEW c, c = proc[p], c.at \in {"load", "token"},
           NEW s \in Sessions, Authorized(p, s), Unexcused({"relogged"}) => s.token = s.sid
    PROVE  \/ End(p)
           \/ \E d \in Commands : /\ Become(p, d) /\ d.at = "env" /\ Routed(d) /\ Numbered(d) /\ Fine(d)
                                  /\ d.dirs = {}
<1>1. c \in Commands /\ Numbered(c) /\ Routed(c) /\ Fine(c)
  BY CommandsAre
<1>2. c.op \in Looks /\ c.dirs = {}
  BY <1>1 DEF Routed
<1>3. CASE s.sid # 0 /\ s.api = c.meant.api /\ ~End(p)
  <2>1. PICK d : d = [c EXCEPT !.at = "env", !.sess = s, !.left = 0]
    OBVIOUS
  <2>2. "env" \in Steps
    BY DEF Steps
  <2>3. /\ d \in Commands /\ d.at = "env" /\ d.sess = s /\ d.op = c.op /\ d.no = c.no /\ d.name = c.name
        /\ d.pick = c.pick /\ d.meant = c.meant /\ d.dirs = c.dirs /\ d.own = c.own
    BY <1>1, <2>1, <2>2 DEF Commands
  <2>4. Routed(d) /\ Numbered(d)
    BY <1>1, <1>2, <2>3 DEF Routed, Numbered, Looks
  <2>5. c.meant.api \in Servers
    BY <1>1 DEF Fine, Aimed, Authorizing
  <2>6. Aimed(d)
    BY <1>3, <2>3, <2>5 DEF Aimed, Authorizing, Scoping, Sent, Worked
  <2>7. Unexcused({"switched"}) => Scoped(c.meant, lapses) /\ c.meant = Current /\ c.own = Current.id
    BY <1>1 DEF Fine, AsSeen, Authorizing
  <2>8. AsSeen(d)
    BY <2>3, <2>7 DEF AsSeen, Authorizing, Scoping, Sent, Worked
  <2>9. Fine(d)
    BY <2>3, <2>6, <2>8, OnlySeen
  <2>10. Become(p, d)
    BY <1>3, <2>1 DEF Authorized
  <2> QED
    BY <1>2, <2>3, <2>4, <2>9, <2>10
<1> QED
  BY <1>3 DEF Authorized

LEMMA LoadSessionStep ==
    ASSUME ContextsInv, NEW p \in Procs, LoadSession(p)
    PROVE  ContextsInv'
<1>1. /\ UNCHANGED <<rows, lastId, secrets, session, old, started, lapses>>
      /\ live' \subseteq 1..started /\ ~At(p, "set") /\ ~At(p, "idle")
  BY StateIs DEF LoadSession, At
<1>2. PICK c : c = proc[p]
  OBVIOUS
<1>3. c \in Commands /\ Numbered(c) /\ Routed(c) /\ Fine(c) /\ c.at = "load"
  BY <1>2, CommandsAre DEF At, LoadSession
<1>4. c.op \in Looks /\ c.dirs = {}
  BY <1>3 DEF Routed
<1>5. CASE End(p)
  BY <1>1, <1>5, Ends
<1>6. CASE Authorized(p, session) /\ ~End(p)
  <2>1. session \in Sessions /\ (Unexcused({"relogged"}) => session.token = session.sid)
    BY StateIs DEF TokenIsOwn
  <2>2. PICK d \in Commands : /\ Become(p, d) /\ d.at = "env" /\ Routed(d) /\ Numbered(d) /\ Fine(d)
                              /\ d.dirs = {}
    BY <1>2, <1>3, <1>6, <2>1, AuthorizedIs
  <2>3. d.dirs \subseteq 0..lastId /\ d.at # "set"
    BY <2>2
  <2> QED
    BY <1>1, <2>2, <2>3, Quietly
<1>7. CASE Become(p, [proc[p] EXCEPT !.at = "token", !.sess = session])
  <2>1. PICK s : s = session
    OBVIOUS
  <2>2. PICK d : d = [c EXCEPT !.at = "token", !.sess = s]
    OBVIOUS
  <2>3. "token" \in Steps /\ s \in Sessions
    BY <2>1, StateIs DEF Steps
  <2>4. /\ d \in Commands /\ d.at = "token" /\ d.pick = c.pick /\ d.op = c.op /\ d.no = c.no /\ d.own = c.own
        /\ d.name = c.name /\ d.meant = c.meant /\ d.dirs = c.dirs /\ d.api = c.api /\ d.sess = s
    BY <1>3, <2>2, <2>3 DEF Commands
  <2>5. Routed(d) /\ Numbered(d) /\ d.dirs \subseteq 0..lastId /\ d.at # "set"
    BY <1>3, <1>4, <2>4 DEF Routed, Numbered, Looks
  <2>6. Fine(d)
    <3>1. Aimed(d)
      BY <1>3, <2>4 DEF Fine, Aimed, Authorizing, Scoping, Sent, Worked
    <3>2. AsSeen(d)
      BY <1>3, <2>4 DEF Fine, AsSeen, Authorizing, Scoping, Sent, Worked
    <3>3. Chooses(d) /\ Leaves(d) /\ Refreshes(d) /\ Keeps(d)
      BY <2>1, <2>4 DEF Chooses, Leaves, Refreshes, Keeps
    <3> QED
      BY <3>1, <3>2, <3>3 DEF Fine
  <2>7. Become(p, d)
    BY <1>2, <1>7, <2>1, <2>2
  <2> QED
    BY <1>1, <2>4, <2>5, <2>6, <2>7, Quietly
<1> QED
  BY <1>5, <1>6, <1>7 DEF LoadSession, Ensure

(* NewAPIClient reads the context twice: it is still the one of the mode.  *)
LEMMA ScopeStep ==
    ASSUME ContextsInv, NEW p \in Procs,
           SelectedServerEnvironment(p) \/ SelectedServerOrganization(p)
    PROVE  ContextsInv'
<1>1. /\ UNCHANGED <<rows, lastId, secrets, session, old, started, lapses>>
      /\ live' \subseteq 1..started /\ ~At(p, "set") /\ ~At(p, "idle")
  BY StateIs DEF SelectedServerEnvironment, SelectedServerOrganization, At
<1>2. PICK c : c = proc[p]
  OBVIOUS
<1>3. c \in Commands /\ Numbered(c) /\ Routed(c) /\ Fine(c) /\ c.at \in {"env", "org"}
  BY <1>2, CommandsAre DEF At, SelectedServerEnvironment, SelectedServerOrganization
<1>4. c.op \in Looks /\ c.dirs = {} /\ Scoping(c) /\ c.sess.api = c.meant.api
  BY <1>3 DEF Routed, Scoping, Fine, Aimed
<1>5. Current \in Rows /\ c.sess.api \in Servers
  BY <1>3, <1>4, StateIs, CurrentIs DEF Fine, Aimed
<1>6. /\ Unexcused({"switched"}) => Scoped(c.meant, lapses) /\ c.meant = Current /\ c.own = Current.id
      /\ Unexcused({"switched"}) /\ c.at = "org" => c.env = EnvFor(c)
  BY <1>3, <1>4 DEF Fine, AsSeen
<1>7. CASE SelectedServerEnvironment(p)
  <2>1. PICK v : v = IF ~proc[p].forEnv /\ Current.api = proc[p].sess.api
                     THEN Current.env ELSE None
    OBVIOUS
  <2>2. PICK d : d = [c EXCEPT !.at = "org", !.env = v]
    OBVIOUS
  <2>3. v \in EnvSel /\ "org" \in Steps
    BY <1>5, <2>1, RowIs DEF EnvSel, Steps
  <2>4. /\ d \in Commands /\ d.at = "org" /\ d.env = v /\ d.pick = c.pick /\ d.op = c.op /\ d.no = c.no
        /\ d.own = c.own /\ d.name = c.name /\ d.meant = c.meant /\ d.dirs = c.dirs /\ d.sess = c.sess
        /\ d.forEnv = c.forEnv
    BY <1>3, <2>2, <2>3 DEF Commands
  <2>5. Routed(d) /\ Numbered(d) /\ d.dirs \subseteq 0..lastId /\ d.at # "set"
    BY <1>3, <1>4, <2>4 DEF Routed, Numbered, Looks
  <2>6. Aimed(d)
    BY <1>3, <1>4, <2>4 DEF Fine, Aimed, Authorizing, Scoping, Sent, Worked
  <2>7. Unexcused({"switched"}) => v = EnvFor(d)
    BY <1>2, <1>4, <1>6, <2>1, <2>4 DEF EnvFor
  <2>8. AsSeen(d)
    BY <1>6, <2>4, <2>7 DEF AsSeen, Authorizing, Scoping, Sent, Worked
  <2>9. Become(p, d)
    BY <1>2, <1>7, <2>1, <2>2 DEF SelectedServerEnvironment
  <2> QED
    BY <1>1, <2>4, <2>5, <2>6, <2>8, <2>9, OnlySeen, Quietly
<1>8. CASE SelectedServerOrganization(p)
  <2>1. PICK v : v = IF proc[p].forOrg # None THEN <<proc[p].sess.api, proc[p].forOrg>>
                     ELSE IF Current.api = proc[p].sess.api THEN Current.org ELSE None
    OBVIOUS
  <2>2. PICK d : d = [c EXCEPT !.at = "send", !.org = v]
    OBVIOUS
  <2>3. v \in OrgSel /\ "send" \in Steps /\ c.at = "org"
    <3>1. c.forOrg \in Orgs \cup {None} /\ Current.org \in OrgSel
      BY <1>3, <1>5, CommandIs, RowIs
    <3>2. v \in OrgSel
      BY <1>2, <1>5, <2>1, <3>1 DEF OrgSel
    <3> QED
      BY <1>2, <1>8, <3>2 DEF Steps, SelectedServerOrganization, At
  <2>4. /\ d \in Commands /\ d.at = "send" /\ d.org = v /\ d.pick = c.pick /\ d.op = c.op /\ d.no = c.no
        /\ d.own = c.own /\ d.name = c.name /\ d.meant = c.meant /\ d.dirs = c.dirs /\ d.sess = c.sess
        /\ d.env = c.env /\ d.forOrg = c.forOrg /\ d.forEnv = c.forEnv
    BY <1>3, <2>2, <2>3 DEF Commands
  <2>5. Routed(d) /\ Numbered(d) /\ d.dirs \subseteq 0..lastId /\ d.at # "set"
    BY <1>3, <1>4, <2>4 DEF Routed, Numbered, Looks
  <2>6. Aimed(d)
    BY <1>3, <1>4, <2>4 DEF Fine, Aimed, Authorizing, Scoping, Sent, Worked
  <2>7. /\ Unexcused({"switched"}) => v = OrgFor(d)
        /\ EnvFor(d) = EnvFor(c)
    BY <1>2, <1>4, <1>6, <2>1, <2>4 DEF OrgFor, EnvFor
  <2>8. AsSeen(d)
    BY <1>6, <2>3, <2>4, <2>7 DEF AsSeen, Authorizing, Scoping, Sent, Worked
  <2>9. Become(p, d)
    BY <1>2, <1>8, <2>1, <2>2 DEF SelectedServerOrganization
  <2> QED
    BY <1>1, <2>4, <2>5, <2>6, <2>8, <2>9, OnlySeen, Quietly
<1> QED
  BY <1>7, <1>8

LEMMA SendStep ==
    ASSUME ContextsInv, NEW p \in Procs, Send(p)
    PROVE  ContextsInv'
<1>1. /\ UNCHANGED <<rows, lastId, secrets, session, old, started, lapses>>
      /\ live' \subseteq 1..started /\ ~At(p, "set") /\ ~At(p, "idle")
  BY StateIs DEF Send, At
<1>2. PICK c : c = proc[p]
  OBVIOUS
<1>3. c \in Commands /\ Numbered(c) /\ Routed(c) /\ Fine(c) /\ c.at = "send"
  BY <1>2, CommandsAre DEF At, Send
<1>4. c.op \in Looks /\ c.dirs = {} /\ Scoping(c)
  BY <1>3 DEF Routed, Scoping
<1>5. /\ c.meant.api \in Servers /\ c.sess.api = c.meant.api
      /\ Unexcused({"relogged"}) => c.sess.token = c.sess.sid
      /\ Unexcused({"switched"}) => /\ Scoped(c.meant, lapses) /\ c.meant = Current /\ c.own = Current.id
                                    /\ c.env = EnvFor(c) /\ c.org = OrgFor(c)
  BY <1>3, <1>4 DEF Fine, Aimed, AsSeen
<1>6. CASE End(p)
  BY <1>1, <1>6, Ends
<1>7. CASE Become(p, [proc[p] EXCEPT !.at = "done", !.env = EnvPath(proc[p])])
  <2>1. PICK v : v = EnvPath(c)
    OBVIOUS
  <2>2. PICK d : d = [c EXCEPT !.at = "done", !.env = v]
    OBVIOUS
  <2>3. v \in EnvSel /\ "done" \in Steps
    BY <1>3, <2>1, CommandIs DEF EnvPath, EnvSel, Steps
  <2>4. /\ d \in Commands /\ d.at = "done" /\ d.env = v /\ d.pick = c.pick /\ d.op = c.op /\ d.no = c.no
        /\ d.own = c.own /\ d.name = c.name /\ d.meant = c.meant /\ d.dirs = c.dirs /\ d.sess = c.sess
        /\ d.org = c.org /\ d.scoped = c.scoped /\ d.forOrg = c.forOrg /\ d.forEnv = c.forEnv
    BY <1>3, <2>2, <2>3 DEF Commands
  <2>5. Routed(d) /\ Numbered(d) /\ d.dirs \subseteq 0..lastId /\ d.at # "set"
    BY <1>3, <1>4, <2>4 DEF Routed, Numbered, Looks
  <2>6. ~Authorizing(d) /\ ~Scoping(d) /\ ~Worked(d) /\ Sent(d)
    BY <1>4, <2>4 DEF Authorizing, Scoping, Sent, Worked
  <2>7. Aimed(d)
    BY <1>5, <2>4, <2>6 DEF Aimed
  <2>7a. OrgFor(d) = OrgFor(c) /\ EnvFor(d) = EnvFor(c)
    BY <2>4 DEF OrgFor, EnvFor
  <2>8. Unexcused({"switched"}) => v = EnvPath([d EXCEPT !.env = EnvFor(d)])
    <3>1. PICK e : e = [d EXCEPT !.env = EnvFor(d)]
      OBVIOUS
    <3>2. e.op = c.op /\ e.scoped = c.scoped /\ e.env = EnvFor(c)
      BY <2>4, <2>7a, <3>1 DEF Commands
    <3>3. Unexcused({"switched"}) => EnvPath(e) = EnvPath(c)
      BY <1>5, <3>2 DEF EnvPath
    <3> QED
      BY <2>1, <3>1, <3>3
  <2>9. AsSeen(d)
    BY <1>5, <2>4, <2>6, <2>7a, <2>8 DEF AsSeen
  <2>10. Become(p, d)
    BY <1>2, <1>7, <2>1, <2>2
  <2> QED
    BY <1>1, <2>4, <2>5, <2>7, <2>9, <2>10, OnlySeen, Quietly
<1>8. CASE Goto(p, "pick") /\ c.op \in {"useOrg", "useEnv", "deleteEnv"}
  <2>1. ASSUME NEW d \in Commands, d.at = "pick", Along(c, d)
        PROVE  Routed(d) /\ Fine(d)
    <3>1. /\ d.pick = c.pick /\ d.op = c.op /\ d.no = c.no /\ d.env = c.env
          /\ d.own = c.own /\ d.name = c.name /\ d.meant = c.meant /\ d.dirs = {} /\ d.sess = c.sess
          /\ d.org = c.org /\ OrgFor(d) = OrgFor(c) /\ EnvFor(d) = EnvFor(c)
      BY <1>4, <2>1 DEF Along, OrgFor, EnvFor
    <3>2. Routed(d)
      BY <1>3, <1>8, <2>1, <3>1 DEF Routed, Looks
    <3>3. ~Authorizing(d) /\ ~Worked(d) /\ ~Sent(d)
      BY <2>1 DEF Authorizing, Sent, Worked
    <3>4. Aimed(d)
      BY <1>5, <2>1, <3>1, <3>3 DEF Aimed
    <3>5. AsSeen(d)
      BY <1>5, <2>1, <3>1, <3>3 DEF AsSeen
    <3> QED
      BY <2>1, <3>2, <3>4, <3>5, OnlySeen
  <2>2. "pick" \in Steps
    BY DEF Steps
  <2> QED
    BY <1>1, <1>2, <1>8, <2>1, <2>2, Goes
<1> QED
  BY <1>2, <1>6, <1>7, <1>8 DEF Send

LEMMA PickStep ==
    ASSUME ContextsInv, NEW p \in Procs, Pick(p)
    PROVE  ContextsInv'
<1>1. /\ UNCHANGED <<rows, lastId, secrets, session, old, started, lapses>>
      /\ live' \subseteq 1..started /\ ~At(p, "set") /\ ~At(p, "idle")
  BY StateIs DEF Pick, At
<1>2. PICK c : c = proc[p]
  OBVIOUS
<1>3. c \in Commands /\ Numbered(c) /\ Routed(c) /\ Fine(c) /\ c.at = "pick"
  BY <1>2, CommandsAre DEF At, Pick
<1>4. c.op \in {"useOrg", "useEnv", "unsetEnv", "deleteEnv"} /\ c.dirs = {}
  BY <1>3 DEF Routed
<1>5. CASE End(p)
  BY <1>1, <1>5, Ends
<1>6. CASE Current.api # None /\ Become(p, [proc[p] EXCEPT !.at = "select", !.name = Oldest(Currents)])
  <2>1. PICK n : n = Oldest(Currents)
    OBVIOUS
  <2>2. n \in Names /\ Current = rows[n]
    <3>1. Currents # {}
      BY <1>6, StateIs, CurrentIs, NoRowIs
    <3> QED
      BY <2>1, <3>1, StateIs, CurrentIs DEF Currents
  <2>3. PICK d : d = [c EXCEPT !.at = "select", !.name = n]
    OBVIOUS
  <2>4. "select" \in Steps
    BY DEF Steps
  <2>5. /\ d \in Commands /\ d.at = "select" /\ d.env = c.env /\ d.pick = c.pick /\ d.op = c.op
        /\ d.no = c.no /\ d.own = c.own /\ d.name = n /\ d.meant = c.meant /\ d.dirs = {}
        /\ d.sess = c.sess /\ d.org = c.org /\ d.forOrg = c.forOrg /\ d.forEnv = c.forEnv
    BY <1>3, <1>4, <2>2, <2>3, <2>4 DEF Commands
  <2>6. Routed(d) /\ Numbered(d) /\ d.dirs \subseteq 0..lastId /\ d.at # "set"
    BY <1>3, <1>4, <2>2, <2>5 DEF Routed, Numbered, Looks
  <2>7. /\ ~Authorizing(d) /\ ~Worked(d) /\ ~Sent(d)
        /\ ~Authorizing(c) /\ ~Worked(c) /\ ~Sent(c)
        /\ Scoping(d) <=> Scoping(c)
    BY <1>3, <2>5 DEF Authorizing, Scoping, Sent, Worked
  <2>8. Aimed(d)
    BY <1>3, <2>5, <2>7 DEF Fine, Aimed
  <2>9. AsSeen(d)
    BY <1>3, <2>2, <2>5, <2>7 DEF Fine, AsSeen, OrgFor, EnvFor
  <2>10. Become(p, d)
    BY <1>2, <1>6, <2>1, <2>3
  <2> QED
    BY <1>1, <2>5, <2>6, <2>8, <2>9, <2>10, OnlySeen, Quietly
<1> QED
  BY <1>5, <1>6 DEF Pick

LEMMA TargetStep ==
    ASSUME ContextsInv, NEW p \in Procs, Target(p)
    PROVE  ContextsInv'
<1>1. /\ UNCHANGED <<rows, lastId, secrets, session, old, started, lapses>>
      /\ live' \subseteq 1..started /\ ~At(p, "set") /\ ~At(p, "idle")
  BY StateIs DEF Target, At
<1>2. PICK c : c = proc[p]
  OBVIOUS
<1>3. c \in Commands /\ Numbered(c) /\ Routed(c) /\ Fine(c) /\ c.at = "target"
  BY <1>2, CommandsAre DEF At, Target
<1>4. c.op \in Looks /\ c.dirs = {}
  BY <1>3 DEF Routed
<1>5. CASE End(p)
  BY <1>1, <1>5, Ends
<1>6. CASE Currents # {} /\ Become(p, [proc[p] EXCEPT !.at = "keep", !.id = Current.id])
  <2>1. PICK i : i = Current.id
    OBVIOUS
  <2>2. i \in 1..lastId /\ \E n \in Names : i = rows[n].id
    <3>1. PICK n \in Names : n \in Currents /\ Current = rows[n]
      BY <1>6, StateIs, CurrentIs DEF Currents
    <3>2. rows[n].cur
      BY <3>1 DEF Currents
    <3>3. rows[n].id # 0 /\ rows[n].id =< lastId
      BY <3>1, <3>2, StateIs, NoRowIs DEF RowsInv, Exists
    <3>4. rows[n].id \in Nat
      BY <3>1, StateIs, RowIs
    <3> QED
      BY <2>1, <3>1, <3>3, <3>4, StateIs
  <2>3. PICK d : d = [c EXCEPT !.at = "keep", !.id = i]
    OBVIOUS
  <2>4. "keep" \in Steps /\ i \in Nat
    BY <2>2, StateIs DEF Steps
  <2>5. /\ d \in Commands /\ d.at = "keep" /\ d.pick = c.pick /\ d.op = c.op /\ d.id = i
        /\ d.no = c.no /\ d.name = c.name /\ d.meant = c.meant /\ d.dirs = {}
    BY <1>3, <1>4, <2>2, <2>3, <2>4 DEF Commands
  <2>6. Routed(d) /\ Numbered(d) /\ d.dirs \subseteq 0..lastId /\ d.at # "set"
    BY <1>3, <1>4, <2>5 DEF Routed, Numbered, Looks
  <2>7. ~Authorizing(d) /\ ~Worked(d) /\ ~Sent(d) /\ ~Scoping(d)
    BY <2>5 DEF Authorizing, Scoping, Sent, Worked
  <2>8. Aimed(d)
    BY <2>5, <2>7 DEF Aimed
  <2>9. AsSeen(d)
    BY <1>3, <2>5, <2>7, HasSeen DEF AsSeen, Unexcused
  <2>10. Chooses(d) /\ Leaves(d) /\ Refreshes(d)
    BY <2>5 DEF Chooses, Leaves, Refreshes
  <2>11. Keeps(d)
    BY <2>2, <2>5 DEF Keeps
  <2>12. Become(p, d)
    BY <1>2, <1>6, <2>1, <2>3
  <2>13. Fine(d)
    BY <2>8, <2>9, <2>10, <2>11 DEF Fine
  <2> QED
    BY <1>1, <2>5, <2>6, <2>12, <2>13, Quietly
<1> QED
  BY <1>5, <1>6 DEF Target

LEMMA LookupDirStep ==
    ASSUME ContextsInv, NEW p \in Procs, LookupDir(p)
    PROVE  ContextsInv'
<1>1. /\ UNCHANGED <<rows, lastId, secrets, session, old, started, lapses>>
      /\ live' \subseteq 1..started /\ ~At(p, "set") /\ ~At(p, "idle")
  BY StateIs DEF LookupDir, At
<1>2. PICK c : c = proc[p]
  OBVIOUS
<1>3. c \in Commands /\ Numbered(c) /\ Routed(c) /\ Fine(c) /\ c.at = "dir" /\ c.dirs \subseteq 0..lastId
  BY <1>2, CommandsAre DEF At, LookupDir
<1>4. c.op \in Looks /\ c.left > 0 /\ c.left \in Nat
  BY <1>3, CommandIs DEF Routed
<1>5. /\ c.meant.api = None
      /\ Unexcused({"switched"}) => /\ Scoped(c.meant, lapses) /\ c.meant = Current /\ c.own = Current.id
                                    /\ c.dirs \subseteq {Dir(c.meant)}
  BY <1>3 DEF Fine, Aimed, AsSeen
<1>6. CASE End(p)
  BY <1>1, <1>6, Ends
<1>7. CASE Become(p, [proc[p] EXCEPT !.dirs = @ \cup {Dir(Current)}, !.left = @ - 1,
                                     !.at = IF proc[p].left = 1 THEN "done" ELSE "dir"])
  <2>1. PICK x : x = Dir(Current)
    OBVIOUS
  <2>2. x \in 0..lastId /\ x \in Nat
    <3>1. Current.id \in 0..lastId
      BY StateIs, CurrentIs, NoRowIs, RowIs DEF RowsInv, Currents
    <3> QED
      BY <2>1, <3>1, StateIs DEF Dir
  <2>3. PICK s : s = IF c.left = 1 THEN "done" ELSE "dir"
    OBVIOUS
  <2>4. PICK ds : ds = c.dirs \cup {x}
    OBVIOUS
  <2>5. PICK l : l = c.left - 1
    OBVIOUS
  <2>6. PICK d : d = [c EXCEPT !.dirs = ds, !.left = l, !.at = s]
    OBVIOUS
  <2>7. s \in Steps /\ ds \subseteq 0..lastId /\ ds \subseteq Nat /\ l \in Nat
    BY <1>3, <1>4, <2>2, <2>3, <2>4, <2>5, CommandIs DEF Steps
  <2>8. /\ d \in Commands /\ d.at = s /\ d.pick = c.pick /\ d.op = c.op /\ d.own = c.own /\ d.left = l
        /\ d.no = c.no /\ d.name = c.name /\ d.meant = c.meant /\ d.dirs = ds
    BY <1>3, <2>6, <2>7 DEF Commands
  <2>9. /\ s = "done" \/ (s = "dir" /\ l > 0)
        /\ ds # {}
    BY <1>4, <2>3, <2>4, <2>5
  <2>10. Routed(d) /\ Numbered(d) /\ d.dirs \subseteq 0..lastId /\ d.at # "set"
    BY <1>3, <1>4, <2>7, <2>8, <2>9 DEF Routed, Numbered, Looks
  <2>11. ~Authorizing(d) /\ ~Sent(d) /\ ~Scoping(d) /\ (s = "done" <=> Worked(d))
    BY <2>8, <2>9 DEF Authorizing, Scoping, Sent, Worked
  <2>12. Aimed(d)
    BY <1>5, <2>8, <2>11 DEF Aimed
  <2>13. Unexcused({"switched"}) => ds = {Dir(c.meant)}
    BY <1>5, <2>1, <2>4
  <2>14. AsSeen(d)
    BY <1>5, <2>8, <2>9, <2>11, <2>13 DEF AsSeen
  <2>15. Become(p, d)
    BY <1>2, <1>7, <2>1, <2>3, <2>4, <2>5, <2>6
  <2>16. Fine(d)
    BY <2>8, <2>9, <2>12, <2>14, OnlySeen
  <2> QED
    BY <1>1, <2>8, <2>10, <2>15, <2>16, Quietly
<1> QED
  BY <1>6, <1>7 DEF LookupDir

LEMMA StopStep ==
    ASSUME ContextsInv, NEW p \in Procs, Done(p) \/ Stop(p)
    PROVE  ContextsInv'
<1>1. proc' = [proc EXCEPT ![p] = Idle] /\ UNCHANGED <<rows, lastId, secrets, session, live, old, started>>
  BY DEF Done, Stop, End
<1>2. lapses \subseteq lapses' /\ lapses' \subseteq Windows /\ (At(p, "set") => "torn" \in lapses')
  BY StateIs DEF Done, Stop, Record, Hit, At, Windows
<1>3. started' \in 1..MaxCommands /\ started =< started' /\ live' \subseteq 1..started'
  BY <1>1, StateIs
<1>4. Idle \in Commands /\ Idle.dirs \subseteq 0..lastId /\ Idle.at # "set"
  BY IdleIs
<1>5. UNCHANGED <<rows, lastId, secrets, session, old>>
  BY <1>1
<1> QED
  BY <1>1, <1>2, <1>3, <1>4, <1>5, IdleFine, QuietStep

-----------------------------------------------------------------------------
(* The steps that write the session.                                       *)

LEMMA TokenSaved ==
    ASSUME ContextsInv, NEW p \in Procs, SaveAccessToken(p), proc[p].at \in {"early", "token"},
           lapses' = lapses
    PROVE  /\ session' \in Sessions /\ session'.sid = session.sid
           /\ TokenIsOwn'
<1>1. PICK c : c = proc[p]
  OBVIOUS
<1>2. c \in Commands /\ Fine(c) /\ c.at \in {"early", "token"}
  BY <1>1, CommandsAre
<1>3. PICK k : k = c.sess.sid
  OBVIOUS
<1>4. k \in Nat /\ session \in Sessions
  BY <1>2, <1>3, CommandIs, SessionIs, StateIs
<1>5. CASE session.sid = 0 /\ session' = session
  BY <1>4, <1>5, StateIs DEF TokenIsOwn, Unexcused
<1>6. CASE session.sid # 0 /\ session' = [session EXCEPT !.token = k, !.fresh = TRUE]
  <2>1. session' \in Sessions /\ session'.sid = session.sid /\ session'.token = k
    BY <1>4, <1>6 DEF Sessions
  <2>2. Unexcused({"relogged"}) => session.sid = k
    BY <1>2, <1>3, <1>6 DEF Fine, Refreshes
  <2> QED
    BY <2>1, <2>2 DEF TokenIsOwn, Unexcused
<1> QED
  BY <1>1, <1>3, <1>5, <1>6 DEF SaveAccessToken

LEMMA EarlyTokenStep ==
    ASSUME ContextsInv, NEW p \in Procs, EarlyToken(p)
    PROVE  ContextsInv'
<1>1. PICK c : c = proc[p]
  OBVIOUS
<1>2. c \in Commands /\ Numbered(c) /\ Routed(c) /\ Fine(c) /\ c.at = "early"
  BY <1>1, CommandsAre DEF At, EarlyToken
<1>3. /\ session' \in Sessions /\ session'.sid = session.sid /\ TokenIsOwn'
  BY <1>1, <1>2, TokenSaved DEF EarlyToken
<1>4. PICK d : d = [c EXCEPT !.at = "own", !.sess = NoSession]
  OBVIOUS
<1>5. "own" \in Steps
  BY DEF Steps
<1>6. /\ d \in Commands /\ d.at = "own" /\ d.pick = c.pick /\ d.op = c.op
      /\ d.no = c.no /\ d.name = c.name /\ d.meant = c.meant /\ d.dirs = c.dirs
  BY <1>2, <1>4, <1>5, NoSessionIs DEF Commands
<1>7. Routed(d) /\ Numbered(d) /\ d.dirs \subseteq 0..lastId /\ d.at # "set"
  BY <1>2, <1>6 DEF Routed, Numbered
<1>8. Fine(d)'
  BY <1>2, <1>6, HasSeen, PlainNext DEF EarlyToken
<1>9. proc' = [proc EXCEPT ![p] = d] /\ ~At(p, "set")
  BY <1>1, <1>2, <1>4 DEF EarlyToken, Become, At
<1>10. UNCHANGED <<rows, lastId, secrets, live, old, started>> /\ lapses \subseteq lapses' /\ lapses' \subseteq Windows
  BY StateIs DEF EarlyToken
<1>11. session'.sid \in {0, session.sid}
  BY <1>3
<1> QED
  BY <1>3, <1>6, <1>7, <1>8, <1>9, <1>10, <1>11, SessionStep

LEMMA SaveSessionStep ==
    ASSUME ContextsInv, NEW p \in Procs, SaveSession(p)
    PROVE  ContextsInv'
<1>1. PICK c : c = proc[p]
  OBVIOUS
<1>2. c \in Commands /\ Numbered(c) /\ Routed(c) /\ Fine(c) /\ c.at = "save"
  BY <1>1, CommandsAre DEF At, SaveSession
<1>3. c.sess \in Sessions /\ c.sess.token = c.sess.sid /\ session' = c.sess
  BY <1>1, <1>2, CommandIs DEF Routed, SaveSession
<1>4. TokenIsOwn'
  BY <1>3 DEF TokenIsOwn
<1>5. PICK d : d = [c EXCEPT !.at = "register"]
  OBVIOUS
<1>6. "register" \in Steps
  BY DEF Steps
<1>7. /\ d \in Commands /\ d.at = "register" /\ Along(c, d)
  BY <1>2, <1>5, <1>6, GotoIs
<1>8. Routed(d) /\ Numbered(d) /\ d.dirs \subseteq 0..lastId /\ d.at # "set"
  BY <1>2, <1>7 DEF Routed, Numbered, Along
<1>9. lapses \subseteq lapses' /\ lapses' \subseteq Windows
  BY StateIs DEF SaveSession, Record, Hit, Windows
<1>10. Fine(d)'
  BY <1>2, <1>7, <1>9, HasSeenNext, PlainNext DEF Along
<1>11. proc' = [proc EXCEPT ![p] = d] /\ ~At(p, "set")
  BY <1>1, <1>2, <1>5 DEF SaveSession, Goto, At
<1>12. \A q \in Procs \ {p} : proc[q].at \in {"early", "token"} => "relogged" \in lapses'
  BY DEF SaveSession, Record, Hit
<1>13. UNCHANGED <<rows, lastId, secrets, live, old, started>>
  BY DEF SaveSession
<1>14. session' \in Sessions
  BY <1>3
<1> QED
  BY <1>4, <1>7, <1>8, <1>9, <1>10, <1>11, <1>12, <1>13, <1>14, SessionStep

LEMMA ClearSessionStep ==
    ASSUME ContextsInv, NEW p \in Procs, ClearSession(p)
    PROVE  ContextsInv'
<1>1. session' = NoSession /\ session' \in Sessions /\ session'.sid \in {0, session.sid} /\ TokenIsOwn'
  BY NoSessionIs DEF ClearSession, TokenIsOwn
<1>2. proc' = [proc EXCEPT ![p] = Idle] /\ ~At(p, "set")
  BY DEF ClearSession, End, At
<1>3. UNCHANGED <<rows, lastId, secrets, live, old, started>> /\ lapses \subseteq lapses' /\ lapses' \subseteq Windows
  BY StateIs DEF ClearSession
<1>4. Idle \in Commands /\ Idle.dirs \subseteq 0..lastId /\ Idle.at # "set"
  BY IdleIs
<1> QED
  BY <1>1, <1>2, <1>3, <1>4, IdleFine, SessionStep

LEMMA TokenStep ==
    ASSUME ContextsInv, NEW p \in Procs, Token(p)
    PROVE  ContextsInv'
<1>1. PICK c : c = proc[p]
  OBVIOUS
<1>2. c \in Commands /\ Numbered(c) /\ Routed(c) /\ Fine(c) /\ c.at = "token" /\ c.sess \in Sessions
  BY <1>1, CommandsAre, CommandIs DEF At, Token
<1>3. /\ session' \in Sessions /\ session'.sid = session.sid /\ TokenIsOwn'
  BY <1>1, <1>2, TokenSaved DEF Token
<1>4. UNCHANGED <<rows, lastId, secrets, live, old, started, lapses>> /\ lapses \subseteq lapses' /\ lapses' \subseteq Windows
  BY StateIs DEF Token
<1>5. ~At(p, "set") /\ session'.sid \in {0, session.sid}
  BY <1>1, <1>2, <1>3 DEF At
<1>6. ASSUME NEW d \in Commands, Become(p, d), Routed(d), Numbered(d), Fine(d), d.dirs = {},
             d.at \in {"env", "idle"}
      PROVE  ContextsInv'
  <2>1. Fine(d)'
    <3>1. Refreshes(d)' /\ Keeps(d)' /\ Leaves(d)' /\ Chooses(d)'
      BY <1>6 DEF Refreshes, Keeps, Leaves, Chooses
    <3>2. Aimed(d)' /\ AsSeen(d)'
      BY <1>4, <1>6, AimedStays, AsSeenStays DEF Fine
    <3> QED
      BY <3>1, <3>2 DEF Fine
  <2>2. proc' = [proc EXCEPT ![p] = d] /\ d.dirs \subseteq 0..lastId /\ d.at # "set"
    BY <1>6 DEF Become
  <2> QED
    BY <1>3, <1>4, <1>5, <1>6, <2>1, <2>2, SessionStep
<1>7. CASE End(p)
  <2>1. Become(p, Idle)
    BY <1>7 DEF End, Become
  <2> QED
    BY <1>6, <2>1, IdleIs, IdleFine
<1>8. CASE ~End(p)
  <2>1. PICK s : s = [c.sess EXCEPT !.token = c.sess.sid, !.fresh = TRUE]
    OBVIOUS
  <2>2. s \in Sessions /\ s.token = s.sid
    BY <1>2, <2>1 DEF Sessions
  <2>3. Authorized(p, s)
    BY <1>1, <1>8, <2>1 DEF Token
  <2>4. PICK d \in Commands : /\ Become(p, d) /\ d.at = "env" /\ Routed(d) /\ Numbered(d) /\ Fine(d)
                              /\ d.dirs = {}
    BY <1>1, <1>2, <1>8, <2>2, <2>3, AuthorizedIs
  <2> QED
    BY <1>6, <2>4
<1> QED
  BY <1>7, <1>8

LEMMA TokenExpiresStep ==
    ASSUME ContextsInv, TokenExpires
    PROVE  ContextsInv'
<1>1. UNCHANGED <<rows, lastId, secrets, live, old, proc, started, lapses>>
  BY DEF TokenExpires
<1>2. session' \in Sessions /\ session'.sid = session.sid /\ session'.token = session.token
  BY StateIs DEF TokenExpires, Sessions
<1>3. \A q \in Procs : At(q, "set") => At(q, "set")'
  BY <1>1 DEF At
<1>4. /\ OneCurrent' /\ RowsInv'
  BY <1>1, <1>3, SameContexts
<1>5. TokenIsOwn' /\ SecretsHaveContext'
  BY <1>1, <1>2, StateIs DEF TokenIsOwn, SecretsHaveContext, Unexcused
<1>6. ASSUME NEW q \in Procs, NEW d, d = proc[q] PROVE Numbered(d)' /\ Routed(d) /\ Fine(d)'
  <2>1. d \in Commands /\ Numbered(d) /\ Routed(d) /\ Fine(d)
    BY <1>6, CommandsAre
  <2>2. Numbered(d)'
    BY <1>1, <2>1 DEF Numbered
  <2>3. Aimed(d)' /\ AsSeen(d)' /\ Chooses(d)' /\ Leaves(d)'
    BY <1>1, <1>3, <2>1, AimedStays, AsSeenStays, ChoosesStays, LeavesStays DEF Fine
  <2>4. Refreshes(d)'
    BY <1>1, <1>2, <2>1 DEF Refreshes, Fine, Unexcused
  <2>5. Keeps(d)'
    BY <1>1, <2>1 DEF Keeps, Fine, Unexcused
  <2> QED
    BY <2>1, <2>2, <2>3, <2>4, <2>5 DEF Fine
<1>7. CommandsInv'
  <2>1. ASSUME NEW q \in Procs
        PROVE  Numbered(proc[q])' /\ Routed(proc[q])' /\ Fine(proc[q])'
    BY <1>1, <1>6 DEF Numbered, Routed, Fine, Aimed, AsSeen, Chooses, Leaves, Refreshes, Keeps
  <2> QED
    BY <2>1 DEF CommandsInv, Fine
<1>8. ContextsTypeOK'
  BY <1>1, <1>2 DEF ContextsInv, ContextsTypeOK
<1> QED
  BY <1>4, <1>5, <1>7, <1>8 DEF ContextsInv

LEMMA StutterStep ==
    ASSUME ContextsInv, UNCHANGED contextsVars
    PROVE  ContextsInv'
<1>1. UNCHANGED <<rows, lastId, secrets, session, old, proc, started, lapses>> /\ live' \subseteq 1..started
  BY StateIs DEF contextsVars
<1>2. \A q \in Procs : At(q, "set") => At(q, "set")'
  BY <1>1 DEF At
<1>3. /\ OneCurrent' /\ RowsInv'
  BY <1>1, <1>2, SameContexts
<1>4. TokenIsOwn' /\ SecretsHaveContext'
  BY <1>1, StateIs DEF TokenIsOwn, SecretsHaveContext, Unexcused
<1>5. ASSUME NEW q \in Procs, NEW d, d = proc[q] PROVE Numbered(d)' /\ Routed(d) /\ Fine(d)'
  <2>1. d \in Commands /\ Numbered(d) /\ Routed(d) /\ Fine(d)
    BY <1>5, CommandsAre
  <2>2. Numbered(d)'
    BY <1>1, <2>1 DEF Numbered
  <2>3. Aimed(d)' /\ AsSeen(d)' /\ Chooses(d)' /\ Leaves(d)'
    BY <1>1, <1>2, <2>1, AimedStays, AsSeenStays, ChoosesStays, LeavesStays DEF Fine
  <2>4. Refreshes(d)' /\ Keeps(d)'
    BY <1>1, <2>1 DEF Refreshes, Keeps, Fine, Unexcused
  <2> QED
    BY <2>1, <2>2, <2>3, <2>4 DEF Fine
<1>6. CommandsInv'
  <2>1. ASSUME NEW q \in Procs
        PROVE  Numbered(proc[q])' /\ Routed(proc[q])' /\ Fine(proc[q])'
    BY <1>1, <1>5 DEF Numbered, Routed, Fine, Aimed, AsSeen, Chooses, Leaves, Refreshes, Keeps
  <2> QED
    BY <2>1 DEF CommandsInv, Fine
<1>7. ContextsTypeOK'
  BY <1>1 DEF ContextsInv, ContextsTypeOK
<1> QED
  BY <1>3, <1>4, <1>6, <1>7 DEF ContextsInv

-----------------------------------------------------------------------------
(* The steps that set and forget secrets.                                  *)

LEMMA ForgetStep ==
    ASSUME ContextsInv, NEW p \in Procs, Forget(p)
    PROVE  ContextsInv'
<1>1. PICK c : c = proc[p]
  OBVIOUS
<1>2. c \in Commands /\ Numbered(c) /\ Routed(c) /\ Fine(c) /\ c.at = "forget"
  BY <1>1, CommandsAre DEF At, Forget
<1>3. /\ UNCHANGED <<rows, lastId, session, live, old, started, lapses>>
      /\ lapses \subseteq lapses' /\ lapses' \subseteq Windows
      /\ secrets' = secrets \ {rows[c.name].id} /\ ~At(p, "set")
  BY <1>1, StateIs DEF Forget, At
<1>4. secrets' \subseteq 1..lastId /\ secrets' \subseteq secrets
  BY <1>3, StateIs
<1>5. SecretsHaveContext'
  BY <1>3, StateIs DEF SecretsHaveContext, Unexcused
<1>6. PICK d : d = [c EXCEPT !.at = "drop"]
  OBVIOUS
<1>7. "drop" \in Steps
  BY DEF Steps
<1>8. /\ d \in Commands /\ d.at = "drop" /\ Along(c, d)
  BY <1>2, <1>6, <1>7, GotoIs
<1>9. d.name = c.name /\ d.meant = c.meant /\ d.dirs = {} /\ d.op = "remove"
  BY <1>2, <1>8 DEF Along, Routed
<1>10. Routed(d) /\ Numbered(d) /\ d.dirs \subseteq 0..lastId /\ d.at # "set"
  BY <1>2, <1>8, <1>9 DEF Routed, Numbered, Along
<1>11. proc' = [proc EXCEPT ![p] = d]
  BY <1>1, <1>6 DEF Forget, Goto
<1>12. Fine(d)'
  <2>1. \A q \in Procs : At(q, "set") => At(q, "set")'
    BY <1>3, <1>11, StateIs DEF At
  <2>2. Leaves(c)'
    BY <1>2, <1>3, <2>1, LeavesStays DEF Fine
  <2>3. Leaves(d)'
    BY <1>2, <1>8, <1>9, <2>2 DEF Leaves
  <2>4. Keeps(d)'
    BY <1>3, <1>8, <1>9 DEF Keeps
  <2>5. Aimed(d)' /\ Chooses(d)' /\ Refreshes(d)'
    BY <1>8, <1>9 DEF Aimed, Authorizing, Scoping, Sent, Worked, Chooses, Refreshes
  <2>6. AsSeen(d)'
    BY <1>2, <1>3, <1>8, <1>9, HasSeen DEF AsSeen, Authorizing, Scoping, Sent, Worked, Unexcused
  <2> QED
    BY <2>3, <2>4, <2>5, <2>6 DEF Fine
<1>13. UNCHANGED <<rows, lastId, session, live, old, started>>
  BY <1>3
<1> QED
  BY <1>3, <1>4, <1>5, <1>8, <1>10, <1>11, <1>12, <1>13, SecretsStep

LEMMA KeepStep ==
    ASSUME ContextsInv, NEW p \in Procs, Keep(p)
    PROVE  ContextsInv'
<1>1. PICK c : c = proc[p]
  OBVIOUS
<1>2. c \in Commands /\ Numbered(c) /\ Routed(c) /\ Fine(c) /\ c.at = "keep"
  BY <1>1, CommandsAre DEF At, Keep
<1>3. /\ UNCHANGED <<rows, lastId, session, live, old, started>>
      /\ secrets' \in {secrets \cup {c.id}, secrets \ {c.id}} /\ ~At(p, "set")
  BY <1>1, <1>2 DEF Keep, At
<1>4. /\ lapses \subseteq lapses' /\ lapses' \subseteq Windows
      /\ \A q \in Procs \ {p} : proc[q].at = "drop" => "late" \in lapses'
  BY StateIs DEF Keep, Record, Hit, At, Windows
<1>5. /\ c.id \in 1..lastId
      /\ Unexcused({"late"}) => c.id \in {rows[n].id : n \in Names}
  BY <1>2 DEF Fine, Keeps
<1>6. secrets' \subseteq 1..lastId
  BY <1>3, <1>5, StateIs
<1>7. SecretsHaveContext'
  <2>1. Unexcused({"late"})' => Unexcused({"late"})
    BY <1>4 DEF Unexcused
  <2>2. {rows[n].id : n \in Names}' = {rows[n].id : n \in Names}
    BY <1>3
  <2> QED
    BY <1>3, <1>5, <2>1, <2>2, StateIs DEF SecretsHaveContext
<1>8. proc' = [proc EXCEPT ![p] = Idle]
  BY DEF Keep, End
<1>9. Idle \in Commands /\ Idle.dirs \subseteq 0..lastId /\ Idle.at # "set"
  BY IdleIs
<1> QED
  BY <1>3, <1>4, <1>6, <1>7, <1>8, <1>9, IdleFine, SecretsStep

-----------------------------------------------------------------------------
(* The steps that write the contexts.                                      *)

LEMMA RowWritten ==
    ASSUME ContextsInv, NEW n \in Names, NEW r \in Rows, rows' = [rows EXCEPT ![n] = r],
           lastId' \in Nat, lastId =< lastId', r.id =< lastId', r.id = 0 => r = NoRow,
           lapses \subseteq lapses', "switched" \in lapses' \/ Scoped(r, lapses')
    PROVE  /\ rows' \in [Names -> Rows] /\ RowsInv'
           /\ rows'[n] = r /\ \A m \in Names \ {n} : rows'[m] = rows[m]
           /\ Currents' = IF r.cur THEN Currents \cup {n} ELSE Currents \ {n}
           /\ Registered' = IF r.id # 0 THEN Registered \cup {n} ELSE Registered \ {n}
<1>1. rows' \in [Names -> Rows] /\ rows'[n] = r /\ \A m \in Names \ {n} : rows'[m] = rows[m]
  BY StateIs
<1>2. Currents' = IF r.cur THEN Currents \cup {n} ELSE Currents \ {n}
  BY <1>1 DEF Currents
<1>3. Registered' = IF r.id # 0 THEN Registered \cup {n} ELSE Registered \ {n}
  BY <1>1 DEF Registered, Exists
<1>4. ASSUME NEW m \in Names
      PROVE  /\ rows'[m].id =< lastId' /\ (rows'[m].id = 0 => rows'[m] = NoRow)
             /\ Unexcused({"switched"})' => Scoped(rows'[m], lapses')
  <2>1. CASE m = n
    BY <1>1, <2>1 DEF Unexcused
  <2>2. CASE m # n
    <3>1. /\ rows[m].id =< lastId /\ (rows[m].id = 0 => rows[m] = NoRow)
          /\ Unexcused({"switched"}) => Scoped(rows[m], lapses)
      BY StateIs DEF RowsInv, Exists
    <3>2. rows[m].id \in Nat
      BY StateIs, RowIs
    <3>3. Scoped(rows[m], lapses) => Scoped(rows[m], lapses')
      BY ScopedStays
    <3> QED
      BY <1>1, <2>2, <3>1, <3>2, <3>3, StateIs DEF Unexcused
  <2> QED
    BY <2>1, <2>2
<1>5. RowsInv'
  BY <1>4 DEF RowsInv, Exists
<1> QED
  BY <1>1, <1>2, <1>3, <1>5

(* A context that is not there is not the current one.                     *)
LEMMA CurrentsExist ==
    ASSUME ContextsInv
    PROVE  Currents \subseteq Registered
BY StateIs, NoRowIs DEF RowsInv, Currents, Registered

(* A context is taken in: as the current one if there is none.             *)
LEMMA RowAdded ==
    ASSUME ContextsInv, NEW n \in Names, ~Exists(n), NEW r \in Rows,
           rows' = [rows EXCEPT ![n] = r], lastId' = lastId + 1, lapses \subseteq lapses',
           r.id = lastId + 1, r.org = None, r.env = None,
           r.cur /\ Unexcused({"overlap", "imported"})' => Registered = {},
           /\ ~r.cur /\ Unexcused({"overlap", "imported", "unknown", "torn"})'
           /\ \A q \in Procs : ~At(q, "set")'
           => Registered # {} /\ \A q \in Procs : ~At(q, "set")
    PROVE  /\ rows' \in [Names -> Rows] /\ lastId' \in Nat /\ lastId =< lastId'
           /\ RowsInv' /\ OneCurrent'
           /\ \A m \in Names : rows'[m].id = rows[m].id \/ (rows[m].id = 0 /\ rows'[m].id > lastId)
<1>1. lastId \in Nat /\ lastId' \in Nat /\ lastId =< lastId' /\ r.id =< lastId' /\ r.id # 0 /\ r.id > lastId
  BY StateIs
<1>2. Scoped(r, lapses')
  BY DEF Scoped
<1>3. /\ rows' \in [Names -> Rows] /\ RowsInv'
      /\ rows'[n] = r /\ \A m \in Names \ {n} : rows'[m] = rows[m]
      /\ Currents' = IF r.cur THEN Currents \cup {n} ELSE Currents \ {n}
  BY <1>1, <1>2, RowWritten
<1>4. n \notin Currents
  BY CurrentsExist DEF Registered
<1>5. Unexcused({"overlap", "imported"})' => Cardinality(Currents') <= 1
  <2>1. CASE r.cur /\ Unexcused({"overlap", "imported"})'
    <3>1. Currents = {}
      BY <2>1, CurrentsExist
    <3>2. Currents' = {n}
      BY <1>3, <2>1, <3>1
    <3>3. Cardinality({n}) = 1
      BY FS_Singleton
    <3>4. Cardinality(Currents') = 1
      BY <3>2, <3>3
    <3> QED
      BY <3>4
  <2>2. CASE ~r.cur /\ Unexcused({"overlap", "imported"})'
    <3>1. Currents' = Currents
      BY <1>3, <1>4, <2>2
    <3>2. Unexcused({"overlap", "imported"})
      BY <2>2 DEF Unexcused
    <3> QED
      BY <3>1, <3>2, StateIs DEF OneCurrent
  <2> QED
    BY <2>1, <2>2
<1>6. ASSUME Unexcused({"overlap", "imported", "unknown", "torn"})', \A q \in Procs : ~At(q, "set")'
      PROVE  Currents' # {}
  <2>1. CASE r.cur
    BY <1>3, <2>1
  <2>2. CASE ~r.cur
    <3>1. Currents' = Currents
      BY <1>3, <1>4, <2>2
    <3>2. Unexcused({"overlap", "imported", "unknown", "torn"})
      BY <1>6 DEF Unexcused
    <3>3. Currents # {}
      BY <1>6, <2>2, <3>2, StateIs DEF OneCurrent
    <3> QED
      BY <3>1, <3>3
  <2> QED
    BY <2>1, <2>2
<1>7. OneCurrent'
  BY <1>5, <1>6 DEF OneCurrent
<1> QED
  BY <1>1, <1>3, <1>7 DEF Exists

LEMMA OpenStep ==
    ASSUME ContextsInv, NEW p \in Procs, Open(p)
    PROVE  ContextsInv'
<1>1. PICK c : c = proc[p]
  OBVIOUS
<1>2. c \in Commands /\ Numbered(c) /\ Routed(c) /\ Fine(c) /\ c.at = "open"
  BY <1>1, CommandsAre DEF At, Open
<1>3. PICK d : d = [c EXCEPT !.at = "prelude"]
  OBVIOUS
<1>4. "prelude" \in Steps
  BY DEF Steps
<1>5. d \in Commands /\ d.at = "prelude" /\ Along(c, d)
  BY <1>2, <1>3, <1>4, GotoIs
<1>6. Routed(d) /\ Numbered(d) /\ d.dirs \subseteq 0..lastId /\ d.at # "set"
  BY <1>2, <1>5 DEF Routed, Numbered, Along
<1>7. Fine(d)
  BY <1>2, <1>5, HasSeen, Plain DEF Along
<1>8. proc' = [proc EXCEPT ![p] = d] /\ ~At(p, "set")
  BY <1>1, <1>2, <1>3 DEF Open, Goto, At
<1>9. CASE UNCHANGED <<rows, lastId, lapses>>
  <2>1. /\ UNCHANGED <<rows, lastId, secrets, session, old, started, lapses>>
        /\ live' \subseteq 1..started /\ Become(p, d)
    BY <1>8, <1>9, StateIs DEF Open, Become
  <2> QED
    BY <1>5, <1>6, <1>7, <1>8, <2>1, Quietly
<1>10. CASE /\ old.name # None /\ ~Exists(old.name) /\ lastId' = lastId + 1
            /\ rows' = [rows EXCEPT ![old.name] =
                  [NoRow EXCEPT !.id = lastId + 1, !.cur = old.cur, !.local = TRUE]]
            /\ Record(Moved(p) \cup Hit(Registered # {} \/ ~old.cur, "imported"))
  <2>1. PICK n \in Names : n = old.name
    BY <1>10, StateIs
  <2>2. PICK b \in BOOLEAN : b = old.cur
    BY StateIs
  <2>3. PICK i : i = lastId + 1
    OBVIOUS
  <2>4. PICK r : r = [NoRow EXCEPT !.id = i, !.cur = b, !.local = TRUE]
    OBVIOUS
  <2>5. i \in Nat
    BY <2>3, StateIs
  <2>6. r \in Rows /\ r.id = i /\ r.cur = b /\ r.org = None /\ r.env = None
    BY <2>4, <2>5, NoRowIs DEF Rows
  <2>7. rows' = [rows EXCEPT ![n] = r]
    BY <1>10, <2>1, <2>2, <2>3, <2>4
  <2>8. /\ lapses \subseteq lapses' /\ lapses \cup Moved(p) \subseteq lapses' /\ lapses' \subseteq Windows
        /\ Registered # {} \/ ~b => "imported" \in lapses'
    BY <1>10, <2>2, StateIs DEF Record, Hit, Moved, Windows
  <2>9. /\ rows' \in [Names -> Rows] /\ lastId' \in Nat /\ lastId =< lastId'
        /\ RowsInv' /\ OneCurrent'
        /\ \A m \in Names : rows'[m].id = rows[m].id \/ (rows[m].id = 0 /\ rows'[m].id > lastId)
    <3>1. r.cur /\ Unexcused({"overlap", "imported"})' => Registered = {}
      BY <2>6, <2>8 DEF Unexcused
    <3>2. ~Unexcused({"overlap", "imported", "unknown", "torn"})' \/ r.cur
      BY <2>6, <2>8 DEF Unexcused
    <3>3. /\ ~r.cur /\ Unexcused({"overlap", "imported", "unknown", "torn"})'
          /\ \A q \in Procs : ~At(q, "set")'
          => Registered # {} /\ \A q \in Procs : ~At(q, "set")
      BY <3>2
    <3>4. ~Exists(n) /\ lastId' = lastId + 1 /\ r.id = lastId + 1 /\ lapses \subseteq lapses'
      BY <1>10, <2>1, <2>3, <2>6, <2>8
    <3> QED
      BY <2>6, <2>7, <3>1, <3>3, <3>4, RowAdded
  <2>10. Fine(d)'
    BY <1>2, <1>5, <2>8, HasSeenNext, PlainNext DEF Along
  <2>11. UNCHANGED <<secrets, session, live, old, started>>
    BY DEF Open
  <2> QED
    BY <1>5, <1>6, <1>8, <2>8, <2>9, <2>10, <2>11, RowsStep
<1> QED
  BY <1>9, <1>10 DEF Open

LEMMA InsertStep ==
    ASSUME ContextsInv, NEW p \in Procs, Insert(p)
    PROVE  ContextsInv'
<1>1. PICK c : c = proc[p]
  OBVIOUS
<1>2. c \in Commands /\ Numbered(c) /\ Routed(c) /\ Fine(c) /\ c.at = "insert"
  BY <1>1, CommandsAre DEF At, Insert
<1>3. c.op \in {"create", "login"} /\ c.name \in Names /\ c.dirs = {}
  BY <1>2 DEF Routed
<1>4. /\ UNCHANGED <<secrets, session, live, old, started>> /\ ~At(p, "set") /\ ~At(p, "idle")
      /\ live' \subseteq 1..started
  BY <1>1, <1>2, StateIs DEF Insert, At
<1>6. \A s \in {"remember", "unset"} : \A d \in Commands : d.at = s /\ Along(c, d) => Fine(d)
  BY <1>2, HasSeen, Plain DEF Along
<1>7. {"remember", "unset"} \subseteq Steps
  BY DEF Steps
<1>8. CASE AddFailed(p) /\ UNCHANGED <<rows, lastId, lapses>>
  <2>1. UNCHANGED <<rows, lastId, secrets, session, old, started, lapses>>
    BY <1>4, <1>8
  <2>2. CASE c.op # "login"
    BY <2>1, <2>2, <1>1, <1>4, <1>8, Ends DEF AddFailed
  <2>3. CASE c.op = "login"
    <3>1. Goto(p, "remember")
      BY <1>1, <1>8, <2>3 DEF AddFailed
    <3>2. ASSUME NEW d \in Commands, d.at = "remember", Along(c, d)
          PROVE  Routed(d) /\ Fine(d)
      BY <1>2, <1>3, <1>6, <2>3, <3>2 DEF Routed, Along, Looks
    <3> QED
      BY <1>1, <1>4, <1>7, <2>1, <3>1, <3>2, Goes
  <2> QED
    BY <2>2, <2>3
<1>9. CASE /\ ~Exists(c.name) /\ lastId' = lastId + 1
           /\ rows' = [rows EXCEPT ![c.name] = [NoRow EXCEPT
                      !.id = lastId + 1, !.cur = c.first, !.local = c.local, !.api = c.api]]
           /\ Goto(p, IF c.op = "login" /\ c.had THEN "remember" ELSE "unset")
           /\ Record(Moved(p))
  <2>1. PICK s : s = IF c.op = "login" /\ c.had THEN "remember" ELSE "unset"
    OBVIOUS
  <2>2. s \in {"remember", "unset"} /\ (s = "remember" => c.op = "login")
    BY <2>1
  <2>3. PICK d : d = [c EXCEPT !.at = s]
    OBVIOUS
  <2>4. d \in Commands /\ d.at = s /\ Along(c, d)
    BY <1>2, <1>7, <2>2, <2>3, GotoIs
  <2>5. Routed(d) /\ Numbered(d) /\ d.dirs \subseteq 0..lastId
    BY <1>2, <1>3, <2>2, <2>4 DEF Routed, Numbered, Along, Looks
  <2>6. PICK i : i = lastId + 1
    OBVIOUS
  <2>7. PICK r : r = [NoRow EXCEPT !.id = i, !.cur = c.first, !.local = c.local, !.api = c.api]
    OBVIOUS
  <2>8. i \in Nat /\ c.first \in BOOLEAN /\ c.local \in BOOLEAN /\ c.api \in Servers \cup {None}
    BY <1>2, <2>6, StateIs, CommandIs
  <2>9. r \in Rows /\ r.id = i /\ r.cur = c.first /\ r.org = None /\ r.env = None
    BY <2>7, <2>8, NoRowIs DEF Rows
  <2>10. rows' = [rows EXCEPT ![c.name] = r]
    BY <1>9, <2>6, <2>7
  <2>11. lapses \subseteq lapses' /\ lapses \cup Moved(p) \subseteq lapses' /\ lapses' \subseteq Windows
    BY <1>9, StateIs DEF Record, Hit, Moved, Windows
  <2>12. /\ Unexcused({"overlap"}) /\ c.first => Registered = {}
         /\ Unexcused({"overlap"}) /\ ~c.first => Registered # {}
    BY <1>2 DEF Fine, Chooses
  <2>13. proc' = [proc EXCEPT ![p] = d]
    BY <1>1, <1>9, <2>1, <2>3 DEF Goto
  <2>14. /\ rows' \in [Names -> Rows] /\ lastId' \in Nat /\ lastId =< lastId'
         /\ RowsInv' /\ OneCurrent'
         /\ \A m \in Names : rows'[m].id = rows[m].id \/ (rows[m].id = 0 /\ rows'[m].id > lastId)
    <3>1. r.cur /\ Unexcused({"overlap", "imported"})' => Registered = {}
      BY <2>9, <2>11, <2>12 DEF Unexcused
    <3>2. /\ ~r.cur /\ Unexcused({"overlap", "imported", "unknown", "torn"})'
          /\ \A q \in Procs : ~At(q, "set")'
          => Registered # {} /\ \A q \in Procs : ~At(q, "set")
      <4>1. ~r.cur /\ Unexcused({"overlap", "imported", "unknown", "torn"})' => Registered # {}
        BY <2>9, <2>11, <2>12 DEF Unexcused
      <4>2. \A q \in Procs : At(q, "set") => At(q, "set")'
        BY <1>4, <2>13, StateIs DEF At
      <4> QED
        BY <4>1, <4>2
    <3>3. ~Exists(c.name) /\ lastId' = lastId + 1 /\ r.id = lastId + 1 /\ lapses \subseteq lapses'
      BY <1>9, <2>6, <2>9, <2>11
    <3> QED
      BY <1>3, <2>9, <2>10, <3>1, <3>2, <3>3, RowAdded
  <2>15. Fine(d)'
    BY <1>2, <2>2, <2>4, <2>11, HasSeenNext, PlainNext DEF Along
  <2>16. UNCHANGED <<secrets, session, live, old, started>>
    BY <1>4
  <2> QED
    BY <2>4, <2>5, <2>11, <2>13, <2>14, <2>15, <2>16, RowsStep
<1> QED
  BY <1>1, <1>8, <1>9 DEF Insert

(* unsetCurrentRepository: none is current afterwards.                     *)
LEMMA RowsCleared ==
    ASSUME ContextsInv, Clear, UNCHANGED lastId, lapses \subseteq lapses',
           \/ \E p \in Procs : At(p, "set")'
           \/ Unexcused({"overlap"}) => Registered = {}
    PROVE  /\ rows' \in [Names -> Rows] /\ lastId' \in Nat /\ lastId =< lastId'
           /\ RowsInv' /\ OneCurrent' /\ Currents' = {} /\ Registered' = Registered
           /\ \A n \in Names : rows'[n].id = rows[n].id
<1>1. ASSUME NEW n \in Names
      PROVE  /\ rows'[n] \in Rows /\ rows'[n].id = rows[n].id /\ rows'[n].cur = FALSE
             /\ rows'[n].api = rows[n].api /\ rows'[n].org = rows[n].org /\ rows'[n].env = rows[n].env
             /\ rows[n] = NoRow => rows'[n] = NoRow
  <2>1. PICK r \in Rows : r = rows[n]
    BY StateIs
  <2>2. PICK t : t = [r EXCEPT !.cur = FALSE]
    OBVIOUS
  <2>3. rows'[n] = t
    BY <2>1, <2>2 DEF Clear
  <2>4. /\ t \in Rows /\ t.id = r.id /\ t.cur = FALSE /\ t.api = r.api /\ t.org = r.org /\ t.env = r.env
    BY <2>2 DEF Rows
  <2>5. t.local = r.local
    BY <2>2 DEF Rows
  <2>6. r = NoRow => t = NoRow
    BY <2>4, <2>5, NoRowIs, SameRow
  <2> QED
    BY <2>1, <2>3, <2>4, <2>6
<1>2. rows' \in [Names -> Rows]
  <2>1. \A n \in Names : [rows[n] EXCEPT !.cur = FALSE] \in Rows
    BY StateIs DEF Rows
  <2> QED
    BY <2>1 DEF Clear
<1>3. Currents' = {} /\ Registered' = Registered
  BY <1>1 DEF Currents, Registered, Exists
<1>4. RowsInv'
  <2>1. ASSUME NEW n \in Names
        PROVE  /\ rows'[n].id =< lastId' /\ (rows'[n].id = 0 => rows'[n] = NoRow)
               /\ Unexcused({"switched"})' => Scoped(rows'[n], lapses')
    <3>1. /\ rows[n].id =< lastId /\ (rows[n].id = 0 => rows[n] = NoRow)
          /\ Unexcused({"switched"}) => Scoped(rows[n], lapses)
      BY StateIs DEF RowsInv, Exists
    <3>2. Scoped(rows[n], lapses) => Scoped(rows'[n], lapses')
      BY <1>1, ScopedStays DEF Scoped
    <3> QED
      BY <1>1, <3>1, <3>2 DEF Unexcused
  <2> QED
    BY <2>1 DEF RowsInv, Exists
<1>5. Cardinality(Currents') = 0
  BY <1>3, FS_EmptySet
<1>6. \/ ~Unexcused({"overlap", "imported", "unknown", "torn"})'
      \/ ~ \A p \in Procs : ~At(p, "set")'
      \/ Registered' = {}
  BY <1>3 DEF Unexcused
<1>7. OneCurrent'
  BY <1>5, <1>6 DEF OneCurrent
<1>8. lastId' \in Nat /\ lastId =< lastId'
  BY StateIs
<1>9. \A n \in Names : rows'[n].id = rows[n].id
  BY <1>1
<1> QED
  BY <1>2, <1>3, <1>4, <1>7, <1>8, <1>9

LEMMA ClearStep ==
    ASSUME ContextsInv, NEW p \in Procs, ClearFirst(p) \/ Unset(p)
    PROVE  ContextsInv'
<1>1. PICK c : c = proc[p]
  OBVIOUS
<1>2. c \in Commands /\ Numbered(c) /\ Routed(c) /\ Fine(c) /\ c.at \in {"clear", "unset"}
  BY <1>1, CommandsAre DEF At, ClearFirst, Unset
<1>3. PICK s : s = IF c.at = "clear" THEN "insert" ELSE "set"
  OBVIOUS
<1>4. /\ s \in Steps
      /\ \/ c.at = "clear" /\ s = "insert"
         \/ c.at = "unset" /\ s = "set"
  BY <1>2, <1>3 DEF Steps
<1>5. PICK d : d = [c EXCEPT !.at = s]
  OBVIOUS
<1>6. d \in Commands /\ d.at = s /\ Along(c, d)
  BY <1>2, <1>4, <1>5, GotoIs
<1>7. proc' = [proc EXCEPT ![p] = d]
  BY <1>1, <1>2, <1>3, <1>5 DEF ClearFirst, Unset, At, Goto
<1>8. /\ UNCHANGED <<secrets, session, live, old, started>> /\ UNCHANGED lastId /\ Clear
      /\ lapses' = lapses \cup Moved(p)
  BY DEF ClearFirst, Unset, Record
<1>9. lapses \subseteq lapses' /\ lapses \cup Moved(p) \subseteq lapses' /\ lapses' \subseteq Windows
  BY <1>8, StateIs DEF Hit, Moved, Windows
<1>10. Routed(d) /\ Numbered(d) /\ d.dirs \subseteq 0..lastId
  BY <1>2, <1>4, <1>6 DEF Routed, Numbered, Along, Looks
<1>11. c.at = "clear" => c.first /\ (Unexcused({"overlap"}) => Registered = {})
  BY <1>2 DEF Fine, Chooses, Routed
<1>12. \/ \E q \in Procs : At(q, "set")'
       \/ Unexcused({"overlap"}) => Registered = {}
  BY <1>4, <1>6, <1>7, <1>11, StateIs DEF At
<1>13. /\ rows' \in [Names -> Rows] /\ lastId' \in Nat /\ lastId =< lastId'
       /\ RowsInv' /\ OneCurrent' /\ Currents' = {} /\ Registered' = Registered
       /\ \A n \in Names : rows'[n].id = rows[n].id
  BY <1>8, <1>9, <1>12, RowsCleared
<1>14. Fine(d)'
  <2>1. d.meant = c.meant /\ d.first = c.first
    BY <1>6 DEF Along
  <2>2. Aimed(d)'
    BY <1>4, <1>6 DEF Aimed, Authorizing, Scoping, Sent, Worked
  <2>3. AsSeen(d)'
    BY <1>2, <1>4, <1>6, <1>9, <2>1, HasSeenNext
       DEF AsSeen, Authorizing, Scoping, Sent, Worked, Unexcused
  <2>4. Chooses(d)'
    BY <1>4, <1>6, <1>9, <1>11, <1>13, <2>1 DEF Chooses, Unexcused
  <2>5. Leaves(d)' /\ Refreshes(d)' /\ Keeps(d)'
    BY <1>4, <1>6 DEF Leaves, Refreshes, Keeps
  <2> QED
    BY <2>2, <2>3, <2>4, <2>5 DEF Fine
<1>15. UNCHANGED <<secrets, session, live, old, started>>
  BY <1>8
<1> QED
  BY <1>6, <1>7, <1>9, <1>10, <1>13, <1>14, <1>15, RowsStep

LEMMA SetStep ==
    ASSUME ContextsInv, NEW p \in Procs, Set(p)
    PROVE  ContextsInv'
<1>1. PICK c : c = proc[p]
  OBVIOUS
<1>2. c \in Commands /\ Numbered(c) /\ Routed(c) /\ Fine(c) /\ c.at = "set"
  BY <1>1, CommandsAre DEF At, Set
<1>3. PICK n : n = IF c.op = "remove" THEN c.pick ELSE c.name
  OBVIOUS
<1>4. /\ n \in Names /\ c.name \in Names /\ c.op \in {"create", "use", "remove", "login"} /\ c.dirs = {}
      /\ c.op = "remove" => n # c.name
  BY <1>2, <1>3 DEF Routed
<1>5. /\ UNCHANGED <<lastId, secrets, session, live, old, started>>
      /\ lapses' = lapses \cup (Moved(p) \cup Hit(~Exists(n), "unknown"))
      /\ rows' = IF Exists(n) THEN [rows EXCEPT ![n].cur = TRUE] ELSE rows
  BY <1>1, <1>3 DEF Set, Record
<1>6. /\ lapses \subseteq lapses' /\ lapses \cup Moved(p) \subseteq lapses' /\ lapses' \subseteq Windows
      /\ ~Exists(n) => "unknown" \in lapses'
  BY <1>5, StateIs DEF Hit, Moved, Windows
<1>7. Unexcused({"overlap"}) => Currents = {}
  BY <1>2 DEF Fine, Chooses
<1>8. /\ rows' \in [Names -> Rows] /\ RowsInv' /\ OneCurrent' /\ (Exists(n) => n \in Currents')
      /\ \A m \in Names : rows'[m].id = rows[m].id
  <2>1. CASE Exists(n)
    <3>1. PICK r : r = [rows[n] EXCEPT !.cur = TRUE]
      OBVIOUS
    <3>2. /\ r \in Rows /\ r.id = rows[n].id /\ r.cur = TRUE /\ r.api = rows[n].api
          /\ r.org = rows[n].org /\ r.env = rows[n].env
      <4>1. PICK s \in Rows : s = rows[n]
        BY <1>4, StateIs
      <4>2. r = [s EXCEPT !.cur = TRUE]
        BY <3>1, <4>1
      <4> QED
        BY <4>1, <4>2 DEF Rows
    <3>3. rows' = [rows EXCEPT ![n] = r]
      BY <1>5, <2>1, <3>1
    <3>4. rows[n].id # 0 /\ rows[n].id =< lastId /\ (Unexcused({"switched"}) => Scoped(rows[n], lapses))
      BY <1>4, <2>1, StateIs DEF RowsInv, Exists
    <3>5. "switched" \in lapses' \/ Scoped(r, lapses')
      <4>1. Scoped(rows[n], lapses) => Scoped(r, lapses')
        BY <1>6, <3>2 DEF Scoped
      <4> QED
        BY <1>6, <3>4, <4>1 DEF Unexcused
    <3>6. lastId' \in Nat /\ lastId =< lastId' /\ r.id =< lastId' /\ (r.id = 0 => r = NoRow)
      BY <1>5, <3>2, <3>4, StateIs
    <3>7. /\ rows' \in [Names -> Rows] /\ RowsInv'
          /\ rows'[n] = r /\ \A m \in Names \ {n} : rows'[m] = rows[m]
          /\ Currents' = Currents \cup {n}
      BY <1>4, <1>6, <3>2, <3>3, <3>5, <3>6, RowWritten
    <3>8. ASSUME Unexcused({"overlap", "imported"})' PROVE Cardinality(Currents') <= 1
      <4>1. Currents' = {n}
        BY <1>6, <1>7, <3>7, <3>8 DEF Unexcused
      <4>2. Cardinality({n}) = 1
        BY FS_Singleton
      <4>3. Cardinality(Currents') = 1
        BY <4>1, <4>2
      <4> QED
        BY <4>3
    <3>9. Currents' # {} /\ n \in Currents'
      BY <3>7
    <3>10. OneCurrent'
      BY <3>8, <3>9 DEF OneCurrent
    <3>11. \A m \in Names : rows'[m].id = rows[m].id
      BY <3>2, <3>7
    <3> QED
      BY <3>7, <3>9, <3>10, <3>11
  <2>2. CASE ~Exists(n)
    <3>1. rows' = rows
      BY <1>5, <2>2
    <3>2. Currents' = Currents
      BY <3>1, SameRows
    <3>3. Unexcused({"overlap", "imported"})' => Cardinality(Currents') <= 1
      BY <1>6, <3>2, StateIs DEF OneCurrent, Unexcused
    <3>4. ~Unexcused({"overlap", "imported", "unknown", "torn"})'
      BY <1>6, <2>2 DEF Unexcused
    <3>5. OneCurrent'
      BY <3>3, <3>4 DEF OneCurrent
    <3>6. RowsInv'
      <4>1. ASSUME NEW m \in Names PROVE Scoped(rows[m], lapses) => Scoped(rows[m], lapses')
        BY <1>6, ScopedStays
      <4> QED
        BY <1>5, <1>6, <3>1, <4>1, StateIs DEF RowsInv, Unexcused, Exists
    <3> QED
      BY <2>2, <3>1, <3>5, <3>6, StateIs
  <2> QED
    BY <2>1, <2>2
<1>9. ASSUME NEW d \in Commands, Become(p, d), Routed(d), Numbered(d), d.dirs = {}, Fine(d)'
      PROVE  ContextsInv'
  <2>1. proc' = [proc EXCEPT ![p] = d] /\ d.dirs \subseteq 0..lastId
    BY <1>9 DEF Become
  <2>2. UNCHANGED <<secrets, session, live, old, started>> /\ lastId' \in Nat /\ lastId =< lastId'
    BY <1>5, StateIs
  <2> QED
    BY <1>6, <1>8, <1>9, <2>1, <2>2, RowsStep
<1>10. CASE End(p)
  <2>1. Become(p, Idle)
    BY <1>10 DEF End, Become
  <2> QED
    BY <1>9, <2>1, IdleIs, IdleFine
<1>11. ASSUME NEW s \in {"remember", "forget"}, Goto(p, s),
              s = "remember" => c.op = "login", s = "forget" => c.op = "remove" /\ Exists(n)
       PROVE  ContextsInv'
  <2>1. s \in Steps
    BY DEF Steps
  <2>2. PICK d : d = [c EXCEPT !.at = s]
    OBVIOUS
  <2>3. d \in Commands /\ d.at = s /\ Along(c, d)
    BY <1>2, <2>1, <2>2, GotoIs
  <2>4. d.op = c.op /\ d.name = c.name /\ d.meant = c.meant /\ d.dirs = {}
    BY <1>4, <2>3 DEF Along
  <2>5. Routed(d) /\ Numbered(d)
    BY <1>2, <1>11, <2>3 DEF Routed, Numbered, Along, Looks
  <2>6. Become(p, d)
    BY <1>1, <1>11, <2>2 DEF Become, Goto
  <2>7. "switched" \in lapses' \/ Scoped(d.meant, lapses')
    BY <1>2, <1>6, <2>4, HasSeenNext
  <2>8. Fine(d)'
    <3>1. CASE s = "remember"
      BY <2>3, <2>7, <3>1, PlainNext
    <3>2. CASE s = "forget"
      <4>1. n \in Currents' /\ n # d.name
        BY <1>4, <1>8, <1>11, <2>4, <3>2
      <4>2. Leaves(d)'
        BY <4>1 DEF Leaves
      <4>3. Aimed(d)' /\ Chooses(d)' /\ Refreshes(d)' /\ Keeps(d)'
        BY <2>3, <3>2 DEF Aimed, Authorizing, Scoping, Sent, Worked, Chooses, Refreshes, Keeps
      <4>4. AsSeen(d)'
        BY <2>3, <2>7, <3>2 DEF AsSeen, Authorizing, Scoping, Sent, Worked, Unexcused
      <4> QED
        BY <4>2, <4>3, <4>4 DEF Fine
    <3> QED
      BY <3>1, <3>2
  <2> QED
    BY <1>9, <2>3, <2>4, <2>5, <2>6, <2>8
<1> QED
  BY <1>1, <1>3, <1>10, <1>11 DEF Set

LEMMA DropStep ==
    ASSUME ContextsInv, NEW p \in Procs, Drop(p)
    PROVE  ContextsInv'
<1>1. PICK c : c = proc[p]
  OBVIOUS
<1>2. c \in Commands /\ Numbered(c) /\ Routed(c) /\ Fine(c) /\ c.at = "drop"
  BY <1>1, CommandsAre DEF At, Drop
<1>3. PICK n : n = c.name
  OBVIOUS
<1>4. n \in Names
  BY <1>2, <1>3 DEF Routed
<1>5. /\ UNCHANGED <<lastId, secrets, session, live, old, started>>
      /\ rows' = [rows EXCEPT ![n] = NoRow] /\ proc' = [proc EXCEPT ![p] = Idle]
  BY <1>1, <1>3 DEF Drop, End
<1>6. /\ lapses \subseteq lapses' /\ lapses \cup Moved(p) \subseteq lapses' /\ lapses' \subseteq Windows
      /\ "late" \notin lapses' => \A q \in Procs : ~At(q, "keep")
  BY StateIs DEF Drop, Record, Hit, Moved, Windows
<1>7. lastId' \in Nat /\ lastId =< lastId' /\ NoRow.id =< lastId'
  BY <1>5, StateIs, NoRowIs
<1>8. /\ rows' \in [Names -> Rows] /\ RowsInv'
      /\ rows'[n] = NoRow /\ \A m \in Names \ {n} : rows'[m] = rows[m]
      /\ Currents' = Currents \ {n}
      /\ Registered' = Registered \ {n}
  BY <1>4, <1>5, <1>6, <1>7, NoRowIs, RowWritten
<1>9. Unexcused({"overlap", "imported"})' => Cardinality(Currents') <= 1
  <2>1. IsFiniteSet(Currents)
    <3>1. IsFiniteSet(Names)
      BY ContextsAssumption, FS_Interval DEF Names
    <3>2. Currents \subseteq Names
      BY DEF Currents
    <3> QED
      BY <3>1, <3>2, FS_Subset
  <2>2. Cardinality(Currents \ {n}) <= Cardinality(Currents)
    BY <2>1, FS_Subset
  <2>3. Cardinality(Currents) \in Nat /\ Cardinality(Currents \ {n}) \in Nat
    BY <2>1, FS_Subset, FS_CardinalityType
  <2>4. Unexcused({"overlap", "imported"})' => Cardinality(Currents) <= 1
    BY <1>6, StateIs DEF OneCurrent, Unexcused
  <2> QED
    BY <1>8, <2>2, <2>3, <2>4
<1>10. ASSUME Unexcused({"overlap", "imported", "unknown", "torn"})', \A q \in Procs : ~At(q, "set")',
              Registered' # {}
       PROVE  Currents' # {}
  <2>1. \A q \in Procs : ~At(q, "set")
    BY <1>1, <1>2, <1>5, <1>10, StateIs DEF At
  <2>2. Unexcused({"overlap", "imported", "unknown", "torn"})
    BY <1>6, <1>10 DEF Unexcused
  <2>3. Others(n) = {} \/ \E m \in Currents : m # n
    BY <1>2, <1>3, <2>1, <2>2 DEF Fine, Leaves
  <2> QED
    BY <1>8, <1>10, <2>3 DEF Others
<1>11. OneCurrent'
  BY <1>9, <1>10 DEF OneCurrent
<1>12. \A m \in Names : \/ rows'[m].id = rows[m].id
                        \/ /\ rows'[m].id = 0
                           /\ "late" \notin lapses' =>
                                rows[m].id \notin secrets /\ \A q \in Procs : ~At(q, "keep")
  <2>1. Unexcused({"late"}) => rows[n].id \notin secrets
    BY <1>2, <1>3 DEF Fine, Keeps
  <2> QED
    BY <1>6, <1>8, <2>1, NoRowIs DEF Unexcused
<1>13. Idle \in Commands /\ Idle.dirs \subseteq 0..lastId
  BY IdleIs
<1>14. UNCHANGED <<secrets, session, live, old, started>>
  BY <1>5
<1> QED
  BY <1>5, <1>6, <1>7, <1>8, <1>11, <1>12, <1>13, <1>14, IdleFine, RowsStep

(* A selection is written on a context that is there.                      *)
LEMMA RowSelected ==
    ASSUME ContextsInv, NEW n \in Names, Exists(n), NEW o \in OrgSel, NEW e \in EnvSel, NEW p \in Procs,
           \/ rows' = [rows EXCEPT ![n].org = o, ![n].env = e]
           \/ rows' = [rows EXCEPT ![n].env = e] /\ o = rows[n].org,
           UNCHANGED <<lastId, secrets, session, live, old, started>>,
           lapses \cup Moved(p) \subseteq lapses', lapses' \subseteq Windows, End(p), ~At(p, "set"),
           "switched" \in lapses'
             \/ /\ o # None => o[1] = rows[n].api
                /\ e # None =>
                     /\ e[1] = rows[n].api
                     /\ \/ "foreign" \in lapses'
                        \/ e = IF o = None THEN <<rows[n].api, None>> ELSE o
    PROVE  ContextsInv'
<1>1. PICK s \in Rows : s = rows[n]
  BY StateIs
<1>2. PICK r : r = [s EXCEPT !.org = o, !.env = e]
  OBVIOUS
<1>3. r \in Rows /\ r.id = s.id /\ r.cur = s.cur /\ r.api = s.api /\ r.org = o /\ r.env = e
  BY <1>2 DEF Rows
<1>4. rows' = [rows EXCEPT ![n] = r]
  <2>1. CASE rows' = [rows EXCEPT ![n].org = o, ![n].env = e]
    BY <1>1, <1>2, <2>1, StateIs
  <2>2. CASE rows' = [rows EXCEPT ![n].env = e] /\ o = rows[n].org
    <3>1. PICK t : t = [s EXCEPT !.env = e]
      OBVIOUS
    <3>2. t \in Rows /\ t.id = s.id /\ t.cur = s.cur /\ t.local = s.local /\ t.api = s.api
          /\ t.org = s.org /\ t.env = e
      BY <3>1 DEF Rows
    <3>3. r.local = s.local
      BY <1>2 DEF Rows
    <3>4. t = r
      BY <1>1, <1>3, <2>2, <3>2, <3>3, SameRow
    <3>5. rows' = [rows EXCEPT ![n] = t]
      BY <1>1, <2>2, <3>1
    <3> QED
      BY <3>4, <3>5
  <2> QED
    BY <2>1, <2>2
<1>5. lapses \subseteq lapses' /\ lapses \cup Moved(p) \subseteq lapses' /\ lapses' \subseteq Windows
  OBVIOUS
<1>6. s.id # 0 /\ s.id =< lastId
  BY <1>1, StateIs DEF Exists, RowsInv
<1>7. "switched" \in lapses' \/ Scoped(r, lapses')
  BY <1>1, <1>3 DEF Scoped
<1>8. lastId' \in Nat /\ lastId =< lastId' /\ r.id =< lastId' /\ (r.id = 0 => r = NoRow)
  BY <1>3, <1>6, StateIs
<1>9. /\ rows' \in [Names -> Rows] /\ RowsInv'
      /\ rows'[n] = r /\ \A m \in Names \ {n} : rows'[m] = rows[m]
      /\ Currents' = IF r.cur THEN Currents \cup {n} ELSE Currents \ {n}
      /\ Registered' = IF r.id # 0 THEN Registered \cup {n} ELSE Registered \ {n}
  BY <1>3, <1>4, <1>5, <1>7, <1>8, RowWritten
<1>10. Currents' = Currents /\ Registered' = Registered
  BY <1>1, <1>3, <1>6, <1>9 DEF Currents, Registered, Exists
<1>11. proc' = [proc EXCEPT ![p] = Idle] /\ \A q \in Procs : At(q, "set") => At(q, "set")'
  BY StateIs DEF End, At
<1>12. OneCurrent'
  BY <1>5, <1>10, <1>11, StateIs DEF OneCurrent, Unexcused
<1>13. \A m \in Names : rows'[m].id = rows[m].id
  BY <1>1, <1>3, <1>9
<1>14. Idle \in Commands /\ Idle.dirs \subseteq 0..lastId
  BY IdleIs
<1>15. UNCHANGED <<secrets, session, live, old, started>>
  OBVIOUS
<1> QED
  BY <1>5, <1>8, <1>9, <1>11, <1>12, <1>13, <1>14, <1>15, IdleFine, RowsStep

LEMMA RememberStep ==
    ASSUME ContextsInv, NEW p \in Procs, Remember(p)
    PROVE  ContextsInv'
<1>1. PICK c : c = proc[p]
  OBVIOUS
<1>2. c \in Commands /\ Numbered(c) /\ Routed(c) /\ Fine(c) /\ c.at = "remember"
  BY <1>1, CommandsAre DEF At, Remember
<1>3. c.op = "login" /\ c.api \in Servers /\ c.pick \in Orgs \cup {None}
  BY <1>2 DEF Routed
<1>4. UNCHANGED <<lastId, secrets, session, live, old, started>> /\ End(p) /\ ~At(p, "set")
  BY <1>1, <1>2 DEF Remember, At
<1>5. CASE UNCHANGED <<rows, lapses>>
  BY <1>4, <1>5, Ends, StateIs
<1>6. CASE /\ c.pick # None /\ With(c.api) # {} /\ Record(Moved(p))
           /\ SetServerOrganization(Oldest(With(c.api)), <<c.api, c.pick>>)
  <2>1. PICK n : n = Oldest(With(c.api))
    OBVIOUS
  <2>2. n \in With(c.api)
    BY <1>6, <2>1, StateIs, OldestIn DEF With, Registered
  <2>3. n \in Names /\ Exists(n) /\ rows[n].api = c.api
    BY <2>2 DEF With, Registered
  <2>4. PICK o : o = <<c.api, c.pick>>
    OBVIOUS
  <2>5. o \in OrgSel /\ o[1] = c.api /\ None \in EnvSel
    BY <1>3, <1>6, <2>4 DEF OrgSel, EnvSel
  <2>6. rows' = [rows EXCEPT ![n].org = o, ![n].env = None]
    BY <1>6, <2>1, <2>4 DEF SetServerOrganization
  <2>7. lapses \cup Moved(p) \subseteq lapses' /\ lapses' \subseteq Windows
    BY <1>6, StateIs DEF Record, Moved, Hit, Windows
  <2> QED
    BY <1>4, <2>3, <2>5, <2>6, <2>7, RowSelected
<1> QED
  BY <1>1, <1>5, <1>6 DEF Remember

LEMMA SelectStep ==
    ASSUME ContextsInv, NEW p \in Procs, Select(p)
    PROVE  ContextsInv'
<1>1. PICK c : c = proc[p]
  OBVIOUS
<1>2. c \in Commands /\ Numbered(c) /\ Routed(c) /\ Fine(c) /\ c.at = "select"
  BY <1>1, CommandsAre DEF At, Select
<1>3. /\ c.name \in Names /\ c.op \in {"useOrg", "useEnv", "unsetEnv", "deleteEnv"}
      /\ c.op = "useOrg" => c.pick \in Orgs
      /\ c.org \in OrgSel
  BY <1>2, CommandIs DEF Routed
<1>4. /\ UNCHANGED <<lastId, secrets, session, live, old, started>> /\ End(p) /\ ~At(p, "set")
      /\ lapses \cup Moved(p) \subseteq lapses' /\ lapses' \subseteq Windows
      /\ Foreign(c) => "foreign" \in lapses'
  BY <1>1, <1>2, StateIs DEF Select, At, Record, Moved, Hit, Windows
<1>5. c.op # "unsetEnv" =>
        /\ c.sess.api \in Servers
        /\ "switched" \notin lapses' => /\ rows[c.name].api = c.sess.api /\ rows[c.name] = c.meant
                                        /\ Scoped(rows[c.name], lapses) /\ c.org = OrgFor(c)
  <2>1. SUFFICES ASSUME c.op # "unsetEnv"
                 PROVE  /\ c.sess.api \in Servers
                        /\ "switched" \notin lapses' =>
                             /\ rows[c.name].api = c.sess.api /\ rows[c.name] = c.meant
                             /\ Scoped(rows[c.name], lapses) /\ c.org = OrgFor(c)
    OBVIOUS
  <2>2. Scoping(c)
    BY <1>2, <2>1 DEF Scoping
  <2>3. c.meant.api \in Servers /\ c.sess.api = c.meant.api
    BY <1>2, <2>2 DEF Fine, Aimed
  <2>4. Unexcused({"switched"}) => /\ Scoped(c.meant, lapses) /\ c.org = OrgFor(c)
                                   /\ rows[c.name] = c.meant
    BY <1>2, <2>2 DEF Fine, AsSeen
  <2>5. "switched" \notin lapses' => Unexcused({"switched"})
    BY <1>4 DEF Unexcused
  <2> QED
    BY <2>3, <2>4, <2>5
<1>6. CASE UNCHANGED rows
  <2>1. lapses \subseteq lapses' /\ lapses' \subseteq Windows
    BY <1>4
  <2>2. proc' = [proc EXCEPT ![p] = Idle] /\ UNCHANGED <<rows, lastId, secrets, session, old>>
    BY <1>4, <1>6 DEF End
  <2>3. started' \in 1..MaxCommands /\ started =< started' /\ live' \subseteq 1..started'
    BY <1>4, StateIs
  <2>4. Idle \in Commands /\ Idle.dirs \subseteq 0..lastId /\ Idle.at # "set"
    BY IdleIs
  <2> QED
    BY <1>4, <2>1, <2>2, <2>3, <2>4, IdleFine, QuietStep
<1>7. CASE Exists(c.name) /\ c.op = "useOrg" /\ SetServerOrganization(c.name, <<c.sess.api, c.pick>>)
  <2>1. PICK o : o = <<c.sess.api, c.pick>>
    OBVIOUS
  <2>2. o \in OrgSel /\ o[1] = c.sess.api /\ None \in EnvSel
    BY <1>3, <1>5, <1>7, <2>1 DEF OrgSel, EnvSel
  <2>3. rows' = [rows EXCEPT ![c.name].org = o, ![c.name].env = None]
    BY <1>7, <2>1 DEF SetServerOrganization
  <2>4. "switched" \in lapses' \/ o[1] = rows[c.name].api
    BY <1>5, <1>7, <2>2
  <2> QED
    BY <1>3, <1>4, <1>7, <2>2, <2>3, <2>4, RowSelected
<1>8. ASSUME NEW e \in EnvSel, Exists(c.name), SetServerEnvironment(c.name, e),
             \/ e = None
             \/ /\ c.op = "useEnv"
                /\ e = IF c.org = None THEN <<c.sess.api, None>> ELSE c.org
      PROVE  ContextsInv'
  <2>1. PICK o : o = rows[c.name].org
    OBVIOUS
  <2>2. o \in OrgSel
    BY <1>3, <2>1, StateIs, RowIs
  <2>3. rows' = [rows EXCEPT ![c.name].env = e]
    BY <1>8 DEF SetServerEnvironment
  <2>4. "switched" \in lapses' \/ (o # None => o[1] = rows[c.name].api)
    <3>1. "switched" \in lapses' \/ Scoped(rows[c.name], lapses)
      BY <1>3, <1>4, StateIs DEF RowsInv, Unexcused
    <3> QED
      BY <2>1, <3>1 DEF Scoped
  <2>5. "switched" \in lapses'
        \/ (e # None => /\ e[1] = rows[c.name].api
                        /\ \/ "foreign" \in lapses'
                           \/ e = IF o = None THEN <<rows[c.name].api, None>> ELSE o)
    <3>1. SUFFICES ASSUME "switched" \notin lapses', e # None
                   PROVE  /\ e[1] = rows[c.name].api
                          /\ \/ "foreign" \in lapses'
                             \/ e = IF o = None THEN <<rows[c.name].api, None>> ELSE o
      OBVIOUS
    <3>2. /\ c.op = "useEnv" /\ e = IF c.org = None THEN <<c.sess.api, None>> ELSE c.org
          /\ rows[c.name].api = c.sess.api /\ rows[c.name] = c.meant
          /\ Scoped(rows[c.name], lapses) /\ c.org = OrgFor(c)
      BY <1>5, <1>8, <3>1
    <3>3. CASE c.forOrg = None
      <4>1. c.org = o
        BY <2>1, <3>2, <3>3 DEF OrgFor
      <4> QED
        BY <2>1, <3>2, <4>1 DEF Scoped
    <3>4. CASE c.forOrg # None
      <4>1. c.org = <<c.sess.api, c.forOrg>>
        BY <3>2, <3>4 DEF OrgFor
      <4>2. e[1] = rows[c.name].api
        BY <3>2, <4>1
      <4>3. "foreign" \in lapses' \/ o = c.org
        BY <1>4, <2>1, <3>2, <3>4 DEF Foreign
      <4> QED
        BY <3>2, <4>2, <4>3
    <3> QED
      BY <3>3, <3>4
  <2> QED
    BY <1>3, <1>4, <1>8, <2>1, <2>2, <2>3, <2>4, <2>5, RowSelected
<1>9. CASE c.op = "useEnv" /\ Exists(c.name)
           /\ SetServerEnvironment(c.name, IF c.org = None THEN <<c.sess.api, None>> ELSE c.org)
  <2>1. PICK e : e = IF c.org = None THEN <<c.sess.api, None>> ELSE c.org
    OBVIOUS
  <2>2. e \in EnvSel
    BY <1>3, <1>5, <1>9, <2>1 DEF OrgSel, EnvSel
  <2> QED
    BY <1>8, <1>9, <2>1, <2>2
<1>10. CASE SetServerEnvironment(c.name, None) /\ Exists(c.name)
  BY <1>8, <1>10 DEF EnvSel
<1> QED
  BY <1>1, <1>6, <1>7, <1>9, <1>10 DEF Select

-----------------------------------------------------------------------------
LEMMA ContextsStart == ContextsInit => ContextsInv
<1> SUFFICES ASSUME ContextsInit PROVE ContextsInv
  OBVIOUS
<1>1. /\ proc = [p \in Procs |-> Idle] /\ started = 1 /\ lapses = {} /\ secrets = {}
      /\ live = {session.sid} \ {0}
  BY DEF ContextsInit
<1>2. \A p \in Procs : proc[p] = Idle
  BY <1>1
<1>3. /\ rows \in [Names -> Rows] /\ lastId \in Nat /\ session \in Sessions
      /\ old \in [name : Names \cup {None}, cur : BOOLEAN]
      /\ session.token = session.sid /\ session.sid \in {0, 1}
      /\ \A n \in Names : /\ rows[n].id =< lastId /\ (rows[n].id = 0 => rows[n] = NoRow)
                          /\ Scoped(rows[n], lapses)
      /\ \E c : Currents \subseteq {c} /\ (c \in Currents \/ Registered = {})
  <2>1. CASE Unused
    <3>1. rows \in [Names -> Rows] /\ \A n \in Names : rows[n] = NoRow
      BY <2>1, NoRowIs DEF Unused
    <3>2. Currents = {} /\ Registered = {}
      BY <3>1, NoRowIs DEF Currents, Registered, Exists
    <3>3. NoOld \in [name : Names \cup {None}, cur : BOOLEAN]
      BY DEF NoOld
    <3>4. old \in [name : Names \cup {None}, cur : BOOLEAN]
      BY <2>1, <3>3 DEF Unused
    <3>5. lastId = 0 /\ session = NoSession
      BY <2>1 DEF Unused
    <3>6. \E k : Currents \subseteq {k} /\ (k \in Currents \/ Registered = {})
      BY <3>2
    <3>7. \A n \in Names : /\ rows[n].id =< lastId /\ (rows[n].id = 0 => rows[n] = NoRow)
                           /\ Scoped(rows[n], lapses)
      BY <3>1, <3>5, NoRowIs
    <3> QED
      BY <3>1, <3>4, <3>5, <3>6, <3>7, NoSessionIs
  <2>2. CASE InUse
    <3>1. PICK s \in Servers, t \in Servers \cup {None}, c \in {1, 2} \cap Names, o \in Orgs :
         /\ rows = [n \in Names |->
               CASE n = 1 -> [NoRow EXCEPT !.id = 1, !.cur = (c = 1), !.local = (t = None), !.api = t]
                 [] n = 2 -> [NoRow EXCEPT !.id = 2, !.cur = (c = 2), !.api = s,
                                           !.org = <<s, o>>, !.env = <<s, o>>]
                 [] OTHER -> NoRow]
         /\ session \in {NoSession, [sid |-> 1, api |-> s, token |-> 1, fresh |-> TRUE]}
         /\ old \in {NoOld} \cup (IF t = None /\ c = 2 THEN {[name |-> 1, cur |-> TRUE]} ELSE {})
      BY <2>2, Zenon DEF InUse
    <3>1a. lastId = 2
      BY <2>2, Zenon DEF InUse
    <3>2. PICK x : x = [NoRow EXCEPT !.id = 1, !.cur = (c = 1), !.local = (t = None), !.api = t]
      OBVIOUS
    <3>3. PICK y : y = [NoRow EXCEPT !.id = 2, !.cur = (c = 2), !.api = s,
                                           !.org = <<s, o>>, !.env = <<s, o>>]
      OBVIOUS
    <3>4. <<s, o>> \in OrgSel /\ <<s, o>> \in EnvSel
      BY DEF OrgSel, EnvSel
    <3>5. x \in Rows /\ x.id = 1 /\ x.cur = (c = 1) /\ x.org = None /\ x.env = None
      BY <3>2, NoRowIs DEF Rows
    <3>6. y \in Rows /\ y.id = 2 /\ y.cur = (c = 2) /\ y.api = s /\ y.org = <<s, o>> /\ y.env = <<s, o>>
      BY <3>3, <3>4, NoRowIs DEF Rows
    <3>7. Scoped(x, lapses) /\ Scoped(y, lapses)
      BY <3>5, <3>6, NamesAre DEF Scoped
    <3>8. rows = [n \in Names |-> CASE n = 1 -> x [] n = 2 -> y [] OTHER -> NoRow]
      BY <3>1, <3>2, <3>3
    <3>9. rows = [n \in Names |-> IF n = 1 THEN x ELSE IF n = 2 THEN y ELSE NoRow]
      BY <3>8
    <3>10. rows \in [Names -> Rows] /\ \A n \in Names : rows[n] \in {x, y, NoRow}
      BY <3>5, <3>6, <3>9, NoRowIs
    <3>11. \A n \in Names : rows[n].cur <=> n = c
      BY <3>5, <3>6, <3>9, NoRowIs
    <3>12. c \in Names /\ Currents = {c}
      BY <3>11 DEF Currents
    <3>13. NoOld \in [name : Names \cup {None}, cur : BOOLEAN]
      BY DEF NoOld
    <3>14. c = 2 => 1 \in Names
      BY ContextsAssumption DEF Names
    <3>15. old \in [name : Names \cup {None}, cur : BOOLEAN]
      <4>1. PICK u : u = [name |-> 1, cur |-> TRUE]
        OBVIOUS
      <4>2. c = 2 => u \in [name : Names \cup {None}, cur : BOOLEAN]
        BY <3>14, <4>1
      <4>3. old = NoOld \/ (old = u /\ c = 2)
        BY <3>1, <4>1
      <4> QED
        BY <3>13, <4>2, <4>3
    <3>16. session \in Sessions /\ session.token = session.sid /\ session.sid \in {0, 1}
      <4>1. PICK u : u = [sid |-> 1, api |-> s, token |-> 1, fresh |-> TRUE]
        OBVIOUS
      <4>2. u \in Sessions /\ u.sid = 1 /\ u.token = 1
        BY <4>1 DEF Sessions
      <4>3. session = NoSession \/ session = u
        BY <3>1, <4>1
      <4> QED
        BY <4>2, <4>3, NoSessionIs
    <3>17. \A n \in Names : /\ rows[n].id =< lastId /\ (rows[n].id = 0 => rows[n] = NoRow)
                            /\ Scoped(rows[n], lapses)
      BY <3>5, <3>6, <3>7, <3>10, <3>1a, NoRowIs
    <3>19. lastId \in Nat
      BY <3>1a
    <3>20. \E k : Currents \subseteq {k} /\ (k \in Currents \/ Registered = {})
      BY <3>12
    <3> QED
      BY <3>10, <3>15, <3>16, <3>17, <3>19, <3>20
  <2> QED
    BY <2>1, <2>2 DEF ContextsInit
<1>4. live \subseteq 1..1 /\ secrets \subseteq 1..lastId /\ 1 \in 1..MaxCommands
  BY <1>1, <1>3, ContextsAssumption
<1>5. ContextsTypeOK
  <2>1. proc \in [Procs -> Commands] /\ \A p \in Procs : proc[p].dirs \subseteq 0..lastId
    BY <1>1, <1>2, IdleIs
  <2> QED
    BY <1>1, <1>3, <1>4, <2>1 DEF ContextsTypeOK
<1>6. OneCurrent
  <2>1. CASE Currents = {}
    <3>1. Cardinality(Currents) = 0
      BY <2>1, FS_EmptySet
    <3>2. Registered = {}
      BY <1>3, <2>1
    <3> QED
      BY <3>1, <3>2 DEF OneCurrent
  <2>2. CASE Currents # {}
    <3>1. PICK c : Currents = {c}
      BY <1>3, <2>2
    <3>2. Cardinality({c}) = 1
      BY FS_Singleton
    <3>3. Cardinality(Currents) = 1
      BY <3>1, <3>2
    <3> QED
      BY <2>2, <3>3 DEF OneCurrent
  <2> QED
    BY <2>1, <2>2
<1>7. TokenIsOwn /\ SecretsHaveContext /\ RowsInv
  BY <1>1, <1>3 DEF TokenIsOwn, SecretsHaveContext, RowsInv, Exists
<1>8. CommandsInv
  BY <1>2, IdleFine DEF CommandsInv, Fine
<1> QED
  BY <1>5, <1>6, <1>7, <1>8 DEF ContextsInv

LEMMA ContextsStep == ContextsInv /\ [ContextsNext]_contextsVars => ContextsInv'
<1> SUFFICES ASSUME ContextsInv, [ContextsNext]_contextsVars PROVE ContextsInv'
  OBVIOUS
<1>1. CASE TokenExpires
  BY <1>1, TokenExpiresStep
<1>2. CASE UNCHANGED contextsVars
  BY <1>2, StutterStep
<1>3. ASSUME NEW p \in Procs, Start(p) PROVE ContextsInv'
  BY <1>3, StartStep
<1>4. ASSUME NEW p \in Procs, Step(p) PROVE ContextsInv'
  <2>1. CASE Open(p) \/ Prelude(p) \/ EarlyToken(p) \/ OwnSecrets(p)
    BY <2>1, OpenStep, PreludeStep, EarlyTokenStep
  <2>2. CASE CheckName(p) \/ ClearFirst(p) \/ Insert(p) \/ Unset(p) \/ Set(p)
    BY <2>2, CheckNameStep, ClearStep, InsertStep, SetStep
  <2>3. CASE Lookup(p) \/ Forget(p) \/ Drop(p)
    BY <2>3, LookupStep, ForgetStep, DropStep
  <2>4. CASE PerformLogin(p) \/ SaveSession(p) \/ Register(p) \/ Remember(p)
    BY <2>4, PerformLoginStep, SaveSessionStep, RegisterStep, RememberStep
  <2>5. CASE StartLogout(p) \/ RevokeSession(p) \/ ClearSession(p)
    BY <2>5, LogoutStep, ClearSessionStep
  <2>6. CASE UseClusterMode(p) \/ LoadSession(p) \/ Token(p)
    BY <2>6, UseClusterModeStep, LoadSessionStep, TokenStep
  <2>7. CASE SelectedServerEnvironment(p) \/ SelectedServerOrganization(p) \/ Send(p)
    BY <2>7, ScopeStep, SendStep
  <2>8. CASE Pick(p) \/ Select(p) \/ Target(p) \/ Keep(p) \/ LookupDir(p) \/ Done(p) \/ Stop(p)
    BY <2>8, PickStep, SelectStep, TargetStep, KeepStep, LookupDirStep, StopStep
  <2> QED
    BY <1>4, <2>1, <2>2, <2>3, <2>4, <2>5, <2>6, <2>7, <2>8 DEF Step
<1> QED
  BY <1>1, <1>2, <1>3, <1>4 DEF ContextsNext

(* For any number of commands run side by side, of contexts, servers and   *)
(* organizations: but for the windows that have been hit, one context is   *)
(* current, the token kept is that of the session beside it, no secrets    *)
(* outlive their context, a selection stays on the server of its context,  *)
(* an environment on its organization unless one was selected with --org,  *)
(* and no command is misled by what it has looked at (internal/repository, *)
(* internal/session, cmd/shared).                                          *)
THEOREM ContextsInvariant == ContextsSpec => []ContextsInv
<1>1. ContextsInit => ContextsInv
  BY ContextsStart
<1>2. ContextsInv /\ [ContextsNext]_contextsVars => ContextsInv'
  BY ContextsStep
<1> QED
  BY <1>1, <1>2, PTL DEF ContextsSpec

LEMMA MeantByInv == ContextsInv => ActsWhereMeant
<1> SUFFICES ASSUME ContextsInv, NEW p \in Procs, At(p, "done")
             PROVE  IF proc[p].dirs # {} THEN LocalStaysLocal(proc[p]) ELSE SentInScope(proc[p])
  BY DEF ActsWhereMeant
<1>1. PICK c : c = proc[p]
  OBVIOUS
<1>2. c \in Commands /\ Routed(c) /\ Fine(c) /\ c.at = "done"
  BY <1>1, CommandsAre DEF At
<1>3. CASE c.dirs # {}
  <2>1. Worked(c)
    BY <1>2, <1>3 DEF Worked
  <2> QED
    BY <1>1, <1>2, <1>3, <2>1 DEF Fine, Aimed, AsSeen, LocalStaysLocal
<1>4. CASE c.dirs = {}
  <2>1. Sent(c)
    BY <1>2, <1>4 DEF Sent
  <2>2. c.sess.api = c.meant.api /\ (Unexcused({"relogged"}) => c.sess.token = c.sess.sid)
    BY <1>2, <2>1 DEF Fine, Aimed
  <2>3. ASSUME Unexcused({"switched"})
        PROVE  /\ c.org = OrgFor(c)
               /\ c.op = "work" /\ c.scoped => c.env = EnvFor(c)
               /\ c.org # None => c.org[1] = c.sess.api
               /\ c.env # None => c.env[1] = c.sess.api
               /\ c.env # None /\ c.forOrg = None /\ Unexcused({"foreign"})
                    => c.env = IF c.org = None THEN <<c.sess.api, None>> ELSE c.org
    <3>1. PICK e : e = [c EXCEPT !.env = EnvFor(c)]
      OBVIOUS
    <3>2. e.op = c.op /\ e.scoped = c.scoped /\ e.env = EnvFor(c)
      BY <1>2, <3>1 DEF Commands
    <3>3. Scoped(c.meant, lapses) /\ c.org = OrgFor(c) /\ c.env = EnvPath(e)
      BY <1>2, <2>1, <2>3, <3>1 DEF Fine, AsSeen
    <3>4. c.env = IF c.op = "work" /\ c.scoped THEN EnvFor(c) ELSE None
      BY <3>2, <3>3 DEF EnvPath
    <3>5. c.env # None => c.env = c.meant.env
      BY <3>4 DEF EnvFor
    <3>6. c.org # None => c.org[1] = c.sess.api
      BY <2>2, <3>3 DEF OrgFor, Scoped
    <3>7. c.env # None => /\ c.env[1] = c.sess.api
                          /\ "foreign" \notin lapses =>
                               c.env = IF c.meant.org = None THEN <<c.sess.api, None>> ELSE c.meant.org
      BY <2>2, <3>3, <3>5 DEF Scoped
    <3>8. c.forOrg = None => c.org = c.meant.org
      BY <3>3 DEF OrgFor
    <3> QED
      BY <3>3, <3>4, <3>6, <3>7, <3>8 DEF Unexcused
  <2> QED
    BY <1>1, <1>4, <2>2, <2>3 DEF SentInScope
<1> QED
  BY <1>1, <1>3, <1>4

(* A command that worked on files did so in the directory, and with the    *)
(* secrets, of a context that is not one of a server; a request went to    *)
(* the server of the context it was meant for, with the token of a session *)
(* there, to the organization and the environment that --org and --env     *)
(* name, or else those selected on the context; without --org, and but for *)
(* a selection made with it, the environment is of that organization       *)
(* (cmd/shared: UseClusterMode, NewAPIClient, CreateStateManager).         *)
THEOREM CommandsActWhereMeant == ContextsSpec => []ActsWhereMeant
<1>1. ContextsInv => ActsWhereMeant
  BY MeantByInv
<1> QED
  BY <1>1, ContextsInvariant, PTL

=============================================================================
