------------------------------- MODULE Fleet -------------------------------
(***************************************************************************)
(* How requests of one organization find its clusters: the environments    *)
(* their names are made of (internal/api/environmentnaming.go), the        *)
(* reconciling clusters registered for it, and the client that each pod of *)
(* the API server keeps for each of them.  Rows of the SQL store and       *)
(* objects on a reconciling cluster are read and written one call at a     *)
(* time by handlers that run side by side.  The steps of a move between    *)
(* reconciling clusters are here as far as they touch these; what may come *)
(* between them and a deletion of the organization is OrgPlacement's.      *)
(***************************************************************************)
EXTENDS Naturals, Sequences

CONSTANTS
    Pods,         \* replicas of the API server
    Workers,      \* requests that may be in flight at a time
    Default,      \* orgdb.DefaultEnvironmentName; a name is the sequence of its parts
    Extra,        \* other names of environments
    Shorts,       \* names users give to clusters
    NoEnv,        \* no ?env=, or no label
    Nobody,       \* no pod, no registration
    Own,          \* names of reconciling clusters of the organization's own
    Kubeconfigs,  \* each leads to a physical cluster
    Home,         \* the control plane's own cluster
    Legacy,       \* clusters made before there were environments
    MaxRequests   \* bound on requests

Envs   == {Default} \cup Extra
Places == {Home} \cup Kubeconfigs

(* joinEnvironmentName.                                                    *)
Join(e, s) == e \o s

(* What a caller may name: a short name, or what an object is really called.*)
Names == Shorts \cup Legacy \cup {Join(e, s) : e \in Envs, s \in Shorts}

ASSUME FleetAssumption ==
    /\ Default \notin Extra /\ NoEnv \notin Envs /\ Home \notin Kubeconfigs
    /\ MaxRequests \in Nat \ {0}

VARIABLES
    envs,    \* rows of environments: the id of each, 0 for none
    regs,    \* rows of reconciling_clusters: id (0: none), kubeconfig, who set it last
    org,     \* the row of organizations: reconciling_cluster_id (0: Home), and its lock
    objs,    \* ClusterDefinitions on each physical cluster
    cache,   \* per pod: reconcilingClusterClients
    req,     \* the request of each worker
    served,  \* requests so far; also numbers the rows
    owed,    \* history: what was made and not deleted since
    excuse   \* history: the windows that have been hit

vars == <<envs, regs, org, objs, cache, req, served, owed, excuse>>

Windows == {
    "namesake",   \* two environments and short names join to one name
    "unknownEnv", \* a request's environment was not found and its name taken literally
    "late",       \* a cluster was made, or copied by a move, while its environment
                  \* was being deleted
    "elsewhere",  \* a call went to a physical cluster the organization is not on
    "unlocked",   \* a write or a second move came in while a move held the lock
    "leftover",   \* the destination of a move had objects from an earlier stay
    "repointed",  \* the active registration was given the kubeconfig of another cluster
    "answerLost", \* a kubeconfig was stored and its handler told that it was not
    "removed",    \* a registration was removed while a move to it was under way
    "lockLost"    \* a move ended without clearing its lock
    }

Steps == {"idle", "insertEnv", "client", "inUse", "deleteEnv", "name", "create",
          "address", "touch", "insertReg", "rotate", "invalidate", "deleteReg",
          "dest", "lock", "copy", "flip"}
Kinds == {"cluster", "template", "workflow", "resource"}
Idle == [op |-> "idle", at |-> "idle", pod |-> Nobody,
         kind |-> "cluster", env |-> NoEnv, name |-> <<>>, real |-> <<>>,
         row |-> 0, own |-> Nobody, kc |-> Home, place |-> Home, dest |-> Home, go |-> FALSE]

NoReg == [id |-> 0, kc |-> Home, by |-> Nobody]

NoRegs == [n \in Own |-> NoReg]

Real(o) == IF o.env = NoEnv THEN o.short ELSE Join(o.env, o.short)
Same(o, x) == o.kind = x.kind /\ Real(o) = Real(x)

(* The object as its makers know it.                                      *)
Asked(o) == <<o.kind, o.env, o.short>>

(* What may be on Home when we begin: a cluster from before there were     *)
(* environments, or of one besides Default.                                *)
Olds == [kind : {"cluster"}, env : {NoEnv}, short : Legacy, own : {TRUE}]
        \cup [kind : {"cluster"}, env : Extra, short : Shorts, own : {TRUE}]

(* An organization that is new, or has environments and a cluster, or has  *)
(* moved away from Home, where its cluster stays behind, and has deleted it*)
(* since.                                                                  *)
Init ==
    /\ \E moved \in BOOLEAN, old \in {{}} \cup {{o} : o \in Olds} :
         /\ moved => old # {}
         /\ envs = [x \in Envs |-> IF x = Default \/ ~(moved \/ old = {}) THEN 1 ELSE 0]
         /\ \E n \in Own, k \in Kubeconfigs, p \in Pods :
              regs = IF moved
                     THEN [NoRegs EXCEPT ![n] = [id |-> 1, kc |-> k, by |-> p]] ELSE NoRegs
         /\ org = [at |-> IF moved THEN 1 ELSE 0, locked |-> FALSE]
         /\ objs = [p \in Places |-> IF p = Home THEN old ELSE {}]
         /\ owed = IF moved THEN {} ELSE {Asked(o) : o \in old}
    /\ cache = [p \in Pods |-> {}]
    /\ req = [w \in Workers |-> Idle]
    /\ served = 1
    /\ excuse = {}

-----------------------------------------------------------------------------
At(w, step)   == req[w].at = step
Goto(w, step) == req' = [req EXCEPT ![w].at = step]
End(w)        == req' = [req EXCEPT ![w] = Idle]
Hit(cond, window) == IF cond THEN {window} ELSE {}
Record(hits)  == excuse' = excuse \cup hits
Doing(ops, steps) == \E w \in Workers : req[w].op \in ops /\ req[w].at \in steps

Registered(id) == \E n \in Own : regs[n].id = id
Kubeconfig(id) == regs[CHOOSE n \in Own : regs[n].id = id].kc

(* Where the organization's requests belong.                               *)
Served == IF org.at = 0 THEN Home ELSE Kubeconfig(org.at)

(* reconcilingClusterClientHandle: the client that is cached, or a new one *)
(* from the kubeconfig in the row.  The mutex is held from the read of the *)
(* row until the client is cached, so an invalidation comes before or after*)
(* both.                                                                   *)
Cached(pod, id) == {h.kc : h \in {x \in cache[pod] : x.id = id}}
Client(pod, id) ==
    IF id = 0 THEN Home
    ELSE IF Cached(pod, id) # {} THEN CHOOSE k \in Cached(pod, id) : TRUE
    ELSE Kubeconfig(id)
CacheClient(pod, id) ==
    cache' = [cache EXCEPT ![pod] =
        IF id = 0 \/ Cached(pod, id) # {} THEN @
        ELSE @ \cup {[id |-> id, kc |-> Kubeconfig(id)]}]

(* A request arrives at a pod.                                             *)
Arrive(w, r) ==
    /\ req[w] = Idle /\ served < MaxRequests
    /\ served' = served + 1
    /\ \E pod \in Pods : req' = [req EXCEPT ![w] = [r EXCEPT !.pod = pod]]
    /\ UNCHANGED <<envs, regs, org, objs, cache, owed, excuse>>

-----------------------------------------------------------------------------
(* Environments.                                                           *)

(* handleCreateOrgEnvironment: none of the name was found.                 *)
CreateEnv(w, e) ==
    /\ envs[e] = 0
    /\ Arrive(w, [Idle EXCEPT !.op = "createEnv", !.at = "insertEnv", !.env = e,
                              !.row = served + 1])

(* CreateEnvironment: the name is unique in the organization.              *)
InsertEnv(w) ==
    LET e == req[w].env IN
    /\ At(w, "insertEnv") /\ End(w)
    /\ envs' = [envs EXCEPT ![e] = IF @ = 0 THEN req[w].row ELSE @]
    /\ UNCHANGED <<regs, org, objs, cache, served, owed, excuse>>

(* handleDeleteOrgEnvironment: never "default", so never the last one.     *)
DeleteEnv(w, e) ==
    /\ e # Default /\ envs[e] # 0
    /\ Arrive(w, [Idle EXCEPT !.op = "deleteEnv", !.at = "client", !.env = e,
                              !.row = envs[e]])

(* Mutant of EnvironmentInUse: nothing looks for clusters of it.           *)
EnvironmentNotInUse(e, p) == FALSE

(* environmentInUse: some cluster bears its label.                         *)
EnvironmentInUse(e, p) == \E o \in objs[p] : o.env = e

CheckInUse(w) ==
    /\ At(w, "inUse")
    /\ IF EnvironmentInUse(req[w].env, req[w].place) THEN End(w) ELSE Goto(w, "deleteEnv")
    /\ UNCHANGED <<envs, regs, org, objs, cache, served, owed, excuse>>

(* An environment that was found unused, and is about to be deleted.       *)
Unused(e) == \E w \in Workers : At(w, "deleteEnv") /\ req[w].env = e

(* A request that has this environment's name for a cluster yet to be made.*)
Naming(e) == \E w \in Workers : req[w].op = "create" /\ At(w, "create") /\ req[w].env = e

(* DeleteEnvironment, by id.                                               *)
DeleteEnvRow(w) ==
    LET r == req[w] IN
    /\ At(w, "deleteEnv") /\ End(w)
    /\ envs' = [envs EXCEPT ![r.env] = IF @ = r.row THEN 0 ELSE @]
    /\ Record(Hit(Naming(r.env), "late") \cup Hit(r.place # Served, "elsewhere"))
    /\ UNCHANGED <<regs, org, objs, cache, served, owed>>

-----------------------------------------------------------------------------
(* Clusters, behind requireOrganizationNotMigrating (which lets a request  *)
(* in whose look at the lock fails, as if it had come before the move).    *)

Unlocked == ~org.locked

(* handleCreateCluster.                                                    *)
CreateCluster(w, e, s) ==
    /\ Unlocked
    /\ Arrive(w, [Idle EXCEPT !.op = "create", !.at = "client", !.env = e, !.name = s])

(* handleUpdateCluster and handleDeleteCluster.                            *)
TouchCluster(w, op, e, n) ==
    /\ Unlocked
    /\ Arrive(w, [Idle EXCEPT !.op = op, !.at = "address", !.env = e, !.name = n])

(* Templates, workflows and resources belong to no environment.            *)
CreateBlueprint(w, kind, n) ==
    /\ Unlocked
    /\ Arrive(w, [Idle EXCEPT !.op = "create", !.at = "client", !.kind = kind, !.name = n])

TouchBlueprint(w, op, kind, n) ==
    /\ Unlocked
    /\ Arrive(w, [Idle EXCEPT !.op = op, !.at = "client", !.kind = kind, !.real = n])

CreateTemplate(w, n) == CreateBlueprint(w, "template", n)
CreateWorkflow(w, n) == CreateBlueprint(w, "workflow", n)
CreateResource(w, n) == CreateBlueprint(w, "resource", n)
TouchTemplate(w, op, n) == TouchBlueprint(w, op, "template", n)
TouchWorkflow(w, op, n) == TouchBlueprint(w, op, "workflow", n)
TouchResource(w, op, n) == TouchBlueprint(w, op, "resource", n)

AfterClient(r) ==
    CASE r.op = "deleteEnv" -> "inUse"
      [] r.op = "create"    -> IF r.kind = "cluster" THEN "name" ELSE "create"
      [] r.op = "switch"    -> "dest"
      [] OTHER              -> "touch"

(* resourceClient, once for each request that needs it.                    *)
Resolve(w) ==
    LET r == req[w] IN
    /\ At(w, "client")
    /\ CacheClient(r.pod, org.at)
    /\ req' = [req EXCEPT ![w].place = Client(r.pod, org.at), ![w].at = AfterClient(r)]
    /\ UNCHANGED <<envs, regs, org, objs, served, owed, excuse>>

Existing == {e \in Envs : envs[e] # 0}

(* resolveResourceEnvironment: the environment that was asked for, or the  *)
(* only one there is; anything but a singleton is answered with an error.  *)
Candidates(e) == IF e = NoEnv THEN Existing ELSE Existing \cap {e}

(* resolveCreateName.                                                      *)
NameCluster(w) ==
    LET r == req[w] IN
    /\ At(w, "name")
    /\ IF \E e \in Envs : Candidates(r.env) = {e}
       THEN \E e \in Candidates(r.env) :
              req' = [req EXCEPT ![w].at = "create", ![w].env = e, ![w].row = envs[e]]
       ELSE End(w)
    /\ UNCHANGED <<envs, regs, org, objs, cache, served, owed, excuse>>

(* A write goes where it should not, or when.                              *)
Astray(w) == Hit(req[w].place # Served, "elsewhere") \cup Hit(org.locked, "unlocked")

Create(w) ==
    LET r == req[w]
        o == [kind |-> r.kind, env |-> r.env, short |-> r.name, own |-> TRUE]
    IN
    /\ At(w, "create") /\ End(w)
    /\ IF \E x \in objs[r.place] : Same(x, o)
       THEN UNCHANGED <<objs, owed, excuse>>
       ELSE /\ objs' = [objs EXCEPT ![r.place] = @ \cup {o}]
            /\ owed' = owed \cup {Asked(o)}
            /\ Record(Astray(w) \cup Hit(Unused(r.env), "late"))
    /\ UNCHANGED <<envs, regs, org, cache, served>>

(* effectiveEnvironmentLabel of what has no label.                         *)
Effective ==
    IF \E e \in Envs : Existing = {e} THEN CHOOSE e \in Envs : Existing = {e} ELSE Default

(* clusterDefinitionExists.                                                *)
Exists(n, p) == \E o \in objs[p] : o.kind = "cluster" /\ Real(o) = n

(* Mutant of Addressed: an object that is really called so goes first.     *)
LiteralFirst(e, n, p) ==
    IF Exists(n, p) \/ (e # NoEnv /\ e \notin Existing) THEN n
    ELSE Join(IF e = NoEnv THEN Effective ELSE e, n)

(* resolveAddressedName: a name in the environment that was asked for, if  *)
(* there is such; without one an object that is really called so goes first.*)
Addressed(e, n, p) ==
    IF IF e = NoEnv THEN Exists(n, p) ELSE e \notin Existing THEN n
    ELSE Join(IF e = NoEnv THEN Effective ELSE e, n)

(* Go on with a real name; guessed says that the environment was not found.*)
Named(w, real, guessed) ==
    req' = [req EXCEPT ![w].at = "client", ![w].real = real, ![w].go = guessed]

Address(w) ==
    LET r == req[w] IN
    /\ At(w, "address")
    /\ IF r.env = NoEnv THEN CacheClient(r.pod, org.at) ELSE UNCHANGED cache
    /\ Named(w, Addressed(r.env, r.name, Client(r.pod, org.at)),
             r.env # NoEnv /\ r.env \notin Existing)
    /\ UNCHANGED <<envs, regs, org, objs, served, owed, excuse>>

(* What a request may be taken to mean by the object it reaches.           *)
Means(r, o) == r.env = NoEnv \/ o.env = r.env

(* The Get and Update, or the Delete, of the object by its real name.      *)
Touch(w) ==
    LET r == req[w]
        hits == {o \in objs[r.place] : o.kind = r.kind /\ Real(o) = r.real}
        meant == {o \in hits : Means(r, o)}
        others == hits \ meant
    IN /\ At(w, "touch") /\ End(w)
       /\ IF r.op = "delete"
          THEN /\ objs' = [objs EXCEPT ![r.place] = @ \ hits]
               /\ owed' = owed \ {Asked(o) : o \in meant}
          ELSE /\ objs' = [objs EXCEPT ![r.place] =
                      (@ \ others) \cup {[o EXCEPT !.own = FALSE] : o \in others}]
               /\ UNCHANGED owed
       /\ IF hits = {} THEN UNCHANGED excuse
          ELSE Record(Astray(w)
                      \cup Hit(hits # meant /\ r.go, "unknownEnv")
                      \cup Hit(hits # meant /\ r.real = Join(r.env, r.name), "namesake"))
       /\ UNCHANGED <<envs, regs, org, cache, served>>

-----------------------------------------------------------------------------
(* migrateOrganizationToTarget, before it begins.                          *)
Moving(id) == [Idle EXCEPT !.op = "switch", !.at = "client", !.row = id]

(* Registered reconciling clusters.                                        *)

(* upsertOrgReconcilingCluster: of a POST, or of a PUT that goes on to     *)
(* switch to the cluster; the lock was read before.                        *)
Register(w, n, kc, switch) ==
    Arrive(w, [Idle EXCEPT
        !.op = IF switch THEN "switch" ELSE "register",
        !.at = IF regs[n].id = 0 THEN "insertReg" ELSE "rotate",
        !.own = n, !.kc = kc, !.go = Unlocked /\ (regs[n].id = 0 \/ regs[n].id # org.at),
        !.row = IF regs[n].id = 0 THEN served + 1 ELSE regs[n].id])

(* A PUT goes on to the move if its checks let it.                         *)
Onward(w) ==
    LET r == req[w] IN
    req' = [req EXCEPT ![w] =
        IF r.op = "switch" /\ r.go THEN [Moving(r.row) EXCEPT !.pod = r.pod] ELSE Idle]

(* CreateReconcilingCluster: the name is unique in the organization.       *)
InsertReg(w) ==
    LET r == req[w] IN
    /\ At(w, "insertReg")
    /\ IF regs[r.own].id # 0
       THEN End(w) /\ UNCHANGED regs
       ELSE /\ regs' = [regs EXCEPT ![r.own] = [id |-> r.row, kc |-> r.kc, by |-> r.pod]]
            /\ Onward(w)
    /\ UNCHANGED <<envs, org, objs, cache, served, owed, excuse>>

Stored(w) ==
    LET r == req[w] IN
    IF regs[r.own].id = r.row
    THEN [regs EXCEPT ![r.own] = [@ EXCEPT !.kc = r.kc, !.by = r.pod]]
    ELSE regs

Repointed(w) ==
    Hit(regs[req[w].own].id = req[w].row /\ org.at = req[w].row
        /\ regs[req[w].own].kc # req[w].kc, "repointed")

(* SetReconcilingClusterKubeconfig, by id.                                 *)
Rotate(w) ==
    /\ At(w, "rotate") /\ Goto(w, "invalidate")
    /\ regs' = Stored(w)
    /\ Record(Repointed(w))
    /\ UNCHANGED <<envs, org, objs, cache, served, owed>>

(* Mutant: the pod keeps its client.                                       *)
InvalidateNothing(w) ==
    LET r == req[w] IN
    /\ At(w, "invalidate")
    /\ IF regs[r.own].id = r.row THEN Onward(w) ELSE End(w)
    /\ UNCHANGED <<envs, regs, org, objs, cache, served, owed, excuse>>

(* invalidateReconcilingClusterClient, in this pod.                        *)
Invalidate(w) ==
    LET r == req[w] IN
    /\ At(w, "invalidate")
    /\ cache' = [cache EXCEPT ![r.pod] = {h \in @ : h.id # r.row}]
    /\ IF regs[r.own].id = r.row THEN Onward(w) ELSE End(w)
    /\ UNCHANGED <<envs, regs, org, objs, served, owed, excuse>>

(* handleRemoveOrgReconcilingCluster: not the active one.                  *)
Remove(w, n) ==
    /\ regs[n].id # 0 /\ org.at # regs[n].id
    /\ Arrive(w, [Idle EXCEPT !.op = "remove", !.at = "deleteReg", !.own = n,
                              !.row = regs[n].id])

(* DeleteReconcilingCluster: the organization's reference forbids it.      *)
DeleteReg(w) ==
    LET r == req[w] IN
    /\ At(w, "deleteReg")
    /\ IF org.at = r.row
       THEN End(w) /\ UNCHANGED <<regs, excuse>>
       ELSE /\ regs' = [regs EXCEPT ![r.own] = IF @.id = r.row THEN NoReg ELSE @]
            /\ Record(Hit(\E m \in Workers : req[m].op = "switch" /\ req[m].row = r.row
                                             /\ req[m].at # "idle", "removed"))
            /\ Goto(w, "invalidate")
    /\ UNCHANGED <<envs, org, objs, cache, served, owed>>

-----------------------------------------------------------------------------
(* migrateOrganizationToTarget.                                            *)

(* handlePutOrgReconcilingCluster by name, or back home.                   *)
Switch(w, id) ==
    /\ Unlocked /\ org.at # id
    /\ id = 0 \/ Registered(id)
    /\ Arrive(w, Moving(id))

Destination(w) ==
    LET r == req[w] IN
    /\ At(w, "dest")
    /\ IF r.row = 0 \/ Cached(r.pod, r.row) # {} \/ Registered(r.row)
       THEN /\ CacheClient(r.pod, r.row)
            /\ req' = [req EXCEPT ![w].dest = Client(r.pod, r.row), ![w].at = "lock"]
       ELSE End(w) /\ UNCHANGED cache
    /\ UNCHANGED <<envs, regs, org, objs, served, owed, excuse>>

Lock(w) ==
    /\ At(w, "lock") /\ Goto(w, "copy")
    /\ org' = [org EXCEPT !.locked = TRUE]
    /\ Record(Hit(org.locked, "unlocked") \cup Hit(req[w].place # Served, "elsewhere"))
    /\ UNCHANGED <<envs, regs, objs, cache, served, owed>>

(* createOrSkip...: what the destination has already is skipped.           *)
Missing(from, to) == {o \in objs[from] : \A x \in objs[to] : ~Same(x, o)}

(* runOrganizationMigration; what the destination has besides stays.       *)
Copy(w) ==
    LET r == req[w] IN
    /\ At(w, "copy") /\ Goto(w, "flip")
    /\ objs' = [objs EXCEPT ![r.dest] = @ \cup Missing(r.place, r.dest)]
    /\ Record(Hit(objs'[r.dest] # objs[r.place], "leftover")
              \cup Hit(\E o \in Missing(r.place, r.dest) : Unused(o.env), "late"))
    /\ UNCHANGED <<envs, regs, org, cache, served, owed>>

(* SetOrganizationReconcilingCluster: of a cluster whose row is gone it    *)
(* fails, and nothing clears the lock.                                     *)
Flip(w) ==
    LET r == req[w] IN
    /\ At(w, "flip") /\ End(w)
    /\ IF r.row = 0 \/ Registered(r.row)
       THEN org' = [at |-> r.row, locked |-> FALSE]
       ELSE UNCHANGED org
    /\ Record(Hit(r.row # 0 /\ Registered(r.row) /\ r.dest # Kubeconfig(r.row),
                  "elsewhere"))
    /\ UNCHANGED <<envs, regs, objs, cache, served, owed>>

-----------------------------------------------------------------------------
(* A call fails.  A failed copy is followed by the call that clears the    *)
(* lock; the last update is not.  An UPDATE that is reported to have failed*)
(* may have been done.                                                     *)
Fail(w) ==
    LET r == req[w] IN
    /\ r.at \notin {"idle", "address", "invalidate"} /\ End(w)
    /\ org' = IF At(w, "copy") THEN [org EXCEPT !.locked = FALSE] ELSE org
    /\ \/ /\ UNCHANGED regs
          /\ Record(Hit(At(w, "flip"), "lockLost"))
       \/ /\ At(w, "rotate") /\ regs' = Stored(w)
          /\ Record(Repointed(w) \cup {"answerLost"})
    /\ UNCHANGED <<envs, objs, cache, served, owed>>

(* A lookup of resolveAddressedName that fails counts as finding nothing.  *)
FailLookup(w) ==
    LET r == req[w] IN
    /\ At(w, "address")
    /\ \/ Named(w, r.name, r.env # NoEnv)
       \/ r.env = NoEnv /\ Named(w, Join(Effective, r.name), FALSE)
    /\ UNCHANGED <<envs, regs, org, objs, cache, served, owed, excuse>>

(* A pod dies, and starts with no client.                                  *)
Restart(p) ==
    /\ cache' = [cache EXCEPT ![p] = {}]
    /\ req' = [w \in Workers |-> IF req[w].pod = p THEN Idle ELSE req[w]]
    /\ Record(Hit(\E w \in Workers : req[w].pod = p /\ req[w].at \in {"copy", "flip"},
                  "lockLost"))
    /\ UNCHANGED <<envs, regs, org, objs, served, owed>>

Handle(w) ==
    /\ req[w] = Idle /\ served < MaxRequests
    /\ \/ \E e \in Extra : CreateEnv(w, e) \/ DeleteEnv(w, e)
       \/ \E e \in Envs \cup {NoEnv}, s \in Shorts : CreateCluster(w, e, s)
       \/ \E op \in {"update", "delete"} :
            \/ \E e \in Envs, s \in Shorts : TouchCluster(w, op, e, s)
            \/ \E n \in Names : TouchCluster(w, op, NoEnv, n)
            \/ \E n \in Shorts : TouchTemplate(w, op, n)
            \/ \E n \in Shorts : TouchWorkflow(w, op, n)
            \/ \E n \in Shorts : TouchResource(w, op, n)
       \/ \E n \in Shorts : CreateTemplate(w, n)
       \/ \E n \in Shorts : CreateWorkflow(w, n)
       \/ \E n \in Shorts : CreateResource(w, n)
       \/ \E n \in Own, kc \in Kubeconfigs, s \in BOOLEAN : Register(w, n, kc, s)
       \/ \E n \in Own : Remove(w, n) \/ Switch(w, regs[n].id)
       \/ Switch(w, 0)

Proceed(w) ==
    \/ InsertEnv(w) \/ CheckInUse(w) \/ DeleteEnvRow(w)
    \/ Resolve(w) \/ NameCluster(w) \/ Create(w) \/ Address(w) \/ Touch(w)
    \/ InsertReg(w) \/ Rotate(w) \/ Invalidate(w) \/ DeleteReg(w)
    \/ Destination(w) \/ Lock(w) \/ Copy(w) \/ Flip(w)

Next ==
    \/ \E w \in Workers : Handle(w) \/ Proceed(w) \/ Fail(w) \/ FailLookup(w)
    \/ \E p \in Pods : Restart(p)

Spec == Init /\ [][Next]_vars

-----------------------------------------------------------------------------
(* Properties.                                                             *)

Obj == [kind : Kinds, env : Envs \cup {NoEnv}, short : Shorts \cup Legacy, own : BOOLEAN]

(* A request; what it names is a short name or what an object is called.   *)
Called == {<<>>} \cup Names
Reals  == Called \cup {Join(e, n) : e \in Envs, n \in Called}
Ops    == {"idle", "createEnv", "deleteEnv", "create", "update", "delete",
           "register", "switch", "remove"}
Reqs   == [op : Ops, at : Steps, pod : Pods \cup {Nobody}, kind : Kinds,
           env : Envs \cup {NoEnv}, name : Called, real : Reals, row : Nat,
           own : Own \cup {Nobody}, kc : Places, place : Places, dest : Places, go : BOOLEAN]

TypeOK ==
    /\ envs \in [Envs -> Nat]
    /\ regs \in [Own -> [id : Nat, kc : Places, by : Pods \cup {Nobody}]]
    /\ org \in [at : Nat, locked : BOOLEAN]
    /\ objs \in [Places -> SUBSET Obj]
    /\ cache \in [Pods -> SUBSET [id : Nat, kc : Places]]
    /\ req \in [Workers -> Reqs]
    /\ served \in 1 .. MaxRequests
    /\ owed \subseteq Kinds \X (Envs \cup {NoEnv}) \X (Shorts \cup Legacy)
    /\ excuse \subseteq Windows

Excused(windows) == excuse \cap windows # {}

(* The organization is on Home or on a cluster that is registered.         *)
ActiveRegistered == org.at = 0 \/ Registered(org.at)

(* The pod that stored a kubeconfig last has no client of an older one,    *)
(* except until it has invalidated it.                                     *)
HandleFresh ==
    \A n \in Own :
        \/ regs[n].id = 0
        \/ Cached(regs[n].by, regs[n].id) \subseteq {regs[n].kc}
        \/ \E w \in Workers : At(w, "invalidate") /\ req[w].row = regs[n].id
                              /\ req[w].pod = regs[n].by
        \/ Excused({"answerLost"})

(* The lock of a move is held by a move that is under way.                 *)
LockHasHolder ==
    org.locked => \/ \E w \in Workers : req[w].at \in {"copy", "flip"}
                  \/ Excused({"lockLost", "removed"})

(* What holds of the rows, the clients and the lock in every state: the    *)
(* parts above, for handlers of several pods in any order.                 *)
FleetInv == TypeOK /\ ActiveRegistered /\ HandleFresh /\ LockHasHolder

(* What a user made and nobody deleted by its name is on the cluster that  *)
(* serves the organization, with the spec that users of its environment    *)
(* gave it: no request meant for another takes it away, and every move     *)
(* takes it along, but for the windows named.                              *)
KeepsWhatWasMade ==
    \/ \A a \in owed : \E o \in objs[Served] : Asked(o) = a /\ o.own
    \/ Excused({"elsewhere", "unlocked", "repointed", "namesake", "unknownEnv",
                "leftover"})

(* A cluster's label names an environment of the organization, so that one *)
(* is never deleted under its clusters (environmentInUse).                 *)
LabelHasEnvironment ==
    \/ \A o \in objs[Served] : o.env = NoEnv \/ envs[o.env] # 0
    \/ Excused({"late", "elsewhere", "unlocked", "repointed", "leftover"})

-----------------------------------------------------------------------------
(* The inductive invariant behind them: what the rows, the clients and the *)
(* requests under way have to do with each other.                          *)

(* Each registration has a number of its own, that no client of another    *)
(* registration has and no later row will get.                             *)
RowsNumbered ==
    /\ \A m, n \in Own : regs[m].id = regs[n].id /\ regs[m].id # 0 => m = n
    /\ \A n \in Own : regs[n].id <= served /\ (regs[n].id # 0 => regs[n].by \in Pods)
    /\ \A p \in Pods : \A h \in cache[p] : h.id <= served
    /\ served >= 1

(* The row of a registration about to be made is nobody's yet.             *)
NewRow(w) ==
    At(w, "insertReg") =>
        /\ req[w].row \in 1 .. served
        /\ \A n \in Own : regs[n].id # req[w].row
        /\ \A p \in Pods : \A h \in cache[p] : h.id # req[w].row
        /\ \A x \in Workers : At(x, "insertReg") /\ req[x].row = req[w].row => x = w

(* What a request has with it at each of its steps.                        *)
Carries(w) ==
    /\ ~At(w, "idle") => req[w].pod \in Pods
    /\ req[w].at \in {"insertReg", "rotate", "invalidate", "deleteReg"} => req[w].own \in Own
    /\ At(w, "insertEnv") => req[w].env \in Envs /\ req[w].row # 0
    /\ req[w].op = "deleteEnv" => req[w].env \in Envs
    /\ req[w].at \in {"name", "create"} => req[w].op = "create"
    /\ req[w].op = "create" => /\ req[w].name \in Shorts
                               /\ req[w].kind # "cluster" => req[w].env = NoEnv
    /\ At(w, "name") => req[w].kind = "cluster"
    /\ req[w].at \in {"inUse", "deleteEnv"} => req[w].op = "deleteEnv"
    /\ req[w].at \in {"dest", "lock", "copy", "flip"} => req[w].op = "switch"
    /\ At(w, "client") => req[w].op \in {"deleteEnv", "create", "switch", "update", "delete"}
    /\ req[w].at \in {"address", "touch"} => req[w].op \in {"update", "delete"}
    /\ req[w].at \in {"client", "touch"} /\ req[w].op \in {"update", "delete"} =>
          req[w].env = NoEnv \/ req[w].go \/ req[w].real = Join(req[w].env, req[w].name)

(* The destination of a move is registered, unless it was removed.         *)
ToRegistered(w) ==
    req[w].op = "switch" /\ req[w].at \in {"client", "dest", "lock", "copy", "flip"} =>
        /\ req[w].row = 0 \/ Registered(req[w].row) \/ Excused({"removed"})
        /\ req[w].at \in {"lock", "copy", "flip"} /\ req[w].row = 0 => req[w].dest = Home

(* A move runs alone and copies all there is.                              *)
MovesAll(w) ==
    req[w].at \in {"copy", "flip"} =>
        \/ Excused({"elsewhere", "unlocked", "repointed", "leftover"})
        \/ /\ org.locked /\ req[w].place = Served
           /\ \A x \in Workers : req[x].at \in {"copy", "flip"} => x = w
           /\ At(w, "flip") => objs[req[w].dest] = objs[req[w].place]

(* The environment of a cluster about to be made is there; one about to be *)
(* deleted is that of no cluster.                                          *)
NamesEnv(w) ==
    /\ At(w, "create") => \/ req[w].env = NoEnv \/ envs[req[w].env] # 0
                          \/ Excused({"late"})
    /\ At(w, "deleteEnv") => \/ \A o \in objs[req[w].place] : o.env # req[w].env
                             \/ Excused({"late"})

RequestInv(w) == NewRow(w) /\ Carries(w) /\ ToRegistered(w) /\ MovesAll(w) /\ NamesEnv(w)

ServiceInv ==
    /\ FleetInv /\ RowsNumbered /\ KeepsWhatWasMade /\ LabelHasEnvironment
    /\ \A w \in Workers : RequestInv(w)
=============================================================================
