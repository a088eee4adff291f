-------------------------- MODULE ControllerHandover --------------------------
(***************************************************************************)
(* An organization changes its reconciling cluster while controllers run.  *)
(* Its row says where it is; each controller reads the rows when it starts *)
(* and again on a timer, and exits when its set of namespaces is no longer *)
(* the one it started with; the move copies the definition's spec and then *)
(* its status to the destination.  So for a while two controllers, or      *)
(* none, work on one managed cluster, from two copies of one definition.   *)
(* One definition is followed, with strictResourceDelete on.               *)
(***************************************************************************)
EXTENDS Naturals, FiniteSets

CONSTANTS
    Home,         \* the control plane's own cluster
    Others,       \* the reconciling clusters besides it
    Orgs,         \* organizations, one namespace each
    Org,          \* the one that is followed
    Base,         \* the managed cluster itself
    Extras,       \* what spec.resources may ask for on it
    MaxMoves,     \* bound on moves and copies, of any organization
    MaxEdits,     \* bound on what users ask for
    MaxFailures,  \* bound on failed calls and processes that die
    MaxEvents     \* bound on all three together

ASSUME HandoverAssumption ==
    /\ Home \notin Others /\ Org \in Orgs /\ Base \notin Extras
    /\ {MaxMoves, MaxEdits, MaxFailures, MaxEvents} \subseteq Nat

VARIABLES
    rc,       \* the reconciling cluster in the row of each organization
    locked,   \* the row of Org has a migration status
    watched,  \* per cluster: the controller there, and its namespaces
    def,      \* per cluster: the definition it holds
    live,     \* what runs in the cloud
    pass,     \* per cluster: the pass of its controller
    move,     \* the move, or the copy by hand, that is under way
    requests, \* what users ask for that has passed the check of the lock and is not written
    asked,    \* history: what the last accepted request asked for, {} for nothing
    excuse,   \* history: the windows that have been hit
    count     \* how many moves, edits and faults there were

handoverVars == <<rc, locked, watched, def, live, pass, move, requests, asked, excuse, count>>

Clusters == {Home} \cup Others
Wants    == {{Base} \cup e : e \in SUBSET Extras}
Nothing  == [exists |-> FALSE, dt |-> FALSE, fin |-> FALSE, want |-> {}, known |-> {}]
Idle     == [at |-> "idle", want |-> {}, known |-> {}, dt |-> FALSE]
Still    == [at |-> "idle", from |-> Home, to |-> Home, byHand |-> FALSE, force |-> FALSE,
             def |-> Nothing]

\* What a step may do that leaves the guarantees below without effect.
Windows == {
    "overtaken",   \* a controller acted on a definition that had been copied already,
                   \* or had yet to record what it had applied when it was copied
    "early",       \* the controller at the destination, which had not noticed an earlier
                   \* leave, was in a pass when the row came
    "leftover",    \* the destination had another version, which a copy leaves alone:
                   \* of an earlier stay, or of a copy that failed before the status
    "late",        \* a write that had passed the check of the lock before a move took it came
                   \* to the source after it was copied
    "undeleted",   \* a definition was copied that was being deleted
    "unguarded",   \* a definition went before its controller had put a finalizer on it
    "saveLost",    \* a pass applied something and did not record it
    "byHand"       \* an operator copied the definition over the organization's own
    }

Hit(cond, window) == IF cond THEN {window} ELSE {}
Record(hits)      == excuse' = excuse \cup hits
Within            == count.moves + count.edits + count.faults < MaxEvents
Count(what, max)  == Within /\ count[what] < max /\ count' = [count EXCEPT ![what] = @ + 1]
Failure             == Count("faults", MaxFailures)

(* An organization on the home cluster, with a managed cluster that is up. *)
HandoverInit ==
    LET d == [exists |-> TRUE, dt |-> FALSE, fin |-> TRUE, want |-> asked, known |-> asked \ {Base}]
    IN  /\ rc \in [Orgs -> Clusters] /\ rc[Org] = Home /\ locked = FALSE
        /\ watched = [c \in Clusters |-> [up |-> TRUE, set |-> {o \in Orgs : rc[o] = c}]]
        /\ asked \in Wants
        /\ def = [c \in Clusters |-> IF c = Home THEN d ELSE Nothing]
        /\ live = asked
        /\ pass = [c \in Clusters |-> Idle] /\ move = Still /\ requests = {}
        /\ excuse = {} /\ count = [moves |-> 0, edits |-> 0, faults |-> 0]

-----------------------------------------------------------------------------
(* The controllers, and the rows they read *)

(* ListOrganizationsByReconcilingCluster.                                  *)
OrganizationsOf(c) == {o \in Orgs : rc[o] = c}

(* resolveTargetNamespaces, of a controller that is given its cluster's ID *)
(* and resolves its namespaces from the rows.                              *)
Resolve(c) == OrganizationsOf(c)

(* Mutant of Changed: only the sizes of the two sets are compared.         *)
ChangedSize(c) == Cardinality(Resolve(c)) # Cardinality(watched[c].set)

Changed(c) == Resolve(c) # watched[c].set

(* A reconciler is set up for each of the namespaces.                      *)
Serves(c) == watched[c].up /\ Org \in watched[c].set

(* What a process that ends takes with it.                                 *)
Unsaved(c) == pass[c].at = "save" /\ ~pass[c].dt /\ ~(pass[c].want \ {Base} \subseteq def[c].known)
Exit(c) ==
    /\ watched[c].up
    /\ watched' = [watched EXCEPT ![c] = [up |-> FALSE, set |-> {}]]
    /\ pass' = [pass EXCEPT ![c] = Idle]
    /\ Record(Hit(Unsaved(c), "saveLost"))
    /\ UNCHANGED <<rc, locked, def, live, move, requests, asked>>

(* watchTargetNamespaces finds another set.                                *)
Recheck(c) == Changed(c) /\ Exit(c) /\ UNCHANGED count
Dies(c)   == Failure /\ Exit(c)

(* runController, when Kubernetes has restarted the pod.                   *)
Start(c) ==
    /\ ~watched[c].up
    /\ watched' = [watched EXCEPT ![c] = [up |-> TRUE, set |-> Resolve(c)]]
    /\ UNCHANGED <<rc, locked, def, live, pass, move, requests, asked, excuse, count>>

(* Another organization is moved.                                          *)
Elsewhere(o, c) ==
    /\ o # Org /\ rc[o] # c /\ Count("moves", MaxMoves)
    /\ rc' = [rc EXCEPT ![o] = c]
    /\ UNCHANGED <<locked, watched, def, live, pass, move, requests, asked, excuse>>

(* The organization is no longer, or soon no longer, where this is.        *)
Detached(c) ==
    \/ rc[Org] # c
    \/ move.at \in {"put", "status", "finalize"} /\ ~move.byHand /\ move.from = c

(* Reconcile: a finalizer first, then the pass.                            *)
Begin(c) ==
    /\ Serves(c) /\ pass[c] = Idle /\ def[c].exists
    /\ IF def[c].fin
       THEN /\ pass' = [pass EXCEPT ![c] = [at |-> "apply", want |-> def[c].want,
                                            known |-> def[c].known, dt |-> def[c].dt]]
            /\ UNCHANGED def
       ELSE /\ def' = [def EXCEPT ![c].fin = TRUE]
            /\ UNCHANGED pass
    /\ UNCHANGED <<rc, locked, watched, live, move, requests, asked, excuse, count>>

(* The driver's create or delete, and the resources: what the spec asks    *)
(* for is applied, what is recorded beyond it is pruned.                   *)
Apply(c) ==
    /\ pass[c].at = "apply"
    /\ live' = IF pass[c].dt THEN {} ELSE (live \ (pass[c].known \ pass[c].want)) \cup pass[c].want
    /\ pass' = [pass EXCEPT ![c].at = "save"]
    /\ Record(Hit(Detached(c) /\ live' # live, "overtaken"))
    /\ UNCHANGED <<rc, locked, watched, def, move, requests, asked, count>>

(* SaveClusterDefinition, or the finalizer's removal.                      *)
Save(c) ==
    /\ pass[c].at = "save"
    /\ \/ /\ def' = [def EXCEPT ![c] = IF pass[c].dt \/ ~def[c].exists THEN Nothing
                                       ELSE [@ EXCEPT !.known = pass[c].want \ {Base}]]
          /\ Record(Hit(Detached(c) /\ def' # def, "overtaken"))
          /\ UNCHANGED count
       \/ Failure /\ Record(Hit(Unsaved(c), "saveLost")) /\ UNCHANGED def
    /\ pass' = [pass EXCEPT ![c] = Idle]
    /\ UNCHANGED <<rc, locked, watched, live, move, requests, asked>>

-----------------------------------------------------------------------------
(* Users, through the API: the cluster in the row, unless it is locked *)

(* Mutant of Accept: nothing looks at the lock.                            *)
AcceptAlways(want) ==
    /\ Count("edits", MaxEdits)
    /\ requests' = requests \cup {[at |-> rc[Org], want |-> want, late |-> FALSE]}
    /\ UNCHANGED <<rc, locked, watched, def, live, pass, move, asked, excuse>>

(* requireOrganizationNotMigrating, and the client that resourceClient     *)
(* resolves; {} asks for the deletion.                                     *)
Accept(want) ==
    /\ ~locked /\ Count("edits", MaxEdits)
    /\ requests' = requests \cup {[at |-> rc[Org], want |-> want, late |-> FALSE]}
    /\ UNCHANGED <<rc, locked, watched, def, live, pass, move, asked, excuse>>

(* What comes of it is on the cluster that was resolved, wherever the      *)
(* organization is by now.                                                 *)
Write(r, d) ==
    /\ requests' = requests \ {r}
    /\ def' = [def EXCEPT ![r.at] = d]
    /\ asked' = r.want
    /\ Record(Hit(r.late /\ Detached(r.at), "late")
              \cup Hit(~d.exists /\ live # {}, "unguarded"))
    /\ UNCHANGED <<rc, locked, watched, live, pass, move, count>>

(* handleCreateCluster and handleUpdateCluster; an edit of what is being   *)
(* deleted changes nothing here.                                           *)
Edit(r) ==
    LET d == def[r.at] IN
    /\ r.want # {}
    /\ d.exists => ~d.dt /\ r.want # d.want
    /\ Write(r, [d EXCEPT !.exists = TRUE, !.want = r.want])

(* handleDeleteCluster: without a finalizer the object goes at once.       *)
Delete(r) ==
    LET d == def[r.at] IN
    /\ r.want = {} /\ d.exists /\ ~d.dt
    /\ Write(r, IF d.fin THEN [d EXCEPT !.dt = TRUE] ELSE Nothing)

-----------------------------------------------------------------------------
(* The move: PATCH /organizations/{name}, or `hyve migrate cluster` *)

Step(at) == move' = [move EXCEPT !.at = at]

(* migrateOrganizationToTarget up to the lock.                             *)
MoveStart(to) ==
    /\ move = Still /\ ~locked /\ to # rc[Org] /\ Count("moves", MaxMoves)
    /\ locked' = TRUE
    /\ move' = [Still EXCEPT !.at = "load", !.from = rc[Org], !.to = to]
    /\ requests' = {[r EXCEPT !.late = TRUE] : r \in requests}
    /\ UNCHANGED <<rc, watched, def, live, pass, asked, excuse>>

(* runMigrateCluster: from the current host, without a look at the row.    *)
CopyByHand(to, force) ==
    /\ move = Still /\ to # Home /\ Count("moves", MaxMoves)
    /\ move' = [Still EXCEPT !.at = "load", !.to = to, !.byHand = TRUE, !.force = force]
    /\ UNCHANGED <<rc, locked, watched, def, live, pass, requests, asked, excuse>>

(* ClusterDefinitions lists the source; a copy takes no deletionTimestamp. *)
Load ==
    LET d == def[move.from] IN
    /\ move.at = "load"
    /\ move' = [move EXCEPT !.def = d, !.at = IF d.exists THEN "put" ELSE "finalize"]
    /\ Record(Hit(d.exists /\ d.dt, "undeleted")
              \cup Hit(Unsaved(move.from) /\ ~move.byHand, "overtaken")
              \cup Hit(~d.exists /\ def[move.to].exists /\ ~move.byHand, "leftover"))
    /\ UNCHANGED <<rc, locked, watched, def, live, pass, requests, asked, count>>

(* objectExists and createOrUpdateSpec.                                    *)
Put ==
    LET there == def[move.to]
        skip  == there.exists /\ ~move.force
        new   == [there EXCEPT !.exists = TRUE, !.want = move.def.want]
        same  == there.want = move.def.want /\ there.known = move.def.known /\ ~there.dt
    IN  /\ move.at = "put"
        /\ def' = [def EXCEPT ![move.to] = IF skip THEN there ELSE new]
        /\ Step(IF skip THEN "finalize" ELSE "status")
        /\ Record(Hit(skip /\ ~same /\ ~move.byHand, "leftover")
                  \cup Hit(def' # def /\ move.to = rc[Org], "byHand"))
        /\ UNCHANGED <<rc, locked, watched, live, pass, requests, asked, count>>

(* Mutant of CopyStatus: the copy makes do with the spec.                  *)
CopyNoStatus ==
    /\ move.at = "status"
    /\ Step("finalize")
    /\ UNCHANGED <<rc, locked, watched, def, live, pass, requests, asked, excuse, count>>

(* SaveClusterDefinition on the destination, with the status listed before. *)
CopyStatus ==
    /\ move.at = "status" /\ def[move.to].exists
    /\ def' = [def EXCEPT ![move.to].known = move.def.known]
    /\ Step("finalize")
    /\ Record(Hit(def' # def /\ move.to = rc[Org], "byHand"))
    /\ UNCHANGED <<rc, locked, watched, live, pass, requests, asked, count>>

(* A move that fails leaves the row where it is; what was copied stays.  The *)
(* lock stays too if the call that clears it fails, the last update fails, *)
(* or the handler's process dies.                                          *)
MoveFails ==
    /\ move.at # "idle"
    /\ \/ Failure /\ locked' \in IF move.byHand THEN {locked} ELSE BOOLEAN
       \/ /\ move.at = "status" /\ ~def[move.to].exists /\ UNCHANGED count
          /\ locked' = (move.byHand /\ locked)
    /\ move' = Still
    /\ UNCHANGED <<rc, watched, def, live, pass, requests, asked, excuse>>

(* SetOrganizationReconcilingCluster clears the lock with the same update. *)
Finalize ==
    /\ move.at = "finalize"
    /\ move' = Still
    /\ IF move.byHand
       THEN UNCHANGED <<rc, locked>>
       ELSE rc' = [rc EXCEPT ![Org] = move.to] /\ locked' = FALSE
    /\ Record(Hit(~move.byHand /\ pass[move.to].at # "idle", "early"))
    /\ UNCHANGED <<watched, def, live, pass, requests, asked, count>>

-----------------------------------------------------------------------------
Control(c) == Recheck(c) \/ Start(c) \/ Begin(c) \/ Apply(c) \/ Save(c)
Moving     == Load \/ Put \/ CopyStatus \/ MoveFails \/ Finalize

HandoverNext ==
    \/ \E c \in Clusters : Control(c) \/ Dies(c) \/ MoveStart(c)
    \/ \E c \in Clusters, o \in Orgs : Elsewhere(o, c)
    \/ \E c \in Clusters, force \in BOOLEAN : CopyByHand(c, force)
    \/ \E want \in Wants \cup {{}} : Accept(want)
    \/ \E r \in requests : Edit(r) \/ Delete(r)
    \/ Moving

HandoverSpec == HandoverInit /\ [][HandoverNext]_handoverVars

\* Kubernetes restarts a controller, its ticker and its work queue go on, and a
\* handler that has begun a move runs on.
FairHandover ==
    /\ HandoverSpec
    /\ \A c \in Clusters :
        /\ WF_handoverVars(Recheck(c)) /\ WF_handoverVars(Start(c))
        /\ WF_handoverVars(Begin(c)) /\ WF_handoverVars(Apply(c)) /\ WF_handoverVars(Save(c))
    /\ WF_handoverVars(Moving)

-----------------------------------------------------------------------------
(* Properties *)

Passes == [at : {"idle", "apply", "save"}, want : Wants \cup {{}}, known : SUBSET Extras,
           dt : BOOLEAN]
Defs   == [exists : BOOLEAN, dt : BOOLEAN, fin : BOOLEAN, want : Wants \cup {{}},
           known : SUBSET Extras]

HandoverTypeOK ==
    /\ rc \in [Orgs -> Clusters] /\ locked \in BOOLEAN
    /\ watched \in [Clusters -> [up : BOOLEAN, set : SUBSET Orgs]]
    /\ def \in [Clusters -> Defs] /\ pass \in [Clusters -> Passes]
    /\ live \in Wants \cup {{}} /\ asked \in Wants \cup {{}}
    /\ move \in [at : {"idle", "load", "put", "status", "finalize"}, from : Clusters,
                 to : Clusters, byHand : BOOLEAN, force : BOOLEAN, def : Defs]
    /\ requests \subseteq [at : Clusters, want : Wants \cup {{}}, late : BOOLEAN]
    /\ excuse \subseteq Windows
    /\ count \in [moves : 0 .. MaxMoves, edits : 0 .. MaxEdits, faults : 0 .. MaxFailures]

\* What the definition at c tells of, with the pass that has not saved yet.
Told(c) == def[c].known \cup def[c].want \cup
           (IF pass[c].at = "save" THEN pass[c].want ELSE {})

\* Wherever the organization is, its controller can take down all that runs: what
\* runs is recorded there, and nothing runs that has no definition (the status that
\* ClusterDefinitions copies, the finalizer).
Accounted ==
    excuse = {} =>
        IF def[rc[Org]].exists THEN live \subseteq {Base} \cup Told(rc[Org]) ELSE live = {}

\* A move changes nothing that users asked for, be it an edit or a deletion.
AsAsked ==
    LET d == def[rc[Org]] IN
    excuse = {} => IF asked = {} THEN ~d.exists \/ d.dt
                   ELSE d.exists /\ ~d.dt /\ d.want = asked

\* Only what exists is passed over, and a pass that takes down was asked to.  A move holds
\* the lock for as long as it is under way, and a request is late or has the organization
\* where it found it, with no move under way.
Orderly ==
    /\ \A c \in Clusters :
         /\ ~def[c].exists => def[c] = Nothing
         /\ pass[c].at # "idle" => def[c].exists /\ def[c].fin
         /\ pass[c].at # "idle" /\ pass[c].dt => def[c].dt
    /\ move.at # "idle" /\ ~move.byHand =>
         locked /\ move.from = rc[Org] /\ move.to # rc[Org] /\ ~move.force
    /\ \A r \in requests : r.late \/ (r.at = rc[Org] /\ (move.at = "idle" \/ move.byHand))

\* The record where the organization is: all that runs is in it, or in the hands of
\* the pass that has yet to write it, which knows what the record knows.
Recorded ==
    LET d == def[rc[Org]]  p == pass[rc[Org]] IN
    /\ p.at # "idle" => p.known = d.known
    /\ p.at = "save" => live \subseteq (IF p.dt THEN {} ELSE {Base} \cup p.want)
    /\ live \subseteq {Base} \cup d.known \cup (IF p.at = "save" THEN p.want ELSE {})
    /\ ~d.exists => live = {}

\* A move from what it read at the source up to what the destination is left with.
Carried ==
    LET m == move.def  s == def[rc[Org]]  d == def[move.to] IN
    move.at \in {"put", "status", "finalize"} /\ ~move.byHand =>
        /\ m.exists = s.exists /\ m.want = s.want /\ m.known = s.known /\ ~m.dt /\ ~s.dt
        /\ live \subseteq {Base} \cup m.known
        /\ m.exists <=> move.at = "status" \/ move.at = "put" \/ d.exists
        /\ move.at = "status" => d.exists /\ ~d.dt /\ d.want = m.want
        /\ move.at = "finalize" /\ m.exists => ~d.dt /\ d.want = m.want /\ d.known = m.known

HandoverInv ==
    /\ HandoverTypeOK /\ Orderly /\ Accounted /\ AsAsked
    /\ excuse = {} => Recorded /\ Carried

\* Once an organization stays where it is, the controller there, and no other, works
\* for it; and what was asked for last is what runs (watchTargetNamespaces, Reconcile).
Settles ==
    /\ \A c \in Clusters : <>[](rc[Org] = c) => <>[](\A d \in Clusters : Serves(d) <=> d = c)
    /\ \A w \in Wants \cup {{}} : <>[](asked = w /\ excuse = {}) => <>[](live = w)

=============================================================================
