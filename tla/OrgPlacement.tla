----------------------------- MODULE OrgPlacement -----------------------------
(***************************************************************************)
(* Where an organization lives: its row in the SQL store, the namespace    *)
(* it has on each reconciling cluster, and the request handlers that keep  *)
(* the two together (internal/api/organizations.go).  Creation, a move to  *)
(* another cluster and deletion are sequences of calls to two stores that  *)
(* share no transaction; between two calls of one handler, the calls of    *)
(* others, a failure or the end of the process may come.  The objects in   *)
(* the namespace are represented by one, a definition that users change    *)
(* through the API; what a controller does with it is ClusterLifecycle's   *)
(* subject.  One namespace is followed, so that a name is either its own   *)
(* or another one.                                                         *)
(***************************************************************************)
EXTENDS Naturals

CONSTANTS
    Home,       \* the control plane's own cluster
    Others,     \* reconciling clusters that are registered besides it
    Workers,    \* request handlers that run side by side
    Sweeper,    \* the goroutine of the periodic deletion sweep
    MaxOrgs,    \* bound on organizations created, one after another, in the namespace
    MaxMoves,   \* bound on requests to rename or to move
    MaxEdits,   \* bound on writes to the object
    MaxFaults,  \* bound on handlers that are cut short, or die with their process
    MaxEvents   \* bound on all three together

ASSUME PlacementAssumption ==
    /\ Home \notin Others /\ Sweeper \notin Workers
    /\ {MaxOrgs, MaxMoves, MaxEdits, MaxFaults, MaxEvents} \subseteq Nat

VARIABLES
    org,     \* the row of table organizations
    ns,      \* per cluster: the Namespace
    obj,     \* per cluster: the version of the object in the namespace, 0 for none
    h,       \* per handler: where it is, and its locals
    latest,  \* history: the version of the last write that was acknowledged
    moves, edits, faults,
    excuse   \* history: the windows that have been hit

counters == <<moves, edits, faults>>
Within   == moves + edits + faults < MaxEvents
vars == <<org, ns, obj, h, latest, counters, excuse>>

Clusters == {Home} \cup Others
Handlers == Workers \cup {Sweeper}

\* What a step may do that leaves the guarantees below without effect.
Windows == {
    "misplaced",  \* a call went to a cluster, or a row, the organization is not at
    "unlocked",   \* a write or a second move that had passed its check before a move
                  \* took the lock came in while the lock was held
    "leftover",   \* the destination had an object already, which a copy leaves alone
    "moved",      \* a move ended after its organization was marked for deletion
    "revived",    \* a namespace was created for an organization marked for deletion
    "lockLost",   \* a move ended without clearing its lock
    "deleteLost"  \* a deletion ended before it deleted the namespace
    }

Row == [exists : BOOLEAN, id : 0..MaxOrgs, rc : Clusters,
        renamed : BOOLEAN, migrating : BOOLEAN, pending : BOOLEAN]
NoRow(id) == [exists |-> FALSE, id |-> id, rc |-> Home,
              renamed |-> FALSE, migrating |-> FALSE, pending |-> FALSE]

\* A handler resolves a client first and uses it in a later step.
After == [newTarget |-> "newNs", source |-> "lock", delTarget |-> "delNs",
          sweepTarget |-> "sweepGet", writeTarget |-> "write"]
Locked == {"scaffold", "copy", "finalize", "unlock"}
\* A move or a write that has found the organization unlocked and has not acted on it.
Checked == {"rename", "renameBack", "source", "lock", "writeTarget", "write"}
Steps  == DOMAIN After \cup {After[s] : s \in DOMAIN After} \cup Locked
            \cup {"idle", "rename", "renameBack", "mark", "delRow"}

\* late is history: what the check found is not so, or no longer.
Idle == [pc |-> "idle", id |-> 0, at |-> Home, to |-> Home, v |-> 0, late |-> FALSE]

Init ==
    /\ org = NoRow(0)
    /\ ns = [c \in Clusters |-> "absent"] /\ obj = [c \in Clusters |-> 0]
    /\ h = [w \in Handlers |-> Idle]
    /\ latest = 0 /\ moves = 0 /\ edits = 0 /\ faults = 0 /\ excuse = {}

-----------------------------------------------------------------------------
(* Helpers *)

\* The cluster a handler is given for the namespace: the row is looked up by
\* name, with the namespace as the name, and no row means the home cluster.
Resolved == IF org.exists /\ ~org.renamed THEN org.rc ELSE Home

\* UPDATE and DELETE name the row by its id.
Owns(w) == org.exists /\ org.id = h[w].id
Update(w, row) == org' = IF Owns(w) THEN row ELSE org

Misplaced(w) == ~Owns(w) \/ org.rc # h[w].at

Goto(w, pc) == h' = [h EXCEPT ![w].pc = pc]
\* It goes on, and the client it was given is of no more use.
Leave(w, pc) == h' = [h EXCEPT ![w].pc = pc, ![w].at = Home]
Return(w)    == h' = [h EXCEPT ![w] = Idle]
Begin(w, pc, at, to, v, late) ==
    /\ h[w] = Idle
    /\ h' = [h EXCEPT ![w] = [pc |-> pc, id |-> org'.id, at |-> at, to |-> to, v |-> v,
                              late |-> late]]

Hit(cond, window) == IF cond THEN {window} ELSE {}
Record(hits) == excuse' = excuse \cup hits

Resolve(w) ==
    /\ h[w].pc \in DOMAIN After
    /\ h' = [h EXCEPT ![w] = [h[w] EXCEPT !.pc = After[h[w].pc], !.at = Resolved]]
    /\ UNCHANGED <<org, ns, obj, latest, counters, excuse>>

-----------------------------------------------------------------------------
(* POST /organizations *)

\* A request for an organization that exists goes on to fill in what is missing;
\* both the name and the namespace are unique.
CreateStart(w, c) ==
    /\ IF org.exists
       THEN /\ ~org.renamed
            /\ UNCHANGED <<org, latest, excuse>>
       ELSE /\ org.id < MaxOrgs
            /\ org' = [NoRow(org.id + 1) EXCEPT !.exists = TRUE, !.rc = c]
            /\ latest' = 0
            /\ Record(Hit(obj[c] # 0, "leftover"))
    /\ Begin(w, "newTarget", Home, Home, 0, FALSE)
    /\ UNCHANGED <<ns, obj, counters>>

NewNamespace(w) ==
    /\ h[w].pc = "newNs"
    /\ ns' = [ns EXCEPT ![h[w].at] = IF @ = "absent" THEN "active" ELSE @]
    /\ Record(Hit(Misplaced(w), "misplaced")
              \cup Hit(org.pending /\ ns[h[w].at] = "absent", "revived"))
    /\ Return(w)
    /\ UNCHANGED <<org, obj, latest, counters>>

-----------------------------------------------------------------------------
(* PATCH /organizations/{name}, PUT /organizations/{name}/reconciling-cluster *)

\* Mutant: the row is not checked for a move under way.
PatchStartUnchecked(w, c, rename) ==
    /\ Within /\ moves < MaxMoves /\ moves' = moves + 1
    /\ org.exists /\ ~org.pending
    /\ rename \/ c # org.rc
    /\ UNCHANGED org
    /\ Begin(w, IF ~rename THEN "source" ELSE IF org.renamed THEN "renameBack" ELSE "rename",
             org.rc, c, 0, FALSE)
    /\ UNCHANGED <<ns, obj, latest, edits, faults, excuse>>

\* The checks are made on a copy of the row that is not read again.
PatchStart(w, c, rename) ==
    /\ Within /\ moves < MaxMoves /\ moves' = moves + 1
    /\ org.exists /\ ~org.pending /\ ~org.migrating
    /\ rename \/ c # org.rc
    /\ UNCHANGED org
    /\ Begin(w, IF ~rename THEN "source" ELSE IF org.renamed THEN "renameBack" ELSE "rename",
             org.rc, c, 0, FALSE)
    /\ UNCHANGED <<ns, obj, latest, edits, faults, excuse>>

Rename(w) ==
    /\ h[w].pc \in {"rename", "renameBack"}
    /\ Update(w, [org EXCEPT !.renamed = (h[w].pc = "rename")])
    /\ IF h[w].to = h[w].at THEN Return(w) ELSE Goto(w, "source")
    /\ UNCHANGED <<ns, obj, latest, counters, excuse>>

\* The lock is set whether it is taken or not; whoever has checked before is late.
Lock(w) ==
    /\ h[w].pc = "lock"
    /\ Update(w, [org EXCEPT !.migrating = TRUE])
    /\ Record(Hit(Misplaced(w), "misplaced")
              \cup Hit(Owns(w) /\ org.migrating /\ h[w].late, "unlocked"))
    /\ h' = [u \in Handlers |->
               IF u = w THEN [h[u] EXCEPT !.pc = "scaffold", !.late = FALSE]
               ELSE IF Owns(w) /\ h[u].pc \in Checked THEN [h[u] EXCEPT !.late = TRUE]
               ELSE h[u]]
    /\ UNCHANGED <<ns, obj, latest, counters>>

\* ensureNamespace takes a terminating namespace for one that exists; the
\* ServiceAccounts cannot be created in it.
Scaffold(w) ==
    /\ h[w].pc = "scaffold"
    /\ IF ns[h[w].to] = "terminating"
       THEN /\ Goto(w, "unlock")
            /\ UNCHANGED <<ns, excuse>>
       ELSE /\ Goto(w, "copy")
            /\ ns' = [ns EXCEPT ![h[w].to] = "active"]
            /\ Record(Hit(~Owns(w), "misplaced")
                      \cup Hit(org.pending /\ ns[h[w].to] = "absent", "revived"))
    /\ UNCHANGED <<org, obj, latest, counters>>

\* Without force, an object the destination has is skipped.
Copy(w) ==
    LET missing == obj[h[w].at] # 0 /\ obj[h[w].to] = 0
    IN  /\ h[w].pc = "copy"
        /\ IF missing /\ ns[h[w].to] # "active"
           THEN /\ Goto(w, "unlock")
                /\ UNCHANGED <<obj, excuse>>
           ELSE /\ Goto(w, "finalize")
                /\ obj' = [obj EXCEPT ![h[w].to] = IF missing THEN obj[h[w].at] ELSE @]
                /\ Record(Hit(~Owns(w), "misplaced")
                          \cup Hit(obj'[h[w].to] # obj[h[w].at], "leftover"))
        /\ UNCHANGED <<org, ns, latest, counters>>

Finalize(w) ==
    /\ h[w].pc = "finalize"
    /\ Update(w, [org EXCEPT !.rc = h[w].to, !.migrating = FALSE])
    /\ Record(Hit(Owns(w) /\ org.pending, "moved"))
    /\ Return(w)
    /\ UNCHANGED <<ns, obj, latest, counters>>

Unlock(w) ==
    /\ h[w].pc = "unlock"
    /\ Update(w, [org EXCEPT !.migrating = FALSE])
    /\ Return(w)
    /\ UNCHANGED <<ns, obj, latest, counters, excuse>>

\* Mutant: an error of the copy is logged and the row is moved.
MoveFailsForward(w) ==
    /\ h[w].pc \in {"scaffold", "copy", "finalize"}
    /\ Goto(w, "finalize")
    /\ UNCHANGED <<org, ns, obj, latest, counters, excuse>>

\* A failure while the lock is held is followed by the call that clears it.  At
\* "finalize" other objects may be left to copy, and to fail.  There are no more failures
\* than moves, so this needs no bound.
MoveFails(w) ==
    /\ h[w].pc \in {"scaffold", "copy", "finalize"}
    /\ Goto(w, "unlock")
    /\ UNCHANGED <<org, ns, obj, latest, counters, excuse>>

-----------------------------------------------------------------------------
(* Writes to the object, behind requireOrganizationNotMigrating *)

\* Mutant: the route goes without the middleware.
WriteStartUnchecked(w) ==
    /\ Within /\ edits < MaxEdits /\ edits' = edits + 1
    /\ org.exists
    /\ UNCHANGED org
    /\ Begin(w, "writeTarget", Home, Home, edits', org.migrating /\ org.renamed)
    /\ UNCHANGED <<ns, obj, latest, moves, faults, excuse>>

\* The middleware looks the row up by the namespace as resourceClient does, and
\* lets the request pass if there is none.
WriteStart(w) ==
    /\ Within /\ edits < MaxEdits /\ edits' = edits + 1
    /\ org.exists /\ (org.migrating => org.renamed)
    /\ UNCHANGED org
    /\ Begin(w, "writeTarget", Home, Home, edits', org.migrating /\ org.renamed)
    /\ UNCHANGED <<ns, obj, latest, moves, faults, excuse>>

\* Nothing is created in a namespace that is not active.
Accepts(c) == ns[c] = "active" \/ (ns[c] = "terminating" /\ obj[c] # 0)

Write(w) ==
    /\ h[w].pc = "write"
    /\ IF Accepts(h[w].at)
       THEN /\ obj' = [obj EXCEPT ![h[w].at] = h[w].v]
            /\ latest' = h[w].v
            /\ Record(Hit(Misplaced(w), "misplaced")
                      \cup Hit(org.migrating /\ h[w].late, "unlocked"))
       ELSE UNCHANGED <<obj, latest, excuse>>
    /\ Return(w)
    /\ UNCHANGED <<org, ns, counters>>

-----------------------------------------------------------------------------
(* DELETE /organizations/{name} and the sweep *)

\* Mutant: the namespace is deleted before the row is marked.
DeleteStartUnmarked(w) ==
    /\ org.exists
    /\ UNCHANGED org
    /\ Begin(w, "delTarget", Home, Home, 0, FALSE)
    /\ UNCHANGED <<ns, obj, latest, counters, excuse>>

DeleteStart(w) ==
    /\ org.exists
    /\ UNCHANGED org
    /\ Begin(w, IF org.pending THEN "delTarget" ELSE "mark", Home, Home, 0, FALSE)
    /\ UNCHANGED <<ns, obj, latest, counters, excuse>>

Mark(w) ==
    /\ h[w].pc = "mark"
    /\ Update(w, [org EXCEPT !.pending = TRUE])
    /\ Goto(w, "delTarget")
    /\ UNCHANGED <<ns, obj, latest, counters, excuse>>

DeleteNamespace(w) ==
    /\ h[w].pc = "delNs"
    /\ ns' = [ns EXCEPT ![h[w].at] = IF @ = "active" THEN "terminating" ELSE @]
    /\ Record(Hit(Misplaced(w), "misplaced"))
    /\ Leave(w, "sweepTarget")
    /\ UNCHANGED <<org, obj, latest, counters>>

\* Mutant: organizations that are locked are left out.
SweepStartUnlocked ==
    /\ org.exists /\ org.pending /\ ~org.migrating
    /\ UNCHANGED org
    /\ Begin(Sweeper, "sweepTarget", Home, Home, 0, FALSE)
    /\ UNCHANGED <<ns, obj, latest, counters, excuse>>

\* The sweep looks at what is there, and issues no delete of its own.
SweepStart ==
    /\ org.exists /\ org.pending
    /\ UNCHANGED org
    /\ Begin(Sweeper, "sweepTarget", Home, Home, 0, FALSE)
    /\ UNCHANGED <<ns, obj, latest, counters, excuse>>

\* Mutant: a namespace that is terminating is taken for one that is gone.
SweepGetEarly(w) ==
    /\ h[w].pc = "sweepGet"
    /\ IF ns[h[w].at] # "active" THEN Leave(w, "delRow") ELSE Return(w)
    /\ Record(Hit(Misplaced(w), "misplaced"))
    /\ UNCHANGED <<org, ns, obj, latest, counters>>

SweepGet(w) ==
    /\ h[w].pc = "sweepGet"
    /\ IF ns[h[w].at] = "absent" THEN Leave(w, "delRow") ELSE Return(w)
    /\ Record(Hit(Misplaced(w), "misplaced"))
    /\ UNCHANGED <<org, ns, obj, latest, counters>>

DeleteRow(w) ==
    /\ h[w].pc = "delRow"
    /\ Update(w, NoRow(org.id))
    /\ Return(w)
    /\ UNCHANGED <<ns, obj, latest, counters, excuse>>

-----------------------------------------------------------------------------
(* Kubernetes, and handlers that come to an early end *)

\* The cascade has emptied the namespace, with the help of the object's controller.
NamespaceGone(c) ==
    /\ ns[c] = "terminating"
    /\ ns' = [ns EXCEPT ![c] = "absent"] /\ obj' = [obj EXCEPT ![c] = 0]
    /\ UNCHANGED <<org, h, latest, counters, excuse>>

\* An error return that changes nothing, a process that dies, or a request whose
\* context is cancelled, which fails the call that would clear the lock as well.
Stop(w) ==
    /\ Within /\ faults < MaxFaults /\ faults' = faults + 1
    /\ h[w].pc # "idle"
    /\ Record(Hit(h[w].pc \in Locked /\ Owns(w), "lockLost")
              \cup Hit(h[w].pc \in {"delTarget", "delNs"}, "deleteLost"))
    /\ Return(w)
    /\ UNCHANGED <<org, ns, obj, latest, moves, edits>>

Request(w) ==
    \/ \E c \in Clusters : CreateStart(w, c)
    \/ \E c \in Clusters, rename \in BOOLEAN : PatchStart(w, c, rename)
    \/ WriteStart(w)
    \/ DeleteStart(w)

Continue(w) ==
    \/ Resolve(w) \/ NewNamespace(w)
    \/ Rename(w) \/ Lock(w) \/ Scaffold(w) \/ Copy(w) \/ Finalize(w) \/ Unlock(w)
    \/ Write(w)
    \/ Mark(w) \/ DeleteNamespace(w) \/ SweepGet(w) \/ DeleteRow(w)

Next ==
    \/ \E w \in Workers : Request(w)
    \/ SweepStart
    \/ \E w \in Handlers : Continue(w) \/ MoveFails(w) \/ Stop(w)
    \/ \E c \in Clusters : NamespaceGone(c)

Spec == Init /\ [][Next]_vars

\* Handlers run on, the sweep's ticker ticks, and namespaces terminate.
FairSpec ==
    /\ Spec
    /\ \A w \in Handlers : WF_vars(Continue(w))
    /\ WF_vars(SweepStart)
    /\ \A c \in Clusters : WF_vars(NamespaceGone(c))

-----------------------------------------------------------------------------
(* Properties *)

Clear(windows) == excuse \cap windows = {}

TypeOK ==
    /\ org \in Row
    /\ ns \in [Clusters -> {"absent", "active", "terminating"}]
    /\ obj \in [Clusters -> 0..MaxEdits]
    /\ h \in [Handlers -> [pc : Steps, id : 0..MaxOrgs, at : Clusters,
                          to : Clusters, v : 0..MaxEdits, late : BOOLEAN]]
    /\ latest \in 0..MaxEdits
    /\ moves \in 0..MaxMoves /\ edits \in 0..MaxEdits /\ faults \in 0..MaxFaults
    /\ excuse \subseteq Windows

Moving(w) == h[w].pc \in Locked /\ Owns(w)

\* A lock that is set is held by a handler that will clear it, or was left behind
\* by one that ended early (migrateOrganizationToTarget).
LockHeld ==
    org.migrating /\ Clear({"lockLost"}) => \E w \in Handlers : Moving(w)

\* While a move copies, the organization is locked, and no second move of it runs, unless
\* both had passed the check before either took the lock (requireOrganizationNotMigrating
\* and the checks of handlePatchOrganization).
MovesAlone ==
    Clear({"misplaced", "unlocked"}) =>
        /\ \A w \in Handlers : Moving(w) => org.migrating
        /\ \A w1, w2 \in Handlers : Moving(w1) /\ Moving(w2) => w1 = w2

\* What the organization's cluster holds is what its users wrote last, across any
\* number of moves, failed moves, deletions and new organizations of that name
\* (runOrganizationMigration, SetOrganizationReconcilingCluster).
LatestServed ==
    Clear({"misplaced", "unlocked", "leftover", "moved", "revived"})
        => (org.exists /\ ~org.pending => obj[org.rc] = latest)

\* DeleteOrganization runs when the namespace is gone (trySweepOrganizationDeletion).
NamespaceBeforeRow ==
    [][org.exists /\ ~org'.exists /\ Clear({"misplaced", "moved", "revived"})
        => ns[org.rc] = "absent"]_vars

\* An organization marked for deletion is gone in the end: the handler or the sweep
\* sees the namespace go and deletes the row.
DeletionFinishes ==
    org.pending ~> ~org.exists \/ ~Clear({"misplaced", "moved", "revived", "deleteLost"})

\* What the proofs need besides: rows are numbered, so that no handler owns a later
\* row than the one it read, and a row that is not there has no marks.
RowsNumbered ==
    /\ \A w \in Handlers : h[w].id <= org.id
    /\ ~org.exists => ~org.migrating /\ ~org.pending

\* Who acts on the organization of a locked row knows, or checked before the lock.
LockSeen ==
    org.migrating => \A w \in Handlers : Owns(w) /\ h[w].pc \in Checked => h[w].late

\* Those that delete have marked the row first, and the mark stays.
DeletersMarked ==
    \A w \in Handlers :
        Owns(w) /\ h[w].pc \in {"delTarget", "delNs", "sweepTarget", "sweepGet", "delRow"}
            => org.pending

\* The answer of SweepGet is still true when the row is deleted.
RowReadyToGo ==
    Clear({"misplaced", "moved", "revived"}) =>
        \A w \in Handlers : h[w].pc = "delRow" /\ Owns(w) => ns[org.rc] = "absent"

\* Only the namespace of an organization on its way out terminates.
OnlyMarkedTerminate ==
    Clear({"misplaced", "moved", "revived"}) =>
        \A c \in Clusters :
            ns[c] = "terminating" => org.exists /\ org.pending /\ c = org.rc

\* A move copies from where the organization is, and has copied all when it ends.
MovesFromHere ==
    Clear({"misplaced", "unlocked"}) =>
        \A w \in Handlers : Moving(w) => h[w].at = org.rc
CopyComplete ==
    Clear({"misplaced", "unlocked", "leftover", "moved", "revived"}) =>
        \A w \in Handlers :
            Moving(w) /\ h[w].pc = "finalize" /\ ~org.pending => obj[h[w].to] = obj[h[w].at]

\* The inductive invariant.
PlacementInv ==
    /\ TypeOK
    /\ RowsNumbered /\ DeletersMarked
    /\ LockSeen /\ LockHeld /\ MovesAlone /\ MovesFromHere
    /\ OnlyMarkedTerminate /\ RowReadyToGo
    /\ CopyComplete /\ LatestServed

\* What handlePatchOrganization's comment says: a move takes everything in the
\* namespace with it.
MoveTakesObject ==
    [][org.exists /\ org'.exists /\ org.rc # org'.rc => obj[org'.rc] = obj[org.rc]]_vars

\* What DeleteOrganization's comment says: it is called only once the namespace is gone.
NamespaceGoneFirst == [][org.exists /\ ~org'.exists => ns[org.rc] = "absent"]_vars

\* What MarkOrganizationPendingDeletion's comment says: a deletion that ended early is
\* resumed by the sweep.
DeletionResumed == org.pending ~> ~org.exists

=============================================================================
