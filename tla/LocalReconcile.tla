--------------------------- MODULE LocalReconcile ---------------------------
(***************************************************************************)
(* Clusters kept as files: `hyve reconcile` and the cluster commands of a  *)
(* local checkout, several of which may run at once without a lock. A run  *)
(* loads every definition, each with its state sidecar, and reconciles one *)
(* after the other, loading all of them again in between; a definition     *)
(* waits until the clusters of its dependsOn are ACTIVE. What one pass     *)
(* does with the scale op, the agent and the manifests is left out here.   *)
(***************************************************************************)
EXTENDS Naturals, FiniteSets

CONSTANTS
    Names,      \* clusters; files are read in the order of their names
    Procs,      \* those who run hyve on the same checkout
    People,     \* those of them who also enter cluster commands
    MaxEvents,  \* bound on edits by hand, cluster commands, failed operations,
                \* lost clusters, kills, and runs that overlap another
    MaxUid      \* bound on the times a definition is written anew

ASSUME LocalAssumption ==
    /\ Names \subseteq Nat /\ IsFiniteSet(Names) /\ People \subseteq Procs
    /\ MaxEvents \in Nat /\ MaxUid \in Nat \ {0}

VARIABLES
    file,    \* clusters/<name>.yaml
    side,    \* cluster-state/<name>.state.yaml: whose outputs it has, 0 if there is none
    cloud,   \* what the status op of each cluster finds
    proc,    \* what each command is doing
    events,  \* how many of the bounded events there were
    excuse   \* history: what has happened to each name, see Excuses

vars == <<file, side, cloud, proc, events, excuse>>

Uids     == 1 .. MaxUid
Outs     == 0 .. MaxUid
Statuses == {"NOT_FOUND", "CREATING", "ACTIVE", "DELETING", "FAILED"}
Excuses  == {"stale", "byHand", "left", "undeleted"}
Stages   == {"idle", "reload", "deps", "status", "create", "delete", "remove",
             "removeSide", "write", "writeSide"}

(* "unlocked": a driver, workflow or manifest is not in hyve.lock; "host": *)
(* the host cluster, which has no driver; "torn": the file does not parse. *)
Kinds == {"good", "paused", "host", "unlocked", "torn"}
Defs  == [ex : BOOLEAN, uid : Outs, del : BOOLEAN, deps : SUBSET Names, kind : Kinds]
NoDef == [ex |-> FALSE, uid |-> 0, del |-> FALSE, deps |-> {}, kind |-> "good"]

Idle == [at |-> "idle", cmd |-> "", n |-> 0, done |-> {},
         defs |-> [n \in Names |-> NoDef], outs |-> [n \in Names |-> 0]]

(* Definitions that are new, whose cluster is up, or is to be deleted, and *)
(* that depend on anything else.                                           *)
Init ==
    /\ \E deps \in [Names -> SUBSET Names], up \in BOOLEAN, del \in BOOLEAN :
          /\ (\A n \in Names : n \notin deps[n]) /\ (del => up)
          /\ file = [n \in Names |-> [ex |-> TRUE, uid |-> 1, del |-> del,
                                     deps |-> deps[n], kind |-> "good"]]
          /\ cloud = [n \in Names |-> IF up THEN "ACTIVE" ELSE "NOT_FOUND"]
          /\ side = [n \in Names |-> IF up THEN 1 ELSE 0]
    /\ proc = [p \in Procs |-> Idle]
    /\ events = 0
    /\ excuse = [n \in Names |-> {}]

-----------------------------------------------------------------------------

At(p, stage) == proc[p].at = stage
Cur(p)       == proc[p].n
Def(p)       == proc[p].defs[Cur(p)]

Event == events < MaxEvents /\ events' = events + 1

Go(p, stage) == proc' = [proc EXCEPT ![p].at = stage]
Stop(p)      == proc' = [proc EXCEPT ![p] = Idle]

Mark(n, e)   == excuse' = [excuse EXCEPT ![n] = @ \cup e]
(* The file is not any more what the pass or command read.                 *)
Stale(p)     == IF file[Cur(p)] # Def(p) THEN {"stale"} ELSE {}
(* Another command has removed the file and is about to remove its sidecar.*)
Half(n)      == IF \E q \in Procs : At(q, "removeSide") /\ Cur(q) = n THEN {"left"} ELSE {}
(* Another run is about to remove a definition, whose cluster it saw gone. *)
Doomed(n)    == IF \E q \in Procs : At(q, "remove") /\ Cur(q) = n THEN {"stale"} ELSE {}

(* LoadClusterDefinitions: one file that cannot be parsed, or is read while*)
(* another command writes it, fails the whole of it.                       *)
Unreadable(p) ==
    \/ \E n \in Names : file[n].ex /\ file[n].kind = "torn"
    \/ \E q \in Procs \ {p} : At(q, "write")
Readable == \A n \in Names : file[n].ex => file[n].kind # "torn"

-----------------------------------------------------------------------------
(* People: edits by hand, and commands.                                    *)

NextUid(n) == IF file[n].ex THEN file[n].uid ELSE file[n].uid + 1

Fresh(n) == [ex |-> TRUE, uid |-> NextUid(n), del |-> FALSE, deps |-> {}, kind |-> "good"]

HandWrite(n) ==
    /\ Event /\ NextUid(n) \in Uids
    /\ \/ /\ file[n].ex /\ file[n].kind # "torn"
          /\ \/ file' = [file EXCEPT ![n].del = ~@]
             \/ \E k \in {"paused", "host", "unlocked"} : file' = [file EXCEPT ![n].kind = k]
       \/ /\ ~file[n].ex \/ file[n].kind = "torn"
          /\ file' = [file EXCEPT ![n] = Fresh(n)]
    /\ Mark(n, IF file[n].ex THEN {} ELSE Half(n))
    /\ UNCHANGED <<side, cloud, proc>>

HandRemove(n) ==
    /\ Event /\ file[n].ex
    /\ file' = [file EXCEPT ![n].ex = FALSE]
    /\ Mark(n, {"byHand"})
    /\ UNCHANGED <<side, cloud, proc>>

Command(p, cmd, n, def, out) ==
    /\ Event /\ At(p, "idle")
    /\ proc' = [proc EXCEPT ![p] =
            [at |-> "write", cmd |-> cmd, n |-> n, done |-> {},
             defs |-> [m \in Names |-> IF m = n THEN def ELSE NoDef],
             outs |-> [m \in Names |-> IF m = n THEN out ELSE 0]]]
    /\ UNCHANGED <<file, side, cloud, excuse>>

(* createClusterFromTemplate does not ask whether there is a definition.   *)
CreateCmd(p, n) == NextUid(n) \in Uids /\ Command(p, "create", n, Fresh(n), 0)

(* adoptCluster records what the driver says of a cluster that is there.   *)
AdoptCmd(p, n) ==
    /\ NextUid(n) \in Uids /\ cloud[n] \in {"ACTIVE", "FAILED"}
    /\ Command(p, "adopt", n, Fresh(n), NextUid(n))

(* markClusterForDeletion saves the definition that it has loaded.         *)
DeleteCmd(p, n) ==
    /\ file[n].ex /\ file[n].kind # "torn"
    /\ Command(p, "delete", n, file[n], side[n])

-----------------------------------------------------------------------------
(* SaveClusterDefinition: the definition, then its sidecar.                *)

Content(p) == [Def(p) EXCEPT !.del = @ \/ proc[p].cmd = "delete"]

(* A definition that a command is to write anew has been removed, or made  *)
(* by another, since the command began.                                    *)
Overtaken(p) == IF NextUid(Cur(p)) # Def(p).uid THEN {"left"} ELSE {}

Write(p) ==
    /\ At(p, "write")
    /\ file' = [file EXCEPT ![Cur(p)] = Content(p)]
    /\ Mark(Cur(p), IF proc[p].cmd \in {"create", "adopt"}
                    THEN Half(Cur(p)) \cup Overtaken(p) ELSE Stale(p))
    /\ Go(p, "writeSide")
    /\ UNCHANGED <<side, cloud, events>>

(* The run that a command goes on with, unless hyve.yaml leaves it to CI,  *)
(* is the next Start.                                                      *)
WriteSide(p) ==
    /\ At(p, "writeSide")
    /\ side' = [side EXCEPT ![Cur(p)] = proc[p].outs[Cur(p)]]
    /\ Mark(Cur(p), IF file[Cur(p)].ex /\ file[Cur(p)].uid = Def(p).uid THEN {} ELSE {"left"})
    /\ IF proc[p].cmd = "" THEN Go(p, "reload")
       ELSE Stop(p)
    /\ UNCHANGED <<file, cloud, events>>

(* RemoveClusterFile: the definition, then its sidecar.                    *)
Remove(p) ==
    /\ At(p, "remove")
    /\ LET n == Cur(p) IN
       IF file[n].ex /\ file[n].kind # "torn"
       THEN /\ file' = [file EXCEPT ![n].ex = FALSE]
            /\ Mark(n, Stale(p))
            /\ Go(p, "removeSide")
       ELSE Go(p, "reload") /\ UNCHANGED <<file, excuse>>
    /\ UNCHANGED <<side, cloud, events>>

(* Mutant of RemoveSide: the sidecar stays.                                *)
RemoveSideKeeping(p) ==
    /\ At(p, "removeSide")
    /\ Go(p, "reload")
    /\ UNCHANGED <<file, side, cloud, events, excuse>>

RemoveSide(p) ==
    /\ At(p, "removeSide")
    /\ side' = [side EXCEPT ![Cur(p)] = 0]
    /\ Go(p, "reload")
    /\ UNCHANGED <<file, cloud, events, excuse>>

-----------------------------------------------------------------------------
(* A run over all definitions.                                             *)

(* The next definition of a list that this run has not taken yet. A host   *)
(* cluster has nothing to create or delete, a definition that is paused or *)
(* not locked ends its turn at once.                                       *)
TakeNext(p, defs, outs) ==
    LET done == proc[p].done
        left == {n \in Names \ done : defs[n].ex}
    IN  IF left = {} THEN Stop(p)
        ELSE \E next \in left :
            /\ \A m \in left : next <= m
            /\ proc' = [proc EXCEPT ![p] =
                [at |-> IF defs[next].kind # "good" THEN "reload"
                        ELSE IF defs[next].deps = {} THEN "status" ELSE "deps",
                 cmd |-> "", n |-> next, done |-> done \cup {next},
                 defs |-> [n \in Names |-> IF n \in done THEN NoDef ELSE defs[n]],
                 outs |-> [n \in Names |-> IF n \in done THEN 0 ELSE outs[n]]]]

(* RunLocalReconciliation: a definition that cannot be read, or is not     *)
(* locked, stops the whole run.                                            *)
Start(p) ==
    /\ At(p, "idle") /\ Readable
    /\ \A n \in Names : file[n].ex => file[n].kind # "unlocked"
    /\ TakeNext(p, file, side)
    /\ IF \A q \in Procs : At(q, "idle") THEN UNCHANGED events ELSE Event
    /\ UNCHANGED <<file, side, cloud, excuse>>

(* convergenceLoop: a failed reload leaves the list as it was.             *)
Reload(p) ==
    /\ At(p, "reload")
    /\ \/ Unreadable(p) /\ TakeNext(p, proc[p].defs, proc[p].outs)
       \/ Readable /\ TakeNext(p, file, side)
    /\ UNCHANGED <<file, side, cloud, events, excuse>>

(* checkDependencyStatus: the host cluster is always there.                *)
Active(n) == file[n].ex /\ (file[n].kind = "host" \/ cloud[n] = "ACTIVE")

(* unmetDependency: when the definitions cannot be read, none is unmet.    *)
CheckDeps(p) ==
    /\ At(p, "deps")
    /\ \/ /\ \/ Unreadable(p)
             \/ Readable /\ \A d \in Def(p).deps : Active(d)
          /\ Go(p, "status") /\ UNCHANGED events
       \/ Readable /\ (\E d \in Def(p).deps : ~Active(d)) /\ Go(p, "reload") /\ UNCHANGED events
       \/ Event /\ Go(p, "reload")
    /\ UNCHANGED <<file, side, cloud, excuse>>

(* Mutant of NextStage: what is being created or deleted counts as gone.   *)
NextStageHasty(del, st) ==
    IF del THEN IF st \in {"ACTIVE", "FAILED"} THEN {"delete"} ELSE {"remove"}
    ELSE IF st \in {"NOT_FOUND", "FAILED"} THEN {"create"}
    ELSE IF st = "ACTIVE" THEN {"write", "reload"} ELSE {"reload"}

(* Mutant: a cluster that has failed is not created again.                 *)
NextStageOnce(del, st) ==
    IF st \in {"CREATING", "DELETING"} THEN {"reload"}
    ELSE IF del THEN IF st = "NOT_FOUND" THEN {"remove"} ELSE {"delete"}
    ELSE IF st = "NOT_FOUND" THEN {"create"}
    ELSE IF st = "FAILED" THEN {"reload"} ELSE {"write", "reload"}

(* reconcileCluster's switch. The pass over an ACTIVE cluster saves when   *)
(* something about its agent or manifests has changed.                     *)
NextStage(del, st) ==
    IF st \in {"CREATING", "DELETING"} THEN {"reload"}
    ELSE IF del THEN IF st = "NOT_FOUND" THEN {"remove"} ELSE {"delete"}
    ELSE IF st = "ACTIVE" THEN {"write", "reload"} ELSE {"create"}

Status(p) ==
    /\ At(p, "status")
    /\ \/ (\E s \in NextStage(Def(p).del, cloud[Cur(p)]) : Go(p, s)) /\ UNCHANGED events
       \/ Event /\ Go(p, "reload")
    /\ UNCHANGED <<file, side, cloud, excuse>>

(* createCluster up to its save. A create op that finds a cluster may take *)
(* it for its own or fail.                                                 *)
Create(p) ==
    /\ At(p, "create")
    /\ LET n == Cur(p) IN
       /\ \/ /\ cloud[n] # "DELETING"
             /\ cloud' = [cloud EXCEPT ![n] = IF @ \in {"NOT_FOUND", "FAILED"}
                                              THEN "CREATING" ELSE @]
             /\ proc' = [proc EXCEPT ![p].at = "write", ![p].outs[n] = Def(p).uid]
             /\ UNCHANGED events
          \/ /\ cloud[n] \notin {"NOT_FOUND", "FAILED"}
             /\ Go(p, "reload") /\ UNCHANGED <<cloud, events>>
          \/ /\ cloud[n] \in {"NOT_FOUND", "FAILED"} /\ Event
             /\ \E st \in {cloud[n], "FAILED"} : cloud' = [cloud EXCEPT ![n] = st]
             /\ Go(p, "reload")
       /\ Mark(n, Stale(p) \cup Doomed(n))
    /\ UNCHANGED <<file, side>>

Delete(p) ==
    /\ At(p, "delete")
    /\ LET n == Cur(p) IN
       /\ \/ /\ cloud' = [cloud EXCEPT ![n] = IF @ = "NOT_FOUND" THEN @ ELSE "DELETING"]
             /\ Go(p, "remove") /\ UNCHANGED events
          \/ Event /\ Go(p, "reload") /\ UNCHANGED cloud
       /\ Mark(n, Stale(p))
    /\ UNCHANGED <<file, side>>

-----------------------------------------------------------------------------
(* The cloud, and commands that are killed.                                *)

Settle(n) ==
    /\ \/ cloud[n] = "CREATING" /\ cloud' = [cloud EXCEPT ![n] = "ACTIVE"]
       \/ cloud[n] = "DELETING" /\ cloud' = [cloud EXCEPT ![n] = "NOT_FOUND"]
    /\ UNCHANGED <<file, side, proc, events, excuse>>

Break(n) ==
    /\ cloud[n] \in {"CREATING", "ACTIVE", "DELETING"} /\ Event
    /\ cloud' = [cloud EXCEPT ![n] = "FAILED"]
    /\ Mark(n, IF cloud[n] = "DELETING" THEN {"undeleted"} ELSE {})
    /\ UNCHANGED <<file, side, proc>>

(* os.WriteFile truncates first: a definition that is being written may be *)
(* left without its content, and a sidecar as an empty one.                *)
Kill(p) ==
    /\ ~At(p, "idle") /\ Event
    /\ \/ UNCHANGED <<file, side>>
       \/ /\ At(p, "write")
          /\ file' = [file EXCEPT ![Cur(p)] = [Content(p) EXCEPT !.kind = "torn"]]
          /\ UNCHANGED side
       \/ At(p, "writeSide") /\ side' = [side EXCEPT ![Cur(p)] = 0] /\ UNCHANGED file
    /\ IF At(p, "removeSide") \/ (At(p, "writeSide") /\ proc[p].cmd # "")
       THEN Mark(Cur(p), {"left"})
       ELSE IF file' # file THEN Mark(Cur(p), {"stale"}) ELSE UNCHANGED excuse
    /\ Stop(p)
    /\ UNCHANGED cloud

-----------------------------------------------------------------------------

Step(p) ==
    \/ Write(p) \/ WriteSide(p) \/ Remove(p) \/ RemoveSide(p)
    \/ Reload(p) \/ CheckDeps(p) \/ Status(p) \/ Create(p) \/ Delete(p)

Next ==
    \/ \E p \in Procs : Start(p) \/ Step(p) \/ Kill(p)
    \/ \E p \in People, n \in Names : CreateCmd(p, n) \/ AdoptCmd(p, n) \/ DeleteCmd(p, n)
    \/ \E n \in Names : HandWrite(n) \/ HandRemove(n) \/ Settle(n) \/ Break(n)

Spec == Init /\ [][Next]_vars

(* Somebody, or CI, goes on running hyve reconcile; drivers and clouds     *)
(* get on with what they have been asked.                                  *)
FairSpec ==
    /\ Spec
    /\ WF_vars(\E p \in Procs : Start(p))
    /\ \A p \in Procs : WF_vars(Step(p))
    /\ \A n \in Names : WF_vars(Settle(n))

-----------------------------------------------------------------------------
(* Properties.                                                             *)

TypeOK ==
    /\ file \in [Names -> Defs]
    /\ side \in [Names -> Outs]
    /\ cloud \in [Names -> Statuses]
    /\ proc \in [Procs -> [at : Stages, cmd : {"", "create", "adopt", "delete"},
                           n : {0} \cup Names, done : SUBSET Names,
                           defs : [Names -> Defs], outs : [Names -> Outs]]]
    /\ events \in 0 .. MaxEvents
    /\ excuse \in [Names -> SUBSET Excuses]

(* A cluster that is up has a definition, unless somebody removed it by    *)
(* hand, a command acted on a definition that had changed since or that    *)
(* another was about to remove, or the cloud failed to delete what a       *)
(* delete op had asked it to.                                              *)
Up(n)     == cloud[n] \in {"CREATING", "ACTIVE", "FAILED"}
NoLeak(n) == Up(n) => file[n].ex \/ excuse[n] \cap {"stale", "byHand", "undeleted"} # {}

(* A definition does not inherit the outputs of an earlier one of its name,*)
(* unless a kill, an edit or another command left a sidecar behind.        *)
Own(n, def, out) == def.ex /\ out # 0 => out = def.uid \/ excuse[n] # {}
OwnOutputs(n)    == Own(n, file[n], side[n])

(* Invariant of SaveClusterDefinition and RemoveClusterFile, which keep a  *)
(* definition in two files.                                                *)
LocalInv == TypeOK /\ \A n \in Names : NoLeak(n) /\ OwnOutputs(n)

(* A sidecar without a definition is about to be removed as well, or was   *)
(* left behind.                                                            *)
LoneSidecar(n) ==
    ~file[n].ex /\ side[n] # 0 =>
        excuse[n] # {} \/ \E p \in Procs : At(p, "removeSide") /\ Cur(p) = n

(* What a command works on: a definition that is there, with outputs of    *)
(* its own; to be removed is one to be deleted whose cluster is not up.    *)
Working(p) == ~At(p, "idle") /\ ~At(p, "reload")

WorkInv(p) ==
    /\ Working(p) => Cur(p) \in Names /\ Def(p).ex
    /\ At(p, "delete") \/ At(p, "remove") => Def(p).del
    /\ At(p, "remove") /\ Up(Cur(p)) => excuse[Cur(p)] \cap {"stale", "undeleted"} # {}
    /\ \A n \in Names : Own(n, proc[p].defs[n], proc[p].outs[n])

(* The inductive invariant.                                                *)
FilesInv ==
    /\ TypeOK
    /\ \A n \in Names : NoLeak(n) /\ OwnOutputs(n) /\ LoneSidecar(n)
    /\ \A p \in Procs : WorkInv(p)

(* People decide what a definition says: a run removes it, when its        *)
(* deletion was asked for and its cluster is gone or going, and changes    *)
(* nothing else; only what rests on an old copy may, and a deletion that   *)
(* fails after it was accepted finds the definition removed as well.       *)
Asked(f) == [ex |-> f.ex, del |-> f.del, deps |-> f.deps]

UserDecides ==
    [][\A n \in Names : Asked(file'[n]) # Asked(file[n]) =>
          \/ proc' = proc
          \/ \E p \in Procs : At(p, "write") /\ Cur(p) = n /\ proc[p].cmd # ""
          \/ file[n].del /\ ~file'[n].ex /\ cloud[n] \in {"NOT_FOUND", "DELETING"}
          \/ excuse'[n] \cap {"stale", "undeleted"} # {}]_vars

(* dependsOn makes a definition wait for clusters that are wanted, and     *)
(* that wait for such clusters only: one that waits for itself, or for     *)
(* what is missing, paused or to be deleted, may wait for ever.            *)
Wanted(n) == file[n].ex /\ ~file[n].del /\ file[n].kind \in {"good", "host"}
Closed(S) == \A n \in Names : Wanted(n) /\ (file[n].kind = "host" \/ file[n].deps \subseteq S)
                                => n \in S
Sound     == {n \in Names : \A S \in SUBSET Names : Closed(S) => n \in S}

Settled(n) ==
    \/ ~file[n].ex
    \/ file[n].kind # "good" \/ ~(file[n].deps \subseteq Sound)
    \/ ~file[n].del /\ cloud[n] = "ACTIVE"

(* Once the runs do not overlap any more, every cluster gets to be what    *)
(* its definition says, whatever has failed or been killed before, unless  *)
(* a definition that is torn or not locked stops all of them.              *)
Alone == \A p, q \in Procs : p # q => At(p, "idle") \/ At(q, "idle")
AllGood == \A n \in Names : file[n].ex => file[n].kind \notin {"torn", "unlocked"}

Converges ==
    <>[](Alone /\ AllGood) => \A n \in Names : <>[]Settled(n)
=============================================================================
