-------------------------- MODULE ResourceReconcile --------------------------
(***************************************************************************)
(* The pass over spec.resources of one cluster: manifests, directories of  *)
(* manifests and Helm charts are compared with what was applied last and   *)
(* with what is live, applied, deleted when they are marked and pruned     *)
(* when they are gone, and what is applied by then is saved once, at the   *)
(* end: in a status, or in a local checkout in two files.                  *)
(***************************************************************************)
EXTENDS Naturals, Sequences, FiniteSets

CONSTANTS
    Order,       \* the keys of applied resources, in the order of the spec
    DirOf,       \* of a file of a directory, its entry; of an entry, itself
    Helms,       \* the entries that are Helm charts
    Objects,     \* what manifests make in the cluster
    Makes,       \* the objects of each key and version
    MaxVersion,  \* bound on the versions of a manifest
    MaxEdits,    \* bound on what users change
    MaxFaults    \* bound on failed calls, meddling and crashes

Keys        == {Order[i] : i \in 1 .. Len(Order)}
EntryNames  == {k \in Keys : DirOf[k] = k}
Children(n) == {k \in Keys \ {n} : DirOf[k] = n}
Dirs        == {n \in EntryNames : Children(n) # {}}
Versions    == 1 .. MaxVersion

ASSUME ResourceAssumption ==
    /\ Order \in Seq(Keys) /\ DirOf \in [Keys -> Keys] /\ (\A k \in Keys : DirOf[k] \in EntryNames)
    /\ Helms \subseteq EntryNames \ Dirs
    /\ Makes \in [Keys -> [Versions -> SUBSET Objects]]
    /\ MaxVersion \in Nat \ {0} /\ MaxEdits \in Nat /\ MaxFaults \in Nat

VARIABLES
    local,    \* whether the definition is a file of a checkout
    strict,   \* strictResourceDelete: prune what is gone from the spec
    entries,  \* spec.resources: "absent", "present", or marked "delete"
    content,  \* version of each manifest at its source; None: no such file
    applied,  \* the saved versions of status.appliedResources
    live,     \* which manifest made each object as it is, if any
    release,  \* the version of each Helm release
    pass,     \* the pass
    loose,    \* history: objects that the pass may have lost track of
    given,    \* history: keys that users have removed or marked
    count     \* how many edits and faults there were

resourceVars == <<local, strict, entries, content, applied, live, release, pass, loose, given, count>>

None    == 0
Nothing == <<>>
Other   == <<"other">>
Stages  == {"idle", "items", "orphans", "spec", "status"}
NoPass  == [at |-> "idle", spec |-> [n \in EntryNames |-> "absent"],
            files |-> [k \in Keys |-> None], todo |-> {}, orphans |-> {},
            applied |-> [k \in Keys |-> None], changed |-> FALSE]

(* A cluster that has just become active, with nothing applied.            *)
ResourceInit ==
    /\ local \in BOOLEAN /\ strict \in BOOLEAN
    /\ entries = [n \in EntryNames |-> "present"]
    /\ content = [k \in Keys |-> 1]
    /\ applied = [k \in Keys |-> None]
    /\ live = [o \in Objects |-> Nothing]
    /\ release = [h \in Helms |-> None]
    /\ pass = NoPass
    /\ loose = {} /\ given = {}
    /\ count = [edits |-> 0, faults |-> 0]

-----------------------------------------------------------------------------
InStage(stage)    == pass.at = stage
ObjectsOf(k, v) == IF v = None THEN {} ELSE Makes[k][v]
Fault           == count.faults < MaxFaults /\ count' = [count EXCEPT !.faults = @ + 1]
Precedes(m, n)  == \E i, j \in DOMAIN Order : Order[i] = m /\ Order[j] = n /\ i < j

(* The loop takes the items of the spec in their order.                    *)
Turn(k) ==
    /\ InStage("items") /\ k \in pass.todo
    /\ \E i \in DOMAIN Order : Order[i] = k /\ \A j \in 1 .. i - 1 : Order[j] \notin pass.todo

(* ResolveDir: a directory has at least one file.                          *)
Empty(n) == n \in Dirs /\ \A k \in Children(n) : content[k] = None

(* expandResourceItems: a directory that fails stops everything from there.*)
Before(n, failed) == \A m \in failed : Precedes(n, m)
Item(k, failed) ==
    LET n == DirOf[k] IN
    /\ entries[n] # "absent" /\ Before(n, failed)
    /\ IF entries[n] = "delete" \/ n \notin Dirs THEN k = n ELSE k # n /\ content[k] # None

(* Mutant of Held: what could not be listed is taken for removed.          *)
HeldNothing(failed) == {}

Held(failed) == {n \in Dirs : entries[n] # "absent" /\ ~Before(n, failed)}

(* The keys that the spec accounts for, or that are held.                  *)
Known(failed) ==
    {k \in Keys : \/ k \in EntryNames /\ entries[k] # "absent"
                  \/ Item(k, failed)
                  \/ k \notin EntryNames /\ DirOf[k] \in Held(failed)}

Begin(failed) ==
    /\ InStage("idle")
    /\ pass' = [at |-> "items", spec |-> entries, files |-> content,
                todo |-> {k \in Keys : Item(k, failed)}, orphans |-> Keys \ Known(failed),
                applied |-> applied, changed |-> FALSE]
    /\ UNCHANGED <<local, strict, entries, content, applied, live, release, loose, given>>

Start ==
    LET empty == {n \in Dirs : entries[n] = "present" /\ Empty(n)} IN
    \/ Begin(empty) /\ UNCHANGED count
    \/ \E n \in Dirs : entries[n] = "present" /\ Begin(empty \cup {n}) /\ Fault

(* The objects of a key are deleted; a Helm release knows its own.         *)
Owned(k) == IF k \in Helms THEN ObjectsOf(k, release[k]) ELSE ObjectsOf(k, pass.applied[k])

(* Mutant of Forgets: what is to be deleted is forgotten in any case.      *)
ForgetsAll(done) == TRUE

Forgets(done) == done

Delete(k, gone) ==
    LET done == gone = Owned(k) IN
    /\ live' = [o \in Objects |-> IF o \in gone THEN Nothing ELSE live[o]]
    /\ release' = [h \in Helms |-> IF h = k /\ done THEN None ELSE release[h]]
    /\ IF done THEN UNCHANGED count ELSE Fault

(* delete: true, for each key of the entry; the first failure ends it.     *)
DeleteKey(n, k) ==
    /\ Turn(n) /\ pass.spec[DirOf[n]] = "delete"
    /\ DirOf[k] = n /\ pass.applied[k] # None
    /\ \E gone \in SUBSET Owned(k) :
         /\ Delete(k, gone)
         /\ pass' = [pass EXCEPT !.todo = IF gone = Owned(k) THEN @ ELSE {},
                                 !.applied[k] = IF Forgets(gone = Owned(k)) THEN None ELSE @]
    /\ UNCHANGED <<local, strict, entries, content, applied, loose, given>>

(* Nothing is left of it: it goes from the spec too.                       *)
DropEntry(n) ==
    /\ Turn(n) /\ pass.spec[DirOf[n]] = "delete"
    /\ \A x \in Keys : DirOf[x] = n => pass.applied[x] = None
    /\ pass' = [pass EXCEPT !.todo = @ \ {n}, !.spec[n] = "absent", !.changed = TRUE]
    /\ UNCHANGED <<local, strict, entries, content, applied, live, release, loose, given, count>>

-----------------------------------------------------------------------------
(* What a source has now; the files of a directory were read at the start. *)
Version(k) == IF k \in EntryNames THEN content[k] ELSE pass.files[k]

ConfigChanged(k) == pass.applied[k] # Version(k)
LiveDiff(k) ==
    pass.applied[k] # None /\ \E o \in Makes[k][Version(k)] : live[o] # <<k, Version(k)>>

(* Mutant of NeedsApply: what drifts in the cluster is not looked at.      *)
NeedsApplyOnce(k) == ConfigChanged(k)

NeedsApply(k) == ConfigChanged(k) \/ LiveDiff(k)

Applying(k) == Turn(k) /\ pass.spec[DirOf[k]] = "present"

InSync(k) ==
    /\ Applying(k) /\ ~NeedsApply(k)
    /\ pass' = [pass EXCEPT !.todo = @ \ {k}]
    /\ UNCHANGED <<local, strict, entries, content, applied, live, release, loose, given, count>>

(* A variable, a source, a diff or the parsing fails: nothing is applied.  *)
Unresolved(k) ==
    /\ Applying(k) /\ Fault
    /\ pass' = [pass EXCEPT !.todo = {}]
    /\ UNCHANGED <<local, strict, entries, content, applied, live, release, loose, given>>

(* kubectl apply leaves alone what a new version has no more; helm upgrade *)
(* removes it.                                                             *)
Superseded(k) == IF k \in Helms THEN ObjectsOf(k, release[k]) ELSE {}

Apply(k) ==
    LET v == Version(k) made == Makes[k][v] before == Superseded(k) IN
    /\ Applying(k) /\ NeedsApply(k)
    /\ live' = [o \in Objects |-> IF o \in made THEN <<k, v>>
                                  ELSE IF o \in before THEN Nothing ELSE live[o]]
    /\ release' = [h \in Helms |-> IF h = k THEN v ELSE release[h]]
    /\ loose' = (loose \cup (ObjectsOf(k, pass.applied[k]) \ before)) \ made
    /\ pass' = [pass EXCEPT !.todo = @ \ {k}, !.applied[k] = v, !.changed = TRUE]
    /\ UNCHANGED <<local, strict, entries, content, applied, given, count>>

(* It fails, after some of the objects or before it has been looked up     *)
(* what a release has made; helm may have counted the version by then.     *)
ApplyFails(k) ==
    LET v == Version(k) IN
    /\ Applying(k) /\ NeedsApply(k) /\ Fault
    /\ release' \in {release, [h \in Helms |-> IF h = k THEN v ELSE release[h]]}
    /\ \E part \in SUBSET Makes[k][v] :
         /\ live' = [o \in Objects |-> IF o \in part THEN <<k, v>> ELSE live[o]]
         /\ loose' = loose \cup part \cup (Superseded(k) \ Superseded(k)')
    /\ pass' = [pass EXCEPT !.todo = {}]
    /\ UNCHANGED <<local, strict, entries, content, applied, given>>

-----------------------------------------------------------------------------
(* The orphans: applied, and neither in the spec nor held. They are looked *)
(* for whether or not the loop has failed.                                 *)
ToOrphans ==
    /\ InStage("items") /\ pass.todo = {}
    /\ pass' = [pass EXCEPT !.at = "orphans",
                            !.orphans = IF strict THEN {k \in @ : pass.applied[k] # None} ELSE {}]
    /\ UNCHANGED <<local, strict, entries, content, applied, live, release, loose, given, count>>

(* One that fails is left for the next pass.                               *)
Prune(k) ==
    /\ InStage("orphans") /\ k \in pass.orphans
    /\ \E gone \in SUBSET Owned(k) :
         /\ Delete(k, gone)
         /\ pass' = [pass EXCEPT !.orphans = @ \ {k}, !.changed = @ \/ gone = Owned(k),
                                 !.applied[k] = IF Forgets(gone = Owned(k)) THEN None ELSE @]
    /\ UNCHANGED <<local, strict, entries, content, applied, loose, given>>

(* SaveClusterDefinition, if anything changed: a status, or two files one  *)
(* after the other. A failure is logged.                                   *)
Lost == UNION {ObjectsOf(k, pass.applied[k]) : k \in {x \in Keys : pass.applied[x] # applied[x]}}
Done == InStage("orphans") /\ pass.orphans = {}

Unchanged ==
    /\ Done /\ ~pass.changed
    /\ pass' = NoPass
    /\ UNCHANGED <<local, strict, entries, content, applied, live, release, loose, given, count>>

SaveStatus ==
    /\ (Done /\ pass.changed /\ ~local) \/ InStage("status")
    /\ applied' = pass.applied
    /\ pass' = NoPass
    /\ UNCHANGED <<local, strict, entries, content, live, release, loose, given, count>>

SaveSpec ==
    /\ Done /\ pass.changed /\ local
    /\ entries' = pass.spec
    /\ pass' = [pass EXCEPT !.at = "status"]
    /\ UNCHANGED <<local, strict, content, applied, live, release, loose, given, count>>

(* The process dies, or what it wants to save cannot be written.           *)
Crash ==
    /\ ~InStage("idle") /\ Fault
    /\ loose' = loose \cup Lost
    /\ pass' = NoPass
    /\ UNCHANGED <<local, strict, entries, content, applied, live, release, given>>

Step ==
    \/ Start \/ ToOrphans
    \/ \E k \in Keys : DropEntry(k) \/ InSync(k) \/ Apply(k) \/ Prune(k)
    \/ \E n, k \in Keys : DeleteKey(n, k)
    \/ Unchanged \/ SaveStatus \/ SaveSpec

Trouble == Crash \/ \E k \in Keys : Unresolved(k) \/ ApplyFails(k)

-----------------------------------------------------------------------------
(* Users.                                                                  *)
Edit == count.edits < MaxEdits /\ count' = [count EXCEPT !.edits = @ + 1]

EditEntry(n, to) ==
    /\ Edit /\ entries[n] # to
    /\ entries' = [entries EXCEPT ![n] = to]
    /\ given' = IF to = "present" THEN given ELSE given \cup {k \in Keys : DirOf[k] = n}
    /\ UNCHANGED <<local, strict, content, applied, live, release, pass, loose>>

EditContent(k, to) ==
    /\ Edit /\ content[k] # to /\ k \notin Dirs /\ (to # None \/ k \notin EntryNames)
    /\ content' = [content EXCEPT ![k] = to]
    /\ given' = IF to = None THEN given \cup {k} ELSE given
    /\ UNCHANGED <<local, strict, entries, applied, live, release, pass, loose>>

(* Somebody else changes or deletes an object.                             *)
Meddle(o, to) ==
    /\ Fault /\ live[o] \notin {Nothing, to}
    /\ live' = [live EXCEPT ![o] = to]
    /\ UNCHANGED <<local, strict, entries, content, applied, release, pass, loose, given>>

ResourceNext ==
    \/ Step \/ Trouble
    \/ \E n \in EntryNames : \E to \in {"absent", "present", "delete"} : EditEntry(n, to)
    \/ \E k \in Keys : \E to \in {None} \cup Versions : EditContent(k, to)
    \/ \E o \in Objects : \E to \in {Nothing, Other} : Meddle(o, to)

ResourceSpec == ResourceInit /\ [][ResourceNext]_resourceVars

(* Passes come again and again, and each call ends.                        *)
FairResources == ResourceSpec /\ WF_resourceVars(Step)

-----------------------------------------------------------------------------
(* Properties.                                                             *)

ResourceTypeOK ==
    /\ local \in BOOLEAN /\ strict \in BOOLEAN
    /\ entries \in [EntryNames -> {"absent", "present", "delete"}]
    /\ content \in [Keys -> {None} \cup Versions] /\ applied \in [Keys -> {None} \cup Versions]
    /\ live \in [Objects -> {Nothing, Other} \cup (Keys \X Versions)]
    /\ release \in [Helms -> {None} \cup Versions]
    /\ pass \in [at : Stages, spec : [EntryNames -> {"absent", "present", "delete"}],
                 files : [Keys -> {None} \cup Versions], todo : SUBSET Keys, orphans : SUBSET Keys,
                 applied : [Keys -> {None} \cup Versions], changed : BOOLEAN]
    /\ loose \subseteq Objects /\ given \subseteq Keys
    /\ count \in [edits : 0 .. MaxEdits, faults : 0 .. MaxFaults]

(* An object that hyve has made and nobody has deleted is in the list of   *)
(* some key, from which it will be deleted one day. It is forgotten only   *)
(* where the code has no way to know: an apply that failed half-way, a     *)
(* crash or a failed save before it was recorded, and a manifest whose new *)
(* version does not have it.                                               *)
List == IF InStage("idle") THEN applied ELSE pass.applied
Made(k) == IF k \in Helms THEN ObjectsOf(k, List[k]) \cap ObjectsOf(k, release[k])
           ELSE ObjectsOf(k, List[k])

Accounted == \A o \in Objects : live[o] # Nothing => o \in loose \cup UNION {Made(k) : k \in Keys}

(* What somebody gave up, and only that, is out of the spec, has no file,  *)
(* or is an orphan.                                                        *)
GivenUp ==
    /\ \A k \in Keys : /\ entries[DirOf[k]] # "present" => k \in given
                       /\ ~InStage("idle") /\ pass.spec[DirOf[k]] # "present" => k \in given
                       /\ content[k] = None => k \in given \ EntryNames
    /\ pass.orphans \subseteq given

(* What is left to do has a source or is an entry to delete; and what is   *)
(* saved differs from the list at hand only if something has changed, or   *)
(* in what has been deleted of an entry so far.                            *)
InHand ==
    /\ \A k \in pass.todo :
         /\ pass.spec[DirOf[k]] = "delete" => k \in EntryNames
         /\ pass.spec[DirOf[k]] = "present" => Version(k) # None
    /\ ~InStage("idle") /\ ~pass.changed => \A k \in Keys : pass.applied[k] \in {None, applied[k]}

ResourceInv == ResourceTypeOK /\ Accounted /\ GivenUp /\ InHand

(* A pass deletes an object only because of a key that somebody removed    *)
(* from the spec, or marked, or whose file went from its directory, or     *)
(* because a chart's new version has it no more: never because a directory *)
(* could not be read or an earlier entry failed.                           *)
OnlyGivenUp ==
    [][\A o \in Objects :
         pass' # pass /\ live[o] # Nothing /\ live'[o] = Nothing =>
            \/ \E k \in given : \E v \in Versions : o \in Makes[k][v]
            \/ \E h \in Helms : release'[h] \notin {release[h], None}]_resourceVars

(* When users, failures and meddling come to an end and no directory of    *)
(* the spec is empty, everything in the spec is live as it should be, what *)
(* was marked is gone, and with strictResourceDelete so is what was        *)
(* removed. An object that two entries make is as one of them has it.      *)
Wanted(k) ==
    /\ entries[DirOf[k]] = "present" /\ content[k] # None
    /\ IF DirOf[k] \in Dirs THEN k # DirOf[k] ELSE TRUE

Fulfilled ==
    /\ \A k \in {x \in Keys : Wanted(x)} : \A o \in Makes[k][content[k]] :
          \E x \in Keys : Wanted(x) /\ live[o] = <<x, content[x]>>
    /\ \A k \in Keys : entries[DirOf[k]] = "delete" \/ (strict /\ ~Wanted(k)) => applied[k] = None

Fulfils ==
    <>[](\A n \in Dirs : entries[n] = "present" => ~Empty(n)) => <>[]Fulfilled
=============================================================================
