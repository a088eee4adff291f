----------------------------- MODULE PinnedRefs -----------------------------
(***************************************************************************)
(* hyve.lock and the caches of what it pins. A reconciliation resolves the *)
(* references of its definition (driver modules, then workflow files and   *)
(* manifests) that the file does not pin yet, saves the file and runs what *)
(* is pinned. Several reconciliations of a controller work on the same     *)
(* files without a lock between them. In a local checkout it is commands   *)
(* that pin, and a reconciliation only runs what it finds pinned.  A       *)
(* reference to a directory stands for the files in it, each with a key of *)
(* its own, which another definition may refer to as a file.               *)
(***************************************************************************)
EXTENDS Naturals, FiniteSets

CONSTANTS
    Procs,       \* reconciliations of one process, or commands
    Refs,        \* source and version: a key of hyve.lock
    Modules,     \* those of driver modules; the others are files
    Wants,       \* the references of the definition each process handles
    Dirs,        \* the files among them that it refers to through their directory
    Torn,        \* a file that two writers have mixed up
    MaxRetags,   \* bound on the changes of what a version stands for
    MaxFailures,   \* bound on failed fetches, failed status writes and crashes
    MaxCommands  \* bound on commands

ASSUME PinnedAssumption ==
    /\ IsFiniteSet(Procs) /\ Modules \subseteq Refs
    /\ Wants \in [Procs -> SUBSET Refs] /\ Dirs \in [Procs -> SUBSET Refs]
    /\ \A p \in Procs : Dirs[p] \subseteq Wants[p] \ Modules
    /\ Torn \notin [Refs -> Nat]
    /\ MaxRetags \in Nat /\ MaxFailures \in Nat /\ MaxCommands \in Nat

VARIABLES
    local,     \* whether this is a local checkout, and not a controller's
    upstream,  \* digest of what each reference stands for at its host
    files,     \* content of each inode
    lockFile,  \* inode of hyve.lock
    tmpFile,   \* inode of hyve.lock.tmp, or None
    cache,     \* of each reference and digest: "no", "part", "whole"
    mirror,    \* the status that the cluster shows of each reference
    proc,      \* what each process is doing
    ran,       \* history: what each process has run last
    count      \* how many retags, failures and commands there were

pinnedVars == <<local, upstream, files, lockFile, tmpFile, cache, mirror, proc, ran, count>>

None    == 0
Inodes  == 1 .. Cardinality(Procs) + 2
Digests == 1 .. MaxRetags + 1
Pins    == [Refs -> {None} \cup Digests]
NoPins  == [r \in Refs |-> None]

Stages == {"idle", "load", "resolve", "copy", "write", "rename", "mirror", "use"}
Tiers  == {"modules", "files", "update", "remove", "install"}
Resting   == [at |-> "idle", tier |-> "modules", todo |-> {}, ref |-> None,
           view |-> NoPins, mine |-> NoPins, base |-> NoPins, found |-> {}, to |-> None]

Tier(p, tier) == {r \in Wants[p] : (r \in Modules) = (tier = "modules")}

(* Nothing is pinned, and nothing cached.                                  *)
PinnedInit ==
    /\ local \in BOOLEAN
    /\ upstream = [r \in Refs |-> 1]
    /\ files = [i \in Inodes |-> NoPins]
    /\ lockFile = 1 /\ tmpFile = None
    /\ cache = [r \in Refs |-> [d \in Digests |-> "no"]]
    /\ mirror = [r \in Refs |-> None]
    /\ proc = [p \in Procs |-> Resting]
    /\ ran = [p \in Procs |-> {}]
    /\ count = [retags |-> 0, failures |-> 0, commands |-> 0]

-----------------------------------------------------------------------------
At(p, stage)       == proc[p].at = stage
Become(p, new)     == proc' = [proc EXCEPT ![p] = new]
Lock               == files[lockFile]
Cached(r, d)       == d # None /\ cache[r][d] # "no"
Failure            == count.failures < MaxFailures /\ count' = [count EXCEPT !.failures = @ + 1]
FailureOr(ok, bad) == \/ ok /\ UNCHANGED count
                      \/ bad /\ Failure

(* Where a process goes after a tier; what each tier ends with.            *)
Following(p) ==
    LET s == [Resting EXCEPT !.tier = proc[p].tier, !.view = proc[p].view] IN
    CASE s.tier = "modules" -> [s EXCEPT !.at = "load", !.tier = "files"]
      [] s.tier = "files"   -> [s EXCEPT !.at = "use"]
      [] OTHER              -> Resting

(* LoadLockFile at the start of a pass, which ends when it does not parse. *)
Begin(p) ==
    /\ At(p, "idle") /\ Lock # Torn
    /\ Become(p, [Resting EXCEPT !.at = IF local THEN "use" ELSE "load", !.view = Lock])
    /\ UNCHANGED <<local, upstream, files, lockFile, tmpFile, cache, mirror, ran, count>>

(* A driver module that the pass finds pinned is left alone.               *)
Skip(p) ==
    /\ At(p, "load") /\ proc[p].tier \in {"modules", "files"}
    /\ \A r \in Tier(p, proc[p].tier) : r \in Modules /\ proc[p].view[r] # None
    /\ Become(p, Following(p))
    /\ UNCHANGED <<local, upstream, files, lockFile, tmpFile, cache, mirror, ran, count>>

(* Each tier works on a copy of its own of what the file holds by then.    *)
Load(p) ==
    LET s == proc[p] IN
    /\ At(p, "load") /\ s.tier \in {"modules", "files"}
    /\ \E r \in Tier(p, s.tier) : r \in Modules => s.view[r] = None
    /\ IF Lock = Torn
       THEN Become(p, IF s.tier = "modules" THEN [s EXCEPT !.at = "mirror"] ELSE Following(p))
       ELSE Become(p, [s EXCEPT !.at = "resolve", !.mine = Lock, !.base = Lock,
                                !.todo = Tier(p, s.tier)])
    /\ UNCHANGED <<local, upstream, files, lockFile, tmpFile, cache, mirror, ran, count>>

(* The commands of a local checkout: those for one reference, and the ones *)
(* that pin all driver modules, or all files, of what is defined.          *)
Command(p, tier, rs) ==
    /\ local /\ At(p, "idle") /\ Lock # Torn
    /\ count.commands < MaxCommands /\ count' = [count EXCEPT !.commands = @ + 1]
    /\ \/ tier = "install" /\ rs \in {Tier(p, "modules"), Tier(p, "files")} \ {{}}
       \/ tier = "update" /\ Cardinality(rs) = 1
       \/ tier = "remove" /\ \E r \in rs : rs = {r} /\ Lock[r] # None
    /\ Become(p, [Resting EXCEPT !.at = "resolve", !.tier = tier, !.base = Lock,
                      !.mine = IF tier = "remove"
                               THEN [r \in Refs |-> IF r \in rs THEN None ELSE Lock[r]] ELSE Lock,
                      !.todo = IF tier = "remove" THEN {} ELSE rs])
    /\ UNCHANGED <<local, upstream, files, lockFile, tmpFile, cache, mirror, ran>>

-----------------------------------------------------------------------------
(* Mutant of Pinned: every resolution fetches what is there now.           *)
PinnedNever(p, r) == FALSE

(* Nothing to fetch: a module that is pinned, a file that is cached too.   *)
(* resolveDir does not look at the pins of the files it comes to.          *)
Pinned(p, r) ==
    LET s == proc[p] IN
    /\ s.tier # "update" /\ s.mine[r] # None /\ r \notin Dirs[p]
    /\ r \notin Modules => Cached(r, s.mine[r])

(* A fetched digest is compared with the pin, of a single file.            *)
Mismatch(p, r) ==
    LET s == proc[p] IN
    /\ r \notin Modules \cup Dirs[p] /\ s.tier # "update"
    /\ s.mine[r] \notin {None, upstream[r]}

Keep(p, r) ==
    LET s == proc[p] IN
    /\ At(p, "resolve") /\ r \in s.todo /\ Pinned(p, r)
    /\ Become(p, [s EXCEPT !.todo = @ \ {r}, !.found = @ \cup {r}])
    /\ UNCHANGED <<local, upstream, files, lockFile, tmpFile, cache, mirror, ran, count>>

(* The host does not answer, or has something else than what is pinned.    *)
Miss(p, r) ==
    LET s == proc[p] IN
    /\ At(p, "resolve") /\ r \in s.todo /\ ~Pinned(p, r)
    /\ FailureOr(Mismatch(p, r), TRUE)
    /\ Become(p, [s EXCEPT !.todo = @ \ {r}])
    /\ UNCHANGED <<local, upstream, files, lockFile, tmpFile, cache, mirror, ran>>

Got(s, r, d) == [s EXCEPT !.at = "resolve", !.ref = None, !.todo = @ \ {r},
                          !.found = @ \cup {r}, !.mine[r] = d]

(* Mutant of Atomic: a workflow is written in place.                       *)
AtomicNever(r) == FALSE

(* A file is written aside and renamed; a module's directory is renamed if *)
(* it can be, and copied otherwise.                                        *)
Atomic(r) == r \notin Modules

Fetch(p, r) ==
    LET s == proc[p] d == upstream[r] IN
    /\ At(p, "resolve") /\ r \in s.todo /\ ~Pinned(p, r) /\ ~Mismatch(p, r)
    /\ Atomic(r) \/ cache[r][d] = "no"
    /\ cache' = [cache EXCEPT ![r][d] = "whole"]
    /\ Become(p, Got(s, r, d))
    /\ UNCHANGED <<local, upstream, files, lockFile, tmpFile, mirror, ran, count>>

(* copyDir: file by file into the place where others already look.         *)
StartCopy(p, r) ==
    LET s == proc[p] d == upstream[r] IN
    /\ At(p, "resolve") /\ r \in s.todo /\ ~Pinned(p, r) /\ ~Mismatch(p, r)
    /\ ~Atomic(r)
    /\ cache' = [cache EXCEPT ![r][d] = "part"]
    /\ Become(p, [s EXCEPT !.at = "copy", !.ref = r, !.to = d])
    /\ UNCHANGED <<local, upstream, files, lockFile, tmpFile, mirror, ran, count>>

Copying(q, r, d) == proc[q].at = "copy" /\ proc[q].ref = r /\ proc[q].to = d

EndCopy(p) ==
    LET s == proc[p] r == s.ref d == s.to IN
    /\ At(p, "copy")
    /\ cache' = IF \E q \in Procs \ {p} : Copying(q, r, d) THEN cache
                ELSE [cache EXCEPT ![r][d] = "whole"]
    /\ Become(p, [Got(s, r, d) EXCEPT !.to = None])
    /\ UNCHANGED <<local, upstream, files, lockFile, tmpFile, mirror, ran, count>>

(* Everything of the tier has been tried. An update saves what it found,   *)
(* the others only if something changed.                                   *)
Resolved(p) == At(p, "resolve") /\ proc[p].todo = {}

(* Mutant of Changed: what the second tier has found is not saved.         *)
ChangedModules(p) == proc[p].tier = "modules" /\ proc[p].mine # proc[p].base

Changed(p) == proc[p].mine # proc[p].base

Saves(p) == Changed(p) \/ (proc[p].tier = "update" /\ proc[p].found # {})

-----------------------------------------------------------------------------
(* SaveLockFile. Everyone writes to the same hyve.lock.tmp.                *)
Unused == CHOOSE i \in Inodes :
    i \notin {lockFile, tmpFile} \cup {proc[q].to : q \in {x \in Procs : proc[x].at # "copy"}}

(* Mutant of Opened: the file itself is rewritten.                         *)
OpenedInPlace == lockFile

Opened == IF tmpFile = None THEN Unused ELSE tmpFile

Open(p) ==
    /\ Resolved(p) /\ Saves(p)
    /\ tmpFile' = Opened
    /\ files' = [files EXCEPT ![Opened] = NoPins]
    /\ Become(p, [proc[p] EXCEPT !.at = "write", !.to = Opened])
    /\ UNCHANGED <<local, upstream, lockFile, cache, mirror, ran, count>>

(* What another has written there since may be longer.                     *)
Write(p) ==
    LET s == proc[p] IN
    /\ At(p, "write")
    /\ \E after \in {s.mine} \cup IF files[s.to] \in {NoPins, s.mine} THEN {} ELSE {Torn} :
         files' = [files EXCEPT ![s.to] = after]
    /\ Become(p, [s EXCEPT !.at = "rename", !.to = None])
    /\ UNCHANGED <<local, upstream, lockFile, tmpFile, cache, mirror, ran, count>>

(* The file of that name, which is not there when another has renamed it.  *)
(* What hyve.lock was before has no name any more and its content is gone.  *)
Rename(p) ==
    LET s == proc[p] IN
    /\ At(p, "rename")
    /\ IF tmpFile # None
       THEN /\ lockFile' = tmpFile /\ tmpFile' = None /\ Become(p, [s EXCEPT !.at = "mirror"])
            /\ files' = [files EXCEPT ![lockFile] = NoPins]
       ELSE /\ Become(p, IF s.tier = "modules" THEN [s EXCEPT !.at = "mirror", !.found = {}]
                         ELSE Following(p))
            /\ UNCHANGED <<files, lockFile, tmpFile>>
    /\ UNCHANGED <<local, upstream, cache, mirror, ran, count>>

(* The pass takes over what the file holds now, and upsertModuleCR and the *)
(* like show it for every reference of the tier; a write that fails is     *)
(* logged. Commands have no cluster to show anything in.                   *)
Mirror(p) ==
    LET s == proc[p]
        reload == IF s.tier = "modules" THEN s.found # {} ELSE Changed(p)
        after  == IF reload /\ Lock # Torn THEN Lock ELSE s.view
        shown  == IF s.tier = "modules" THEN after ELSE s.mine IN
    /\ At(p, "mirror") \/ (Resolved(p) /\ ~Saves(p))
    /\ FailureOr(mirror' = [r \in Refs |-> IF s.tier \notin {"modules", "files"}
                                               \/ r \notin Tier(p, s.tier) THEN mirror[r]
                                            ELSE IF r \in s.found THEN shown[r] ELSE None],
                  s.tier \in {"modules", "files"} /\ UNCHANGED mirror)
    /\ Become(p, [Following(p) EXCEPT !.view = IF s.tier \in {"modules", "files"} THEN after ELSE @])
    /\ UNCHANGED <<local, upstream, files, lockFile, tmpFile, cache, ran>>

(* ReconcileOne: everything has to be pinned; what is not cached is fetched*)
(* once more, and has to be what is pinned. A hook that refers to a        *)
(* directory is refused by then.                                           *)
Run(p) ==
    LET s == proc[p]
        use(r) == [ref |-> r, digest |-> s.view[r],
                   whole |-> ~Cached(r, s.view[r]) \/ cache[r][s.view[r]] = "whole"] IN
    /\ At(p, "use")
    /\ ran' = [ran EXCEPT ![p] =
          IF Dirs[p] = {} /\ \A r \in Wants[p] : s.view[r] # None /\ (Cached(r, s.view[r]) \/ s.view[r] = upstream[r])
          THEN {use(r) : r \in Wants[p]} ELSE {}]
    /\ Become(p, Resting)
    /\ UNCHANGED <<local, upstream, files, lockFile, tmpFile, cache, mirror, count>>

-----------------------------------------------------------------------------
(* A tag is moved, or the latest version is another one.                   *)
Retag(r) ==
    /\ count.retags < MaxRetags /\ count' = [count EXCEPT !.retags = @ + 1]
    /\ upstream' = [upstream EXCEPT ![r] = @ + 1]
    /\ UNCHANGED <<local, files, lockFile, tmpFile, cache, mirror, proc, ran>>

(* The process dies; what it has written stays.                            *)
Crash ==
    /\ Failure
    /\ proc' = [p \in Procs |-> Resting]
    /\ ran' = [p \in Procs |-> {}]
    /\ UNCHANGED <<local, upstream, files, lockFile, tmpFile, cache, mirror>>

Step(p) ==
    \/ Begin(p) \/ Skip(p) \/ Load(p)
    \/ \E r \in Refs : Keep(p, r) \/ Miss(p, r) \/ Fetch(p, r) \/ StartCopy(p, r)
    \/ EndCopy(p) \/ Open(p) \/ Write(p) \/ Rename(p) \/ Mirror(p) \/ Run(p)

PinnedNext ==
    \/ \E p \in Procs : Step(p)
    \/ \E p \in Procs, rs \in SUBSET Refs :
          \E tier \in {"install", "update", "remove"} : Command(p, tier, rs)
    \/ \E r \in Refs : Retag(r)
    \/ Crash

PinnedSpec == PinnedInit /\ [][PinnedNext]_pinnedVars

(* Definitions are reconciled again and again.                             *)
FairPasses == PinnedSpec /\ \A p \in Procs : WF_pinnedVars(Step(p))

-----------------------------------------------------------------------------
(* Properties.                                                             *)

PinnedTypeOK ==
    /\ local \in BOOLEAN /\ upstream \in [Refs -> Digests]
    /\ files \in [Inodes -> Pins \cup {Torn}]
    /\ lockFile \in Inodes /\ tmpFile \in {None} \cup Inodes
    /\ cache \in [Refs -> [Digests -> {"no", "part", "whole"}]]
    /\ mirror \in [Refs -> {None} \cup Digests]
    /\ proc \in [Procs -> [at : Stages, tier : Tiers, todo : SUBSET Refs, ref : {None} \cup Refs,
                           view : Pins, mine : Pins, base : Pins, found : SUBSET Refs,
                           to : {None} \cup Inodes \cup Digests]]
    /\ ran \in [Procs -> SUBSET [ref : Refs, digest : Digests, whole : BOOLEAN]]
    /\ count \in [retags : 0 .. MaxRetags, failures : 0 .. MaxFailures, commands : 0 .. MaxCommands]

(* Nobody runs half of a file: what a digest names is there as a whole as  *)
(* soon as it is there at all. A module's directory may be half-copied,    *)
(* and stays so when the copy was cut short.                               *)
RunsWhole == \A p \in Procs : \A u \in ran[p] : u.whole \/ u.ref \in Modules

(* Whether it is for p to change the pin of r: a command for it, or a      *)
(* definition that refers to its directory.                                *)
Meant(p, r) ==
    LET s == proc[p] IN
    \/ r \in s.found /\ (s.tier = "update" \/ r \in Dirs[p])
    \/ s.tier = "remove" /\ s.mine[r] = None

(* What a process has of a module that it copies, and of the file that it  *)
(* writes; whatever else its file pinned when it was read is pinned in its *)
(* copy as it was.                                                         *)
Settled(p) ==
    LET s == proc[p] IN
    /\ s.at = "copy" => /\ s.ref \in Modules /\ s.to \in Digests
                        /\ s.tier # "update" => s.mine[s.ref] = None
    /\ s.tier = "remove" => s.at # "copy" /\ (s.at = "resolve" => s.todo = {})
    /\ s.at = "write" => s.to \in Inodes
    /\ s.at \in {"resolve", "copy", "write", "rename"} =>
          \A r \in Refs : s.base[r] # None /\ ~Meant(p, r) => s.mine[r] = s.base[r]

(* Who saves while nobody else does writes to the file that it has opened, *)
(* and renames what it has written.                                        *)
Saving(p) == proc[p].at \in {"write", "rename"}
AloneSaving(p) == Saving(p) /\ \A q \in Procs \ {p} : ~Saving(q)

SavesItsOwn ==
    /\ tmpFile # lockFile
    /\ \A p \in Procs : AloneSaving(p) /\ tmpFile # None =>
          /\ At(p, "write") => tmpFile = proc[p].to /\ files[tmpFile] = NoPins
          /\ At(p, "rename") => files[tmpFile] = proc[p].mine

(* A file is never half-cached, and a version stands for as many digests   *)
(* as it was moved.                                                        *)
FilesWhole == \A r \in Refs \ Modules, d \in Digests : cache[r][d] # "part"
Tagged     == \A r \in Refs : upstream[r] =< count.retags + 1

PinInv == /\ PinnedTypeOK /\ RunsWhole /\ FilesWhole /\ Tagged
          /\ SavesItsOwn /\ \A p \in Procs : Settled(p)

(* Who saves overlaps another, has read a file that has changed since, or  *)
(* writes what another has renamed into place already.                     *)
Clashes(p) ==
    /\ Saving(p) \/ (Resolved(p) /\ Saves(p))
    /\ \/ proc[p].base # Lock
       \/ \E q \in Procs \ {p} : Saving(q)
       \/ (At(p, "write") /\ proc[p].to = lockFile)

(* What a reference stands for is settled once: a pin is changed or lost   *)
(* only by a command that is for it, by a definition that refers to the    *)
(* file through its directory (resolveDir fetches at every pass, whoever   *)
(* else has pinned the file), and by saves that clash.                     *)
PinsHold ==
    [][\A r \in Refs :
         Lock # Torn /\ Lock[r] # None /\ (Lock' = Torn \/ Lock'[r] # Lock[r])
            => \E p \in Procs : Clashes(p) \/ (Saving(p) /\ Meant(p, r))]_pinnedVars

(* Lost updates are made up for: once the passes do not overlap any more,  *)
(* every reference that some definition has gets pinned, and a file's      *)
(* status shows what it is pinned to, unless two writers have torn         *)
(* hyve.lock before: no pass starts with a file that does not parse.       *)
Alone == \A p, q \in Procs : p # q => At(p, "idle") \/ At(q, "idle")

PinnedAtLast ==
    <>[](~local /\ Alone /\ Lock # Torn) =>
        \A p \in Procs : \A r \in Wants[p] :
            <>[](/\ Lock # Torn /\ Lock[r] # None
                 /\ r \notin Modules /\ Cached(r, Lock[r]) => mirror[r] = Lock[r])
=============================================================================
