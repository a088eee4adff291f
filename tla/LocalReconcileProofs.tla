------------------------- MODULE LocalReconcileProofs -------------------------
(***************************************************************************)
(* For every number of clusters, commands and events: a local checkout     *)
(* leaks no cluster and hands down no outputs, and its runs remove only    *)
(* what they were asked to, each but for the excuses that the module names.*)
(***************************************************************************)
EXTENDS LocalReconcile, TLAPS

Cmds  == {"", "create", "adopt", "delete"}
Works == [at : Stages, cmd : Cmds, n : {0} \cup Names, done : SUBSET Names,
          defs : [Names -> Defs], outs : [Names -> Outs]]

NameInv(n) == NoLeak(n) /\ OwnOutputs(n) /\ LoneSidecar(n)

(* What each variable holds.                                               *)
LEMMA Typed ==
    ASSUME TypeOK
    PROVE  /\ file \in [Names -> Defs] /\ side \in [Names -> Outs]
           /\ cloud \in [Names -> Statuses] /\ proc \in [Procs -> Works]
           /\ events \in 0..MaxEvents /\ excuse \in [Names -> SUBSET Excuses]
BY DEF TypeOK, Works, Cmds

LEMMA MadeTyped ==
    ASSUME file' \in [Names -> Defs], side' \in [Names -> Outs],
           cloud' \in [Names -> Statuses], proc' \in [Procs -> Works],
           events' \in 0..MaxEvents, excuse' \in [Names -> SUBSET Excuses]
    PROVE  TypeOK'
BY DEF TypeOK, Works, Cmds

LEMMA Outputs == 0 \in Outs /\ 1 \in Outs /\ Uids \subseteq Outs
BY LocalAssumption DEF Outs, Uids

LEMMA NothingTyped ==
    /\ NoDef \in Defs /\ ~NoDef.ex
    /\ Idle \in Works /\ Idle.at = "idle" /\ Idle.n = 0
    /\ \A n \in Names : Idle.defs[n] = NoDef /\ Idle.outs[n] = 0
<1>1. NoDef \in Defs /\ ~NoDef.ex
  BY Outputs DEF NoDef, Defs, Kinds
<1>2. /\ Idle.at = "idle" /\ Idle.n = 0
      /\ \A n \in Names : Idle.defs[n] = NoDef /\ Idle.outs[n] = 0
  BY DEF Idle
<1>3. Idle \in Works
  BY <1>1, Outputs DEF Idle, Works, Cmds, Stages
<1> QED
  BY <1>1, <1>2, <1>3

LEMMA IdleWorks ==
    ASSUME NEW p \in Procs, proc'[p] = Idle
    PROVE  WorkInv(p)'
BY NothingTyped DEF WorkInv, Working, At, Cur, Own

LEMMA InitInv == Init => FilesInv
<1> SUFFICES ASSUME Init PROVE FilesInv
  OBVIOUS
<1>1. PICK deps \in [Names -> SUBSET Names], up \in BOOLEAN, del \in BOOLEAN :
        /\ (\A n \in Names : n \notin deps[n]) /\ (del => up)
        /\ file = [n \in Names |-> [ex |-> TRUE, uid |-> 1, del |-> del, deps |-> deps[n],
                                    kind |-> "good"]]
        /\ cloud = [n \in Names |-> IF up THEN "ACTIVE" ELSE "NOT_FOUND"]
        /\ side = [n \in Names |-> IF up THEN 1 ELSE 0]
  BY DEF Init
<1>2. proc = [p \in Procs |-> Idle] /\ events = 0 /\ excuse = [n \in Names |-> {}]
  BY DEF Init
<1>3. TypeOK
  <2>1. file \in [Names -> Defs]
    BY <1>1, Outputs DEF Defs, Kinds
  <2>2. side \in [Names -> Outs] /\ cloud \in [Names -> Statuses]
    BY <1>1, Outputs DEF Statuses
  <2>3. /\ proc \in [Procs -> Works] /\ events \in 0..MaxEvents
        /\ excuse \in [Names -> SUBSET Excuses]
    BY <1>2, NothingTyped, LocalAssumption
  <2> QED
    BY <2>1, <2>2, <2>3 DEF TypeOK, Works, Cmds
<1>4. ASSUME NEW n \in Names PROVE NoLeak(n) /\ OwnOutputs(n) /\ LoneSidecar(n)
  <2>1. file[n].ex /\ file[n].uid = 1 /\ side[n] \in {0, 1}
    BY <1>1
  <2> QED
    BY <2>1 DEF NoLeak, OwnOutputs, Own, LoneSidecar
<1>5. ASSUME NEW p \in Procs PROVE WorkInv(p)
  BY <1>2, NothingTyped DEF WorkInv, Working, At, Cur, Own
<1> QED
  BY <1>3, <1>4, <1>5 DEF FilesInv

-----------------------------------------------------------------------------
(* A name whose files stay as they are, and a command that stands still.   *)
LEMMA NameFrame ==
    ASSUME NEW n \in Names, NameInv(n), file'[n] = file[n], side'[n] = side[n],
           Up(n)' => Up(n), excuse[n] \subseteq excuse'[n],
           \A x \in Procs : At(x, "removeSide") /\ Cur(x) = n => proc'[x] = proc[x]
    PROVE  NameInv(n)'
<1> USE DEF NameInv
<1>1. NoLeak(n)'
  BY DEF NoLeak
<1>2. OwnOutputs(n)'
  BY DEF OwnOutputs, Own
<1>3. LoneSidecar(n)'
  BY DEF LoneSidecar, At, Cur
<1> QED
  BY <1>1, <1>2, <1>3

LEMMA WorkFrame ==
    ASSUME NEW p \in Procs, WorkInv(p), proc'[p] = proc[p],
           \A n \in Names : excuse[n] \subseteq excuse'[n],
           \A n \in Names : At(p, "remove") /\ Cur(p) = n /\ Up(n)' =>
              Up(n) \/ excuse'[n] \cap {"stale", "undeleted"} # {}
    PROVE  WorkInv(p)'
<1>1. Working(p)' => Cur(p)' \in Names /\ Def(p)'.ex
  BY DEF WorkInv, Working, At, Cur, Def
<1>2. At(p, "delete")' \/ At(p, "remove")' => Def(p)'.del
  BY DEF WorkInv, At, Cur, Def
<1>3. At(p, "remove") => Cur(p) \in Names
  BY DEF WorkInv, Working, At
<1>4. At(p, "remove")' /\ Up(Cur(p))' => excuse'[Cur(p)'] \cap {"stale", "undeleted"} # {}
  <2>1. PICK n : n = Cur(p)
    OBVIOUS
  <2>2. Cur(p)' = n /\ (At(p, "remove")' <=> At(p, "remove"))
    BY <2>1 DEF Cur, At
  <2>3. Up(Cur(p))' => Up(n)'
    BY <2>2 DEF Up
  <2>4. At(p, "remove") /\ Up(n) => excuse[n] \cap {"stale", "undeleted"} # {}
    BY <2>1 DEF WorkInv
  <2> QED
    BY <1>3, <2>1, <2>2, <2>3, <2>4
<1>5. \A n \in Names : Own(n, proc[p].defs[n], proc[p].outs[n])'
  BY DEF WorkInv, Own
<1> QED
  BY <1>1, <1>2, <1>4, <1>5 DEF WorkInv

(* Nothing happens but to the files or the cluster of a name, by nobody's  *)
(* step or by a step of the command p.                                     *)
Elsewhere(n) ==
    \A m \in Names \ {n} : /\ file'[m] = file[m] /\ side'[m] = side[m]
                            /\ cloud'[m] = cloud[m] /\ excuse'[m] = excuse[m]

LEMMA OtherNames ==
    ASSUME FilesInv, NEW n \in Names, NEW m \in Names \ {n}, Elsewhere(n),
           \A x \in Procs : At(x, "removeSide") /\ Cur(x) = m => proc'[x] = proc[x]
    PROVE  NameInv(m)'
<1>1. NameInv(m)
  BY DEF NameInv, FilesInv
<1>2. Up(m)' => Up(m)
  BY DEF Up, Elsewhere
<1> QED
  BY <1>1, <1>2, NameFrame, Typed DEF Elsewhere, FilesInv

LEMMA OtherWork ==
    ASSUME FilesInv, NEW n \in Names, NEW x \in Procs, Elsewhere(n), proc'[x] = proc[x],
           excuse[n] \subseteq excuse'[n],
           At(x, "remove") /\ Cur(x) = n /\ Up(n)' =>
              Up(n) \/ excuse'[n] \cap {"stale", "undeleted"} # {}
    PROVE  WorkInv(x)'
<1>1. ASSUME NEW m \in Names, At(x, "remove"), Cur(x) = m, Up(m)'
      PROVE  Up(m) \/ excuse'[m] \cap {"stale", "undeleted"} # {}
  <2>1. m # n => (Up(m)' => Up(m))
    BY DEF Up, Elsewhere
  <2> QED
    BY <1>1, <2>1
<1>2. \A m \in Names : excuse[m] \subseteq excuse'[m]
  BY DEF Elsewhere
<1> QED
  BY <1>1, <1>2, WorkFrame DEF FilesInv

LEMMA NobodyStep ==
    ASSUME FilesInv, TypeOK', NEW n \in Names, UNCHANGED proc, Elsewhere(n),
           excuse[n] \subseteq excuse'[n],
           Up(n)' => Up(n) \/ excuse'[n] \cap {"stale", "undeleted"} # {},
           NameInv(n)'
    PROVE  FilesInv'
<1>1. \A m \in Names : NameInv(m)'
  BY OtherNames
<1>2. \A x \in Procs : WorkInv(x)'
  BY OtherWork
<1> QED
  BY <1>1, <1>2 DEF FilesInv, NameInv

LEMMA NameStep ==
    ASSUME FilesInv, TypeOK', NEW n \in Names, NEW p \in Procs, Elsewhere(n),
           \A x \in Procs \ {p} : proc'[x] = proc[x],
           Cur(p) = n, excuse[n] \subseteq excuse'[n],
           \A x \in Procs \ {p} : At(x, "remove") /\ Cur(x) = n /\ Up(n)' =>
              Up(n) \/ excuse'[n] \cap {"stale", "undeleted"} # {},
           NameInv(n)', WorkInv(p)'
    PROVE  FilesInv'
<1>1. \A m \in Names : NameInv(m)'
  BY OtherNames
<1>2. \A x \in Procs \ {p} : WorkInv(x)'
  BY OtherWork
<1> QED
  BY <1>1, <1>2 DEF FilesInv, NameInv

(* A step of the command p that touches neither files nor clusters.        *)
LEMMA QuietStep ==
    ASSUME FilesInv, NEW p \in Procs, proc' \in [Procs -> Works],
           \A x \in Procs \ {p} : proc'[x] = proc[x],
           UNCHANGED <<file, side, cloud, excuse>>, events' \in 0..MaxEvents,
           ~At(p, "removeSide"), WorkInv(p)'
    PROVE  FilesInv'
<1> USE Typed DEF FilesInv
<1>1. TypeOK'
  BY MadeTyped
<1>2. ASSUME NEW n \in Names PROVE NameInv(n)'
  BY NameFrame DEF NameInv, Up
<1>3. ASSUME NEW x \in Procs PROVE WorkInv(x)'
  <2>1. CASE x # p
    BY <2>1, WorkFrame DEF Up
  <2> QED
    BY <2>1
<1> QED
  BY <1>1, <1>2, <1>3 DEF NameInv

LEMMA GoTyped ==
    ASSUME TypeOK, NEW p \in Procs, NEW stage \in Stages, Go(p, stage)
    PROVE  /\ proc' \in [Procs -> Works] /\ \A x \in Procs \ {p} : proc'[x] = proc[x]
           /\ proc'[p].at = stage /\ proc'[p].n = proc[p].n /\ proc'[p].defs = proc[p].defs
           /\ proc'[p].outs = proc[p].outs /\ proc'[p].cmd = proc[p].cmd
<1>1. proc \in [Procs -> Works] /\ proc' = [proc EXCEPT ![p].at = stage]
  BY Typed DEF Go
<1>2. proc'[p] = [proc[p] EXCEPT !.at = stage] /\ proc[p] \in Works
  BY <1>1
<1>3. [proc[p] EXCEPT !.at = stage] \in Works
  BY <1>2 DEF Works
<1> QED
  BY <1>1, <1>2, <1>3 DEF Works

LEMMA StopTyped ==
    ASSUME TypeOK, NEW p \in Procs, Stop(p)
    PROVE  /\ proc' \in [Procs -> Works] /\ \A x \in Procs \ {p} : proc'[x] = proc[x]
           /\ proc'[p] = Idle /\ WorkInv(p)'
<1>1. proc \in [Procs -> Works] /\ proc' = [proc EXCEPT ![p] = Idle]
  BY Typed DEF Stop
<1>2. proc'[p] = Idle
  BY <1>1
<1> QED
  BY <1>1, <1>2, NothingTyped, IdleWorks

LEMMA EventTyped == TypeOK /\ Event => events' \in 0..MaxEvents
<1> SUFFICES ASSUME TypeOK, Event PROVE events' \in 0..MaxEvents
  OBVIOUS
<1>1. events \in 0..MaxEvents /\ events < MaxEvents /\ events' = events + 1
  BY Typed DEF Event
<1>2. MaxEvents \in Nat
  BY LocalAssumption
<1> QED
  BY <1>1, <1>2

(* A command goes on to the next stage of what it works on.                *)
LEMMA GoWorks ==
    ASSUME TypeOK, NEW p \in Procs, WorkInv(p), NEW stage \in Stages, Go(p, stage),
           stage = "reload" \/ Working(p),
           \A n \in Names : excuse[n] \subseteq excuse'[n],
           stage \in {"delete", "remove"} => Def(p).del,
           \A n \in Names : stage = "remove" /\ Cur(p) = n => ~Up(n)'
    PROVE  WorkInv(p)'
<1>1. /\ proc'[p].at = stage /\ proc'[p].n = proc[p].n /\ proc'[p].defs = proc[p].defs
      /\ proc'[p].outs = proc[p].outs
  BY GoTyped
<1>2. PICK n : n = Cur(p)
  OBVIOUS
<1>3. Cur(p)' = n /\ Def(p)' = Def(p)
  BY <1>1, <1>2 DEF Cur, Def
<1>4. Working(p)' => Cur(p)' \in Names /\ Def(p)'.ex
  BY <1>1, <1>2, <1>3 DEF WorkInv, Working, At
<1>5. At(p, "delete")' \/ At(p, "remove")' => Def(p)'.del
  BY <1>1, <1>3 DEF At
<1>6. ~(At(p, "remove")' /\ Up(Cur(p))')
  BY <1>1, <1>2, <1>3, <1>4 DEF At, Working, Up
<1>7. \A m \in Names : Own(m, proc[p].defs[m], proc[p].outs[m])'
  BY <1>1 DEF WorkInv, Own
<1> QED
  BY <1>3, <1>4, <1>5, <1>6, <1>7 DEF WorkInv

-----------------------------------------------------------------------------
(* The turns of a run.                                                     *)
LEMMA TakeNextKeeps ==
    ASSUME FilesInv, NEW p \in Procs, NEW defs \in [Names -> Defs],
           NEW outs \in [Names -> Outs], \A n \in Names : Own(n, defs[n], outs[n]),
           TakeNext(p, defs, outs), ~At(p, "removeSide"),
           UNCHANGED <<file, side, cloud, excuse>>, events' \in 0..MaxEvents
    PROVE  FilesInv'
<1> USE Typed DEF FilesInv
<1>1. PICK done : done = proc[p].done
  OBVIOUS
<1>2. done \subseteq Names
  BY <1>1 DEF Works
<1>3. CASE Stop(p)
  BY <1>3, StopTyped, QuietStep
<1>4. ASSUME NEW next \in Names \ done, defs[next].ex,
             NEW at \in {"reload", "status", "deps"},
             proc' = [proc EXCEPT ![p] =
                [at |-> at, cmd |-> "", n |-> next, done |-> done \cup {next},
                 defs |-> [n \in Names |-> IF n \in done THEN NoDef ELSE defs[n]],
                 outs |-> [n \in Names |-> IF n \in done THEN 0 ELSE outs[n]]]]
      PROVE  FilesInv'
  <2> DEFINE defs2 == [n \in Names |-> IF n \in done THEN NoDef ELSE defs[n]]
             outs2 == [n \in Names |-> IF n \in done THEN 0 ELSE outs[n]]
             work  == [at |-> at, cmd |-> "", n |-> next, done |-> done \cup {next},
                       defs |-> defs2, outs |-> outs2]
  <2>1. defs2 \in [Names -> Defs] /\ outs2 \in [Names -> Outs]
    BY NothingTyped, Outputs
  <2>2. \A n \in Names : Own(n, defs2[n], outs2[n])
    BY NothingTyped DEF Own
  <2>3. defs2[next] = defs[next]
    OBVIOUS
  <2>4. proc' = [proc EXCEPT ![p] = work]
    BY <1>4
  <2> HIDE DEF defs2, outs2
  <2>5. /\ work \in Works /\ work.at = at /\ work.n = next /\ work.defs = defs2
        /\ work.outs = outs2
    BY <1>2, <2>1 DEF Works, Cmds, Stages
  <2> HIDE DEF work
  <2>6. /\ proc' \in [Procs -> Works] /\ \A x \in Procs \ {p} : proc'[x] = proc[x]
        /\ proc'[p] = work
    BY <2>4, <2>5
  <2>7. /\ proc'[p].at = at /\ proc'[p].n = next /\ proc'[p].defs = defs2
        /\ proc'[p].outs = outs2
    BY <2>5, <2>6
  <2>8. WorkInv(p)'
    <3>1. Cur(p)' = next /\ Def(p)' = defs[next]
      BY <2>3, <2>7 DEF Cur, Def
    <3>2. ~At(p, "delete")' /\ ~At(p, "remove")'
      BY <2>7 DEF At
    <3>3. \A n \in Names : Own(n, proc[p].defs[n], proc[p].outs[n])'
      BY <2>2, <2>7 DEF Own
    <3>4. Cur(p)' \in Names /\ (Def(p).ex)'
      BY <1>4, <3>1
    <3> HIDE DEF FilesInv
    <3> QED
      BY <3>2, <3>3, <3>4 DEF WorkInv
  <2> QED
    BY <2>6, <2>8, QuietStep
<1>5. CASE ~Stop(p)
  <2> DEFINE left == {n \in Names \ proc[p].done : defs[n].ex}
  <2>1. PICK next \in left :
          /\ \A m \in left : next <= m
          /\ proc' = [proc EXCEPT ![p] =
                [at |-> IF defs[next].kind # "good" THEN "reload"
                        ELSE IF defs[next].deps = {} THEN "status" ELSE "deps",
                 cmd |-> "", n |-> next, done |-> proc[p].done \cup {next},
                 defs |-> [n \in Names |-> IF n \in proc[p].done THEN NoDef ELSE defs[n]],
                 outs |-> [n \in Names |-> IF n \in proc[p].done THEN 0 ELSE outs[n]]]]
    BY <1>5 DEF TakeNext
  <2>2. PICK at \in {"reload", "status", "deps"} :
          at = IF defs[next].kind # "good" THEN "reload"
               ELSE IF defs[next].deps = {} THEN "status" ELSE "deps"
    OBVIOUS
  <2> QED
    BY <1>1, <1>4, <2>1, <2>2
<1> QED
  BY <1>3, <1>5

LEMMA TurnKeeps ==
    ASSUME FilesInv, NEW p \in Procs, Start(p) \/ Reload(p)
    PROVE  FilesInv'
<1> USE Typed DEF FilesInv
<1>1. /\ UNCHANGED <<file, side, cloud, excuse>> /\ ~At(p, "removeSide")
      /\ TakeNext(p, file, side) \/ TakeNext(p, proc[p].defs, proc[p].outs)
  BY DEF Start, Reload, At
<1>2. events' \in 0..MaxEvents
  BY EventTyped DEF Start, Reload
<1>3. CASE TakeNext(p, file, side)
  <2>1. \A n \in Names : Own(n, file[n], side[n])
    BY DEF OwnOutputs
  <2> QED
    BY <1>1, <1>2, <1>3, <2>1, TakeNextKeeps
<1>4. CASE TakeNext(p, proc[p].defs, proc[p].outs)
  <2>1. PICK defs \in [Names -> Defs], outs \in [Names -> Outs] :
          defs = proc[p].defs /\ outs = proc[p].outs
    BY DEF Works
  <2>2. \A n \in Names : Own(n, defs[n], outs[n])
    BY <2>1 DEF WorkInv
  <2>3. TakeNext(p, defs, outs)
    BY <1>4, <2>1
  <2> QED
    BY <1>1, <1>2, <2>2, <2>3, TakeNextKeeps
<1> QED
  BY <1>1, <1>3, <1>4

(* checkDependencyStatus and the status op.                                *)
LEMMA LookKeeps ==
    ASSUME FilesInv, NEW p \in Procs, CheckDeps(p) \/ Status(p)
    PROVE  FilesInv'
<1> USE Typed DEF FilesInv
<1>1. /\ UNCHANGED <<file, side, cloud, excuse>> /\ ~At(p, "removeSide") /\ Working(p)
  BY DEF CheckDeps, Status, At, Working
<1>2. events' \in 0..MaxEvents
  BY EventTyped DEF CheckDeps, Status
<1>3. PICK stage \in {"status", "reload", "write", "create", "delete", "remove"} :
        /\ Go(p, stage)
        /\ stage \in {"delete", "remove"} => Def(p).del
        /\ stage = "remove" => cloud[Cur(p)] = "NOT_FOUND"
  <2>1. CASE CheckDeps(p)
    BY <2>1 DEF CheckDeps
  <2>2. CASE Status(p)
    BY <2>2 DEF Status, NextStage
  <2> QED
    BY <2>1, <2>2
<1>4. stage \in Stages
  BY DEF Stages
<1>5. WorkInv(p)'
  <2>1. \A n \in Names : stage = "remove" /\ Cur(p) = n => ~Up(n)'
    BY <1>1, <1>3 DEF Up
  <2> QED
    BY <1>1, <1>3, <1>4, <2>1, GoWorks
<1> QED
  BY <1>1, <1>2, <1>3, <1>4, <1>5, GoTyped, QuietStep

-----------------------------------------------------------------------------
(* People.                                                                 *)
LEMMA FreshTyped ==
    ASSUME TypeOK, NEW n \in Names, NextUid(n) \in Uids
    PROVE  /\ Fresh(n) \in Defs /\ Fresh(n).ex /\ Fresh(n).uid = NextUid(n) /\ ~Fresh(n).del
           /\ file[n].ex => Fresh(n).uid = file[n].uid
BY Outputs DEF Fresh, Defs, Kinds, NextUid

LEMMA HandWriteKeeps ==
    ASSUME FilesInv, NEW n \in Names, HandWrite(n)
    PROVE  FilesInv'
<1> USE Typed DEF FilesInv
<1>1. /\ UNCHANGED <<side, cloud, proc>> /\ events' \in 0..MaxEvents
      /\ NextUid(n) \in Uids
  BY EventTyped DEF HandWrite
<1>2. PICK f \in Defs : /\ file' = [file EXCEPT ![n] = f] /\ f.ex
                        /\ file[n].ex => f.uid = file[n].uid
  <2>1. CASE file[n].ex /\ file' = [file EXCEPT ![n].del = ~@]
    <3>1. PICK d \in BOOLEAN : d = ~file[n].del
      BY Zenon
    <3>2. [file[n] EXCEPT !.del = d] \in Defs
      BY DEF Defs
    <3>3. /\ [file[n] EXCEPT !.del = d].ex = file[n].ex
          /\ [file[n] EXCEPT !.del = d].uid = file[n].uid
      BY DEF Defs
    <3> QED
      BY <2>1, <3>1, <3>2, <3>3
  <2>2. ASSUME NEW k \in {"paused", "host", "unlocked"}, file[n].ex,
               file' = [file EXCEPT ![n].kind = k]
        PROVE  \E f \in Defs : /\ file' = [file EXCEPT ![n] = f] /\ f.ex
                               /\ file[n].ex => f.uid = file[n].uid
    <3>1. /\ [file[n] EXCEPT !.kind = k] \in Defs /\ [file[n] EXCEPT !.kind = k].ex
          /\ [file[n] EXCEPT !.kind = k].uid = file[n].uid
      BY <2>2 DEF Defs, Kinds
    <3> QED
      BY <2>2, <3>1
  <2>3. CASE file' = [file EXCEPT ![n] = Fresh(n)]
    BY <1>1, <2>3, FreshTyped
  <2> QED
    BY <2>1, <2>2, <2>3 DEF HandWrite
<1>3. PICK es \in SUBSET Excuses :
        /\ excuse' = [excuse EXCEPT ![n] = @ \cup es]
        /\ es = IF file[n].ex THEN {} ELSE Half(n)
  <2>1. Half(n) \subseteq Excuses
    BY DEF Half, Excuses
  <2> QED
    BY <2>1 DEF HandWrite, Mark
<1>4. /\ file' \in [Names -> Defs] /\ file'[n] = f
      /\ excuse' \in [Names -> SUBSET Excuses] /\ excuse'[n] = excuse[n] \cup es
      /\ \A m \in Names \ {n} : file'[m] = file[m] /\ excuse'[m] = excuse[m]
  BY <1>2, <1>3
<1>5. TypeOK'
  BY <1>1, <1>4, MadeTyped
<1>6. NameInv(n)'
  <2>1. NoLeak(n)' /\ LoneSidecar(n)'
    BY <1>2, <1>4 DEF NoLeak, LoneSidecar
  <2>2. OwnOutputs(n)'
    <3>1. CASE file[n].ex
      BY <1>1, <1>2, <1>4, <3>1 DEF OwnOutputs, Own
    <3>2. CASE ~file[n].ex
      <4>1. side[n] # 0 => excuse[n] # {} \/ Half(n) = {"left"}
        BY <3>2 DEF LoneSidecar, Half
      <4> QED
        BY <1>1, <1>3, <1>4, <3>2, <4>1 DEF OwnOutputs, Own
    <3> QED
      BY <3>1, <3>2
  <2> QED
    BY <2>1, <2>2 DEF NameInv
<1>7. Up(n)' => Up(n)
  BY <1>1 DEF Up
<1> QED
  BY <1>1, <1>4, <1>5, <1>6, <1>7, NobodyStep DEF Elsewhere

LEMMA HandRemoveKeeps ==
    ASSUME FilesInv, NEW n \in Names, HandRemove(n)
    PROVE  FilesInv'
<1> USE Typed DEF FilesInv
<1>1. /\ UNCHANGED <<side, cloud, proc>> /\ events' \in 0..MaxEvents
      /\ file' = [file EXCEPT ![n].ex = FALSE]
      /\ excuse' = [excuse EXCEPT ![n] = @ \cup {"byHand"}]
  BY EventTyped DEF HandRemove, Mark
<1>2. [file[n] EXCEPT !.ex = FALSE] \in Defs /\ {"byHand"} \subseteq Excuses
  <2>1. file[n] \in Defs
    OBVIOUS
  <2>2. [file[n] EXCEPT !.ex = FALSE] \in Defs
    BY <2>1 DEF Defs
  <2> QED
    BY <2>2 DEF Excuses
<1>3. /\ file' \in [Names -> Defs] /\ excuse' \in [Names -> SUBSET Excuses]
      /\ excuse'[n] = excuse[n] \cup {"byHand"}
      /\ \A m \in Names \ {n} : file'[m] = file[m] /\ excuse'[m] = excuse[m]
  BY <1>1, <1>2
<1>4. TypeOK'
  BY <1>1, <1>3, MadeTyped
<1>5. NameInv(n)'
  BY <1>3 DEF NameInv, NoLeak, OwnOutputs, Own, LoneSidecar
<1>6. Up(n)' => Up(n)
  BY <1>1 DEF Up
<1> QED
  BY <1>1, <1>3, <1>4, <1>5, <1>6, NobodyStep DEF Elsewhere

LEMMA CommandKeeps ==
    ASSUME FilesInv, NEW p \in Procs, NEW n \in Names,
           CreateCmd(p, n) \/ AdoptCmd(p, n) \/ DeleteCmd(p, n)
    PROVE  FilesInv'
<1> USE Typed DEF FilesInv
<1>1. PICK cmd \in Cmds, def \in Defs, out \in Outs :
        Command(p, cmd, n, def, out) /\ def.ex /\ Own(n, def, out)
  <2>1. CASE CreateCmd(p, n)
    <3>1. Fresh(n) \in Defs /\ Fresh(n).ex /\ Own(n, Fresh(n), 0)
      BY <2>1, FreshTyped DEF CreateCmd, Own
    <3> QED
      BY <2>1, <3>1, Outputs DEF CreateCmd, Cmds
  <2>2. CASE AdoptCmd(p, n)
    <3>1. /\ Fresh(n) \in Defs /\ Fresh(n).ex /\ Own(n, Fresh(n), NextUid(n))
          /\ NextUid(n) \in Outs
      BY <2>2, FreshTyped, Outputs DEF AdoptCmd, Own
    <3> QED
      BY <2>2, <3>1 DEF AdoptCmd, Cmds
  <2>3. CASE DeleteCmd(p, n)
    BY <2>3 DEF DeleteCmd, OwnOutputs, Cmds
  <2> QED
    BY <2>1, <2>2, <2>3
<1> DEFINE defs == [m \in Names |-> IF m = n THEN def ELSE NoDef]
           outs == [m \in Names |-> IF m = n THEN out ELSE 0]
           work == [at |-> "write", cmd |-> cmd, n |-> n, done |-> {}, defs |-> defs,
                    outs |-> outs]
<1>2. /\ UNCHANGED <<file, side, cloud, excuse>> /\ events' \in 0..MaxEvents /\ At(p, "idle")
      /\ proc' = [proc EXCEPT ![p] = work]
  BY <1>1, EventTyped DEF Command
<1>3. /\ defs \in [Names -> Defs] /\ outs \in [Names -> Outs] /\ defs[n] = def
      /\ \A m \in Names : Own(m, defs[m], outs[m])
  BY <1>1, NothingTyped, Outputs DEF Own
<1> HIDE DEF defs, outs
<1>4. /\ work \in Works /\ work.at = "write" /\ work.n = n /\ work.defs = defs
      /\ work.outs = outs
  BY <1>3 DEF Works, Stages
<1> HIDE DEF work
<1>5. /\ proc' \in [Procs -> Works] /\ \A x \in Procs \ {p} : proc'[x] = proc[x]
      /\ proc'[p] = work
  BY <1>2, <1>4
<1>6. WorkInv(p)'
  <2>1. Cur(p)' = n /\ Def(p)' = def
    BY <1>3, <1>4, <1>5 DEF Cur, Def
  <2>2. ~At(p, "delete")' /\ ~At(p, "remove")'
    BY <1>4, <1>5 DEF At
  <2>3. \A m \in Names : Own(m, proc[p].defs[m], proc[p].outs[m])'
    BY <1>2, <1>3, <1>4, <1>5 DEF Own
  <2> QED
    BY <1>1, <2>1, <2>2, <2>3 DEF WorkInv
<1>7. ~At(p, "removeSide")
  BY <1>2 DEF At
<1> QED
  BY <1>2, <1>5, <1>6, <1>7, QuietStep

-----------------------------------------------------------------------------
(* SaveClusterDefinition and RemoveClusterFile.                            *)
LEMMA AtWork ==
    ASSUME FilesInv, NEW p \in Procs, Working(p)
    PROVE  /\ Cur(p) \in Names /\ Def(p) \in Defs /\ Def(p).ex
           /\ proc[p].outs[Cur(p)] \in Outs /\ Own(Cur(p), Def(p), proc[p].outs[Cur(p)])
<1>1. Cur(p) \in Names /\ Def(p).ex
  BY DEF FilesInv, WorkInv
<1>2. proc[p] \in Works
  BY Typed DEF FilesInv
<1> QED
  BY <1>1, <1>2 DEF FilesInv, WorkInv, Works, Def, Cur

LEMMA ContentTyped ==
    ASSUME NEW p \in Procs, Def(p) \in Defs, Def(p).ex
    PROVE  Content(p) \in Defs /\ Content(p).ex /\ Content(p).uid = Def(p).uid
<1>1. PICK d \in BOOLEAN : d = (Def(p).del \/ proc[p].cmd = "delete")
  BY Zenon
<1>2. Content(p) = [Def(p) EXCEPT !.del = d]
  BY <1>1 DEF Content
<1>3. [Def(p) EXCEPT !.del = d] \in Defs
  BY DEF Defs
<1>4. /\ [Def(p) EXCEPT !.del = d].ex = Def(p).ex
      /\ [Def(p) EXCEPT !.del = d].uid = Def(p).uid
  BY DEF Defs
<1> QED
  BY <1>2, <1>3, <1>4

LEMMA WriteKeeps ==
    ASSUME FilesInv, NEW p \in Procs, Write(p)
    PROVE  FilesInv'
<1> USE Typed DEF FilesInv
<1>1. Working(p) /\ ~At(p, "removeSide")
  BY DEF Write, At, Working
<1>2. PICK n \in Names : n = Cur(p)
  BY <1>1, AtWork
<1>3. PICK f \in Defs : f = Content(p) /\ f.ex /\ f.uid = Def(p).uid
  BY <1>1, AtWork, ContentTyped
<1>4. /\ file' = [file EXCEPT ![n] = f] /\ UNCHANGED <<side, cloud, events>>
      /\ Go(p, "writeSide")
  BY <1>2, <1>3 DEF Write
<1>5. PICK es \in SUBSET Excuses :
        /\ excuse' = [excuse EXCEPT ![n] = @ \cup es]
        /\ es = IF proc[p].cmd \in {"create", "adopt"} THEN Half(n) \cup Overtaken(p)
                ELSE Stale(p)
  <2>1. Half(n) \subseteq Excuses /\ Overtaken(p) \subseteq Excuses /\ Stale(p) \subseteq Excuses
    BY DEF Half, Overtaken, Stale, Excuses
  <2>2. excuse' = [excuse EXCEPT ![n] = @ \cup
           IF proc[p].cmd \in {"create", "adopt"} THEN Half(n) \cup Overtaken(p) ELSE Stale(p)]
    BY <1>2 DEF Write, Mark
  <2> QED
    BY <2>1, <2>2
<1>6. /\ file' \in [Names -> Defs] /\ file'[n] = f
      /\ excuse' \in [Names -> SUBSET Excuses] /\ excuse'[n] = excuse[n] \cup es
      /\ Elsewhere(n)
  BY <1>4, <1>5 DEF Elsewhere
<1>7. "writeSide" \in Stages
  BY DEF Stages
<1>8. proc' \in [Procs -> Works] /\ \A x \in Procs \ {p} : proc'[x] = proc[x]
  BY <1>4, <1>7, GoTyped
<1>9. TypeOK'
  BY <1>4, <1>6, <1>8, MadeTyped
<1>10. NameInv(n)'
  <2>1. NoLeak(n)' /\ LoneSidecar(n)'
    BY <1>3, <1>6 DEF NoLeak, LoneSidecar
  <2>2. OwnOutputs(n) /\ LoneSidecar(n)
    OBVIOUS
  <2>3. side[n] = 0 \/ side[n] = f.uid \/ excuse[n] # {} \/ es # {}
    <3>1. CASE proc[p].cmd \in {"create", "adopt"} /\ NextUid(n) # f.uid
      BY <1>2, <1>3, <1>5, <3>1 DEF Overtaken
    <3>2. CASE proc[p].cmd \in {"create", "adopt"} /\ NextUid(n) = f.uid /\ file[n].ex
      BY <2>2, <3>2 DEF OwnOutputs, Own, NextUid
    <3>3. CASE proc[p].cmd \in {"create", "adopt"} /\ ~file[n].ex
      BY <1>5, <2>2, <3>3 DEF LoneSidecar, Half
    <3>4. CASE proc[p].cmd \notin {"create", "adopt"} /\ file[n] # Def(p)
      BY <1>2, <1>5, <3>4 DEF Stale
    <3>5. CASE file[n] = Def(p)
      BY <1>1, <1>3, <2>2, <3>5, AtWork DEF OwnOutputs, Own
    <3> QED
      BY <3>1, <3>2, <3>3, <3>4, <3>5
  <2>4. OwnOutputs(n)'
    BY <1>4, <1>6, <2>3 DEF OwnOutputs, Own
  <2> QED
    BY <2>1, <2>4 DEF NameInv
<1>11. WorkInv(p)'
  <2>1. \A m \in Names : excuse[m] \subseteq excuse'[m]
    BY <1>6 DEF Elsewhere
  <2> QED
    BY <1>1, <1>4, <1>7, <2>1, GoWorks
<1>12. Up(n)' => Up(n)
  BY <1>4 DEF Up
<1> QED
  BY <1>2, <1>6, <1>8, <1>9, <1>10, <1>11, <1>12, NameStep

LEMMA WriteSideKeeps ==
    ASSUME FilesInv, NEW p \in Procs, WriteSide(p)
    PROVE  FilesInv'
<1> USE Typed DEF FilesInv
<1>1. Working(p) /\ ~At(p, "removeSide")
  BY DEF WriteSide, At, Working
<1>2. PICK n \in Names : n = Cur(p)
  BY <1>1, AtWork
<1>3. PICK out \in Outs : out = proc[p].outs[n]
  BY <1>1, <1>2, AtWork
<1>4. /\ side' = [side EXCEPT ![n] = out] /\ UNCHANGED <<file, cloud, events>>
      /\ Stop(p) \/ Go(p, "reload")
  BY <1>2, <1>3 DEF WriteSide
<1>5. PICK es \in SUBSET Excuses :
        /\ excuse' = [excuse EXCEPT ![n] = @ \cup es]
        /\ es = IF file[n].ex /\ file[n].uid = Def(p).uid THEN {} ELSE {"left"}
  BY <1>2 DEF WriteSide, Mark, Excuses
<1>6. /\ side' \in [Names -> Outs] /\ side'[n] = out
      /\ excuse' \in [Names -> SUBSET Excuses] /\ excuse'[n] = excuse[n] \cup es
      /\ Elsewhere(n)
  BY <1>4, <1>5 DEF Elsewhere
<1>7. "reload" \in Stages
  BY DEF Stages
<1>8. proc' \in [Procs -> Works] /\ \A x \in Procs \ {p} : proc'[x] = proc[x]
  BY <1>4, <1>7, GoTyped, StopTyped
<1>9. TypeOK'
  BY <1>4, <1>6, <1>8, MadeTyped
<1>10. NameInv(n)'
  <2>1. NoLeak(n)'
    BY <1>4, <1>6 DEF NoLeak, Up
  <2>2. Own(n, Def(p), out)
    BY <1>1, <1>2, <1>3, AtWork
  <2>3. OwnOutputs(n)' /\ LoneSidecar(n)'
    BY <1>1, <1>4, <1>5, <1>6, <2>2, AtWork DEF OwnOutputs, Own, LoneSidecar
  <2> QED
    BY <2>1, <2>3 DEF NameInv
<1>11. WorkInv(p)'
  <2>1. \A m \in Names : excuse[m] \subseteq excuse'[m]
    BY <1>6 DEF Elsewhere
  <2> QED
    BY <1>1, <1>4, <1>7, <2>1, GoWorks, StopTyped
<1>12. Up(n)' => Up(n)
  BY <1>4 DEF Up
<1> QED
  BY <1>2, <1>6, <1>8, <1>9, <1>10, <1>11, <1>12, NameStep

LEMMA RemoveKeeps ==
    ASSUME FilesInv, NEW p \in Procs, Remove(p)
    PROVE  FilesInv'
<1> USE Typed DEF FilesInv
<1>1. Working(p) /\ At(p, "remove") /\ ~At(p, "removeSide")
  BY DEF Remove, At, Working
<1>2. PICK n \in Names : n = Cur(p)
  BY <1>1, AtWork
<1>3. "reload" \in Stages /\ "removeSide" \in Stages
  BY DEF Stages
<1>4. CASE Go(p, "reload") /\ UNCHANGED <<file, excuse>>
  <2>1. UNCHANGED <<side, cloud, events>>
    BY DEF Remove
  <2>2. WorkInv(p)'
    BY <1>3, <1>4, GoWorks
  <2> QED
    BY <1>1, <1>3, <1>4, <2>1, <2>2, GoTyped, QuietStep
<1>5. CASE /\ file[n].ex /\ file' = [file EXCEPT ![n].ex = FALSE] /\ Mark(n, Stale(p))
           /\ Go(p, "removeSide")
  <2>1. UNCHANGED <<side, cloud, events>>
    BY DEF Remove
  <2>2. [file[n] EXCEPT !.ex = FALSE] \in Defs
    <3>1. file[n] \in Defs
      OBVIOUS
    <3> QED
      BY <3>1 DEF Defs
  <2>3. PICK es \in SUBSET Excuses : excuse' = [excuse EXCEPT ![n] = @ \cup es]
    BY <1>5 DEF Mark, Stale, Excuses
  <2>4. /\ file' \in [Names -> Defs] /\ ~file'[n].ex
        /\ excuse' \in [Names -> SUBSET Excuses] /\ excuse'[n] = excuse[n] \cup es
        /\ Elsewhere(n)
    BY <1>5, <2>1, <2>2, <2>3 DEF Elsewhere
  <2>5. /\ proc' \in [Procs -> Works] /\ \A x \in Procs \ {p} : proc'[x] = proc[x]
        /\ proc'[p].at = "removeSide" /\ proc'[p].n = n
    BY <1>2, <1>3, <1>5, GoTyped DEF Cur
  <2>6. TypeOK'
    BY <2>1, <2>4, <2>5, MadeTyped
  <2>7. NameInv(n)'
    <3>1. Up(n)' => excuse[n] \cap {"stale", "undeleted"} # {}
      BY <1>1, <1>2, <2>1 DEF WorkInv, Up
    <3>2. NoLeak(n)'
      BY <2>4, <3>1 DEF NoLeak
    <3>3. OwnOutputs(n)'
      BY <2>4 DEF OwnOutputs, Own
    <3>4. LoneSidecar(n)'
      BY <2>5 DEF LoneSidecar, At, Cur
    <3> QED
      BY <3>2, <3>3, <3>4 DEF NameInv
  <2>8. WorkInv(p)'
    <3>1. \A m \in Names : excuse[m] \subseteq excuse'[m]
      BY <2>4 DEF Elsewhere
    <3> QED
      BY <1>1, <1>3, <1>5, <3>1, GoWorks
  <2>9. Up(n)' => Up(n)
    BY <2>1 DEF Up
  <2> QED
    BY <1>2, <2>4, <2>5, <2>6, <2>7, <2>8, <2>9, NameStep
<1> QED
  BY <1>2, <1>4, <1>5 DEF Remove

LEMMA RemoveSideKeeps ==
    ASSUME FilesInv, NEW p \in Procs, RemoveSide(p)
    PROVE  FilesInv'
<1> USE Typed DEF FilesInv
<1>1. Working(p)
  BY DEF RemoveSide, At, Working
<1>2. PICK n \in Names : n = Cur(p)
  BY <1>1, AtWork
<1>3. /\ side' = [side EXCEPT ![n] = 0] /\ UNCHANGED <<file, cloud, events, excuse>>
      /\ Go(p, "reload")
  BY <1>2 DEF RemoveSide
<1>4. "reload" \in Stages
  BY DEF Stages
<1>5. side' \in [Names -> Outs] /\ side'[n] = 0 /\ Elsewhere(n)
  BY <1>3, Outputs DEF Elsewhere
<1>6. /\ proc' \in [Procs -> Works] /\ \A x \in Procs \ {p} : proc'[x] = proc[x]
      /\ WorkInv(p)'
  BY <1>3, <1>4, GoTyped, GoWorks
<1>7. TypeOK'
  BY <1>3, <1>5, <1>6, MadeTyped
<1>8. NameInv(n)'
  BY <1>3, <1>5 DEF NameInv, NoLeak, Up, OwnOutputs, Own, LoneSidecar
<1>9. Up(n)' => Up(n)
  BY <1>3 DEF Up
<1> QED
  BY <1>2, <1>3, <1>5, <1>6, <1>7, <1>8, <1>9, NameStep

-----------------------------------------------------------------------------
(* Clusters come and go.                                                   *)
LEMMA CreateKeeps ==
    ASSUME FilesInv, NEW p \in Procs, Create(p)
    PROVE  FilesInv'
<1> USE Typed DEF FilesInv
<1>1. Working(p) /\ ~At(p, "removeSide") /\ UNCHANGED <<file, side>>
  BY DEF Create, At, Working
<1>2. PICK n \in Names : n = Cur(p)
  BY <1>1, AtWork
<1>3. PICK es \in SUBSET Excuses :
        excuse' = [excuse EXCEPT ![n] = @ \cup es] /\ es = Stale(p) \cup Doomed(n)
  <2>1. Stale(p) \subseteq Excuses /\ Doomed(n) \subseteq Excuses
    BY DEF Stale, Doomed, Excuses
  <2>2. excuse' = [excuse EXCEPT ![n] = @ \cup (Stale(p) \cup Doomed(n))]
    BY <1>2 DEF Create, Mark
  <2> QED
    BY <2>1, <2>2
<1>4. PICK st \in Statuses : cloud' = [cloud EXCEPT ![n] = st]
  <2>1. cloud[n] \in Statuses /\ "CREATING" \in Statuses /\ "FAILED" \in Statuses
    BY DEF Statuses
  <2>2. cloud' = cloud => cloud' = [cloud EXCEPT ![n] = cloud[n]]
    OBVIOUS
  <2> QED
    BY <1>2, <2>1, <2>2 DEF Create
<1>5. events' \in 0..MaxEvents
  BY EventTyped DEF Create
<1>6. /\ cloud' \in [Names -> Statuses] /\ excuse' \in [Names -> SUBSET Excuses]
      /\ excuse'[n] = excuse[n] \cup es /\ Elsewhere(n)
  BY <1>1, <1>3, <1>4 DEF Elsewhere
<1>7. \A m \in Names : excuse[m] \subseteq excuse'[m]
  BY <1>6 DEF Elsewhere
<1>8. /\ proc' \in [Procs -> Works] /\ \A x \in Procs \ {p} : proc'[x] = proc[x]
      /\ WorkInv(p)'
  <2>1. CASE Go(p, "reload")
    <3>1. "reload" \in Stages
      BY DEF Stages
    <3> QED
      BY <1>7, <2>1, <3>1, GoTyped, GoWorks
  <2>2. CASE proc' = [proc EXCEPT ![p].at = "write", ![p].outs[n] = Def(p).uid]
    <3>1. PICK uid \in Outs : uid = Def(p).uid
      BY <1>1, AtWork DEF Defs
    <3> DEFINE outs == [proc[p].outs EXCEPT ![n] = uid]
    <3>2. outs \in [Names -> Outs] /\ outs[n] = uid /\ proc[p].outs \in [Names -> Outs]
      BY DEF Works
    <3>3. \A m \in Names : m # n => outs[m] = proc[p].outs[m]
      BY <3>2
    <3>4. proc' = [proc EXCEPT ![p] = [proc[p] EXCEPT !.at = "write", !.outs = outs]]
      BY <2>2, <3>1
    <3> HIDE DEF outs
    <3>5. proc'[p] = [proc[p] EXCEPT !.at = "write", !.outs = outs] /\ proc[p] \in Works
      BY <3>4
    <3>6. [proc[p] EXCEPT !.at = "write", !.outs = outs] \in Works
      BY <3>2, <3>5 DEF Works, Stages
    <3>7. /\ proc'[p].at = "write" /\ proc'[p].n = proc[p].n
          /\ proc'[p].defs = proc[p].defs /\ proc'[p].outs = outs
      BY <3>5 DEF Works
    <3>8. WorkInv(p)'
      <4>1. Cur(p)' = n /\ Def(p)' = Def(p) /\ Def(p).ex
        BY <1>1, <1>2, <3>7, AtWork DEF Cur, Def
      <4>2. ~At(p, "delete")' /\ ~At(p, "remove")'
        BY <3>7 DEF At
      <4>3. \A m \in Names : Own(m, proc[p].defs[m], outs[m])
        <5>1. Own(n, proc[p].defs[n], outs[n])
          BY <1>2, <3>1, <3>2 DEF Own, Def, Cur
        <5>2. \A m \in Names : m # n => Own(m, proc[p].defs[m], outs[m])
          BY <3>3 DEF WorkInv
        <5> QED
          BY <5>1, <5>2
      <4>4. \A m \in Names : Own(m, proc[p].defs[m], proc[p].outs[m])'
        BY <1>7, <3>7, <4>3 DEF Own
      <4> QED
        BY <4>1, <4>2, <4>4 DEF WorkInv
    <3> QED
      BY <3>4, <3>6, <3>8
  <2> QED
    BY <1>2, <2>1, <2>2 DEF Create
<1>9. TypeOK'
  BY <1>1, <1>5, <1>6, <1>8, MadeTyped
<1>10. NameInv(n)'
  <2>1. file[n].ex \/ "stale" \in excuse'[n]
    BY <1>1, <1>2, <1>3, <1>6, AtWork DEF Stale
  <2>2. NoLeak(n)'
    BY <1>1, <2>1 DEF NoLeak
  <2>3. OwnOutputs(n)'
    BY <1>1, <1>6 DEF OwnOutputs, Own
  <2>4. LoneSidecar(n)'
    BY <1>1, <1>6, <1>8 DEF LoneSidecar, At, Cur
  <2> QED
    BY <2>2, <2>3, <2>4 DEF NameInv
<1>11. ASSUME NEW x \in Procs \ {p}, At(x, "remove"), Cur(x) = n
       PROVE  excuse'[n] \cap {"stale", "undeleted"} # {}
  BY <1>3, <1>6, <1>11 DEF Doomed
<1> QED
  BY <1>2, <1>6, <1>8, <1>9, <1>10, <1>11, NameStep

LEMMA DeleteKeeps ==
    ASSUME FilesInv, NEW p \in Procs, Delete(p)
    PROVE  FilesInv'
<1> USE Typed DEF FilesInv
<1>1. /\ Working(p) /\ At(p, "delete") /\ ~At(p, "removeSide")
      /\ UNCHANGED <<file, side>> /\ Def(p).del
  BY DEF Delete, At, Working, WorkInv
<1>2. PICK n \in Names : n = Cur(p)
  BY <1>1, AtWork
<1>3. PICK es \in SUBSET Excuses : excuse' = [excuse EXCEPT ![n] = @ \cup es]
  BY <1>2 DEF Delete, Mark, Stale, Excuses
<1>4. PICK stage \in {"remove", "reload"}, st \in Statuses :
        /\ cloud' = [cloud EXCEPT ![n] = st] /\ Go(p, stage)
        /\ st \in {"NOT_FOUND", "DELETING"} \/ st = cloud[n]
        /\ stage = "remove" => st \in {"NOT_FOUND", "DELETING"}
  <2>1. cloud[n] \in Statuses /\ "DELETING" \in Statuses
    BY DEF Statuses
  <2>2. cloud' = cloud => cloud' = [cloud EXCEPT ![n] = cloud[n]]
    OBVIOUS
  <2> QED
    BY <1>2, <2>1, <2>2 DEF Delete
<1>5. events' \in 0..MaxEvents
  BY EventTyped DEF Delete
<1>6. /\ cloud' \in [Names -> Statuses] /\ cloud'[n] = st
      /\ excuse' \in [Names -> SUBSET Excuses]
      /\ excuse'[n] = excuse[n] \cup es /\ Elsewhere(n)
  BY <1>1, <1>3, <1>4 DEF Elsewhere
<1>7. Up(n)' => Up(n)
  BY <1>4, <1>6 DEF Up
<1>8. stage \in Stages
  BY DEF Stages
<1>9. WorkInv(p)'
  <2>1. \A m \in Names : excuse[m] \subseteq excuse'[m]
    BY <1>6 DEF Elsewhere
  <2>2. \A m \in Names : stage = "remove" /\ Cur(p) = m => ~Up(m)'
    BY <1>2, <1>4, <1>6 DEF Up
  <2> QED
    BY <1>1, <1>4, <1>8, <2>1, <2>2, GoWorks
<1>10. proc' \in [Procs -> Works] /\ \A x \in Procs \ {p} : proc'[x] = proc[x]
  BY <1>4, <1>8, GoTyped
<1>11. TypeOK'
  BY <1>1, <1>5, <1>6, <1>10, MadeTyped
<1>12. NameInv(n)'
  <2>1. \A x \in Procs : At(x, "removeSide") /\ Cur(x) = n => proc'[x] = proc[x]
    BY <1>1, <1>10
  <2>2. NameInv(n)
    BY DEF NameInv
  <2> QED
    BY <1>1, <1>6, <1>7, <2>1, <2>2, NameFrame
<1> QED
  BY <1>2, <1>6, <1>7, <1>9, <1>10, <1>11, <1>12, NameStep

LEMMA CloudKeeps ==
    ASSUME FilesInv, NEW n \in Names, Settle(n) \/ Break(n)
    PROVE  FilesInv'
<1> USE Typed DEF FilesInv
<1>1. UNCHANGED <<file, side, proc>>
  BY DEF Settle, Break
<1>2. PICK st \in Statuses : cloud' = [cloud EXCEPT ![n] = st]
  BY DEF Settle, Break, Statuses
<1>3. PICK es \in SUBSET Excuses : excuse' = [excuse EXCEPT ![n] = @ \cup es]
  <2>1. CASE Settle(n)
    <3>1. excuse' = [excuse EXCEPT ![n] = @ \cup {}]
      BY <2>1 DEF Settle
    <3> QED
      BY <3>1
  <2>2. CASE Break(n)
    BY <2>2 DEF Break, Mark, Excuses
  <2> QED
    BY <2>1, <2>2
<1>4. events' \in 0..MaxEvents
  BY EventTyped DEF Settle, Break
<1>5. /\ cloud' \in [Names -> Statuses] /\ cloud'[n] = st
      /\ excuse' \in [Names -> SUBSET Excuses]
      /\ excuse'[n] = excuse[n] \cup es /\ Elsewhere(n)
  BY <1>1, <1>2, <1>3 DEF Elsewhere
<1>6. Up(n)' => Up(n) \/ "undeleted" \in excuse'[n]
  <2>1. CASE Settle(n)
    BY <2>1 DEF Settle, Up
  <2>2. CASE Break(n)
    BY <2>2, <1>5 DEF Break, Mark, Up
  <2> QED
    BY <2>1, <2>2
<1>7. TypeOK'
  BY <1>1, <1>4, <1>5, MadeTyped
<1>8. NameInv(n)'
  <2>1. NoLeak(n)'
    BY <1>1, <1>5, <1>6 DEF NoLeak
  <2>2. OwnOutputs(n)' /\ LoneSidecar(n)'
    BY <1>1, <1>5 DEF OwnOutputs, Own, LoneSidecar, At, Cur
  <2> QED
    BY <2>1, <2>2 DEF NameInv
<1> QED
  BY <1>1, <1>5, <1>6, <1>7, <1>8, NobodyStep

(* A command that is killed.                                               *)
LEMMA TornTyped ==
    ASSUME NEW f \in Defs
    PROVE  /\ [f EXCEPT !.kind = "torn"] \in Defs
           /\ [f EXCEPT !.kind = "torn"].ex = f.ex
BY DEF Defs, Kinds

LEMMA KillKeeps ==
    ASSUME FilesInv, NEW p \in Procs, Kill(p)
    PROVE  FilesInv'
<1> USE Typed DEF FilesInv
<1>1. /\ proc' \in [Procs -> Works] /\ \A x \in Procs \ {p} : proc'[x] = proc[x]
      /\ WorkInv(p)'
  BY StopTyped DEF Kill
<1>2. events' \in 0..MaxEvents /\ cloud' = cloud /\ ~At(p, "idle")
  BY EventTyped DEF Kill
<1>3. CASE At(p, "reload")
  <2>1. UNCHANGED <<file, side, excuse>>
    BY <1>3 DEF Kill, At
  <2>2. ~At(p, "removeSide")
    BY <1>3 DEF At
  <2> QED
    BY <1>1, <1>2, <2>1, <2>2, QuietStep
<1>4. CASE ~At(p, "reload")
  <2>1. Working(p)
    BY <1>2, <1>4 DEF Working
  <2>2. PICK n \in Names : n = Cur(p)
    BY <2>1, AtWork
  <2>3. PICK f \in Defs : f.ex /\ f = [Content(p) EXCEPT !.kind = "torn"]
    BY <2>1, AtWork, ContentTyped, TornTyped
  <2>4. side' \in [Names -> Outs] /\ \A m \in Names \ {n} : side'[m] = side[m]
    BY <2>2, Outputs DEF Kill
  <2>5. side'[n] = side[n] \/ side'[n] = 0
    BY <2>2 DEF Kill
  <2>6. /\ file' \in [Names -> Defs] /\ \A m \in Names \ {n} : file'[m] = file[m]
        /\ file'[n] = file[n] \/ file'[n] = f
    BY <2>2, <2>3 DEF Kill
  <2>7. PICK es \in SUBSET Excuses : excuse' = [excuse EXCEPT ![n] = @ \cup es]
    <3>1. excuse' = excuse => excuse' = [excuse EXCEPT ![n] = @ \cup {}]
      OBVIOUS
    <3>2. {} \in SUBSET Excuses /\ {"left"} \in SUBSET Excuses /\ {"stale"} \in SUBSET Excuses
      BY DEF Excuses
    <3>3. \/ excuse' = excuse \/ excuse' = [excuse EXCEPT ![n] = @ \cup {"left"}]
          \/ excuse' = [excuse EXCEPT ![n] = @ \cup {"stale"}]
      <4> HIDE DEF FilesInv
      <4> QED
        BY <2>2 DEF Kill, Mark
    <3> QED
      BY <3>1, <3>2, <3>3
  <2>8. /\ excuse' \in [Names -> SUBSET Excuses] /\ excuse'[n] = excuse[n] \cup es
        /\ Elsewhere(n)
    BY <1>2, <2>4, <2>6, <2>7 DEF Elsewhere
  <2>9. /\ file' # file => "stale" \in excuse'[n]
        /\ At(p, "removeSide") => "left" \in excuse'[n]
    <3>1. \A e : Mark(n, {e}) => e \in excuse'[n]
      BY DEF Mark
    <3> HIDE DEF FilesInv
    <3>2. file' # file => At(p, "write")
      BY DEF Kill
    <3>3. At(p, "write") => ~At(p, "removeSide") /\ ~At(p, "writeSide")
      BY DEF At
    <3> QED
      BY <2>2, <3>1, <3>2, <3>3 DEF Kill
  <2>10. TypeOK'
    BY <1>1, <1>2, <2>4, <2>6, <2>8, MadeTyped
  <2>11. Up(n)' => Up(n)
    BY <1>2 DEF Up
  <2>12. NameInv(n)'
    <3>1. NoLeak(n)'
      BY <2>3, <2>6, <2>8, <2>11 DEF NoLeak
    <3>2. OwnOutputs(n)'
      BY <2>5, <2>6, <2>8, <2>9 DEF OwnOutputs, Own
    <3>3. LoneSidecar(n)'
      <4>1. SUFFICES ASSUME ~file'[n].ex, side'[n] # 0, excuse'[n] = {}
                     PROVE  \E x \in Procs : At(x, "removeSide")' /\ Cur(x)' = n
        BY DEF LoneSidecar
      <4>2. file'[n] = file[n] /\ side[n] # 0 /\ excuse[n] = {}
        BY <2>3, <2>5, <2>6, <2>8, <4>1
      <4>3. PICK x \in Procs : At(x, "removeSide") /\ Cur(x) = n
        BY <4>1, <4>2 DEF LoneSidecar
      <4>4. x # p
        BY <2>9, <4>1, <4>3
      <4> QED
        BY <1>1, <4>3, <4>4 DEF At, Cur
    <3> QED
      BY <3>1, <3>2, <3>3 DEF NameInv
  <2> QED
    BY <1>1, <2>2, <2>8, <2>10, <2>11, <2>12, NameStep
<1> QED
  BY <1>3, <1>4

-----------------------------------------------------------------------------
(* The theorems.                                                           *)
LEMMA StepKeeps ==
    ASSUME FilesInv, NEW p \in Procs, Start(p) \/ Step(p) \/ Kill(p)
    PROVE  FilesInv'
<1>1. CASE Start(p) \/ Reload(p)
  BY <1>1, TurnKeeps
<1>2. CASE CheckDeps(p) \/ Status(p)
  BY <1>2, LookKeeps
<1>3. CASE Write(p) \/ WriteSide(p)
  BY <1>3, WriteKeeps, WriteSideKeeps
<1>4. CASE Remove(p) \/ RemoveSide(p)
  BY <1>4, RemoveKeeps, RemoveSideKeeps
<1>5. CASE Create(p) \/ Delete(p)
  BY <1>5, CreateKeeps, DeleteKeeps
<1>6. CASE Kill(p)
  BY <1>6, KillKeeps
<1> QED
  BY <1>1, <1>2, <1>3, <1>4, <1>5, <1>6 DEF Step

LEMMA StutterKeeps ==
    ASSUME FilesInv, UNCHANGED vars
    PROVE  FilesInv'
<1>1. TypeOK'
  BY DEF FilesInv, TypeOK, vars
<1>2. ASSUME NEW n \in Names PROVE NameInv(n)'
  BY NameFrame DEF FilesInv, NameInv, vars, Up
<1>3. ASSUME NEW p \in Procs PROVE WorkInv(p)'
  BY WorkFrame DEF FilesInv, vars, Up
<1> QED
  BY <1>1, <1>2, <1>3 DEF FilesInv, NameInv

LEMMA NextKeeps == FilesInv /\ [Next]_vars => FilesInv'
<1> SUFFICES ASSUME FilesInv, [Next]_vars PROVE FilesInv'
  OBVIOUS
<1>1. CASE \E p \in Procs : Start(p) \/ Step(p) \/ Kill(p)
  BY <1>1, StepKeeps
<1>2. CASE \E p \in People, n \in Names : CreateCmd(p, n) \/ AdoptCmd(p, n) \/ DeleteCmd(p, n)
  BY <1>2, CommandKeeps, LocalAssumption
<1>3. CASE \E n \in Names : HandWrite(n) \/ HandRemove(n) \/ Settle(n) \/ Break(n)
  BY <1>3, HandWriteKeeps, HandRemoveKeeps, CloudKeeps
<1>4. CASE UNCHANGED vars
  BY <1>4, StutterKeeps
<1> QED
  BY <1>1, <1>2, <1>3, <1>4 DEF Next

(* At every moment of any number of runs, commands, edits and kills, each  *)
(* definition and its sidecar belong together, and what each command holds *)
(* of them fits what it is about to do: the inductive invariant.           *)
THEOREM FilesInvariant == Spec => []FilesInv
<1>1. Init => FilesInv
  BY InitInv
<1>2. FilesInv /\ [Next]_vars => FilesInv'
  BY NextKeeps
<1> QED
  BY <1>1, <1>2, PTL DEF Spec

(* SaveClusterDefinition and RemoveClusterFile: a cluster that is up has a *)
(* definition and a definition has no outputs but its own, except where    *)
(* the history excuses it.                                                 *)
THEOREM LocalInvariant == Spec => []LocalInv
<1>1. FilesInv => LocalInv
  BY DEF FilesInv, LocalInv
<1> QED
  BY <1>1, FilesInvariant, PTL


(* What a step of a run does to what a definition asks for.                *)
Excused(n) == excuse'[n] \cap {"stale", "undeleted"} # {}

LEMMA WriteAsks ==
    ASSUME FilesInv, NEW p \in Procs, Write(p), proc[p].cmd = "",
           NEW n \in Names, Asked(file'[n]) # Asked(file[n])
    PROVE  Excused(n)
<1> USE Typed DEF FilesInv
<1>1. Working(p)
  BY DEF Write, At, Working
<1>2. Def(p) \in Defs /\ Cur(p) = n
  BY <1>1, AtWork DEF Write
<1>3. Content(p) = [Def(p) EXCEPT !.del = @]
  <2>1. Def(p).del \in BOOLEAN
    BY <1>2 DEF Defs
  <2>2. (Def(p).del \/ proc[p].cmd = "delete") = Def(p).del
    BY <2>1
  <2> QED
    BY <2>2 DEF Content
<1>4. Asked(Content(p)) = Asked(Def(p))
  BY <1>2, <1>3 DEF Asked, Defs
<1>5. file'[n] = Content(p)
  BY <1>2 DEF Write
<1>6. file[n] # Def(p)
  BY <1>4, <1>5
<1>7. excuse' = [excuse EXCEPT ![n] = @ \cup {"stale"}]
  BY <1>2, <1>6 DEF Write, Mark, Stale
<1> QED
  BY <1>7 DEF Excused

LEMMA RemoveAsks ==
    ASSUME FilesInv, NEW p \in Procs, Remove(p),
           NEW n \in Names, Asked(file'[n]) # Asked(file[n])
    PROVE  \/ file[n].del /\ ~file'[n].ex /\ cloud[n] \in {"NOT_FOUND", "DELETING"}
           \/ Excused(n)
<1> USE Typed DEF FilesInv
<1>1. /\ Cur(p) = n /\ file' = [file EXCEPT ![n].ex = FALSE]
      /\ Mark(n, Stale(p)) /\ At(p, "remove")
  BY DEF Remove
<1>2. ~file'[n].ex /\ excuse' = [excuse EXCEPT ![n] = @ \cup Stale(p)]
  <2>1. file[n] \in Defs
    OBVIOUS
  <2> QED
    BY <1>1, <2>1 DEF Mark, Defs
<1>3. CASE file[n] # Def(p)
  BY <1>1, <1>2, <1>3 DEF Stale, Excused
<1>4. CASE file[n] = Def(p)
  <2>1. file[n].del
    BY <1>1, <1>4 DEF WorkInv
  <2>2. Up(n) => excuse[n] \cap {"stale", "undeleted"} # {}
    BY <1>1 DEF WorkInv
  <2>3. excuse[n] \subseteq excuse'[n]
    BY <1>2
  <2>4. Up(n) => Excused(n)
    BY <2>2, <2>3 DEF Excused
  <2>5. ~Up(n) => cloud[n] \in {"NOT_FOUND", "DELETING"}
    BY DEF Up, Statuses
  <2> QED
    BY <1>2, <2>1, <2>4, <2>5
<1> QED
  BY <1>3, <1>4

LEMMA KillAsks ==
    ASSUME FilesInv, NEW p \in Procs, Kill(p), proc[p].cmd = "",
           NEW n \in Names, Asked(file'[n]) # Asked(file[n])
    PROVE  Excused(n)
<1> USE Typed DEF FilesInv
<1>1. Cur(p) = n /\ At(p, "write") /\ file' # file
  BY DEF Kill
<1>2. excuse' = [excuse EXCEPT ![n] = @ \cup {"stale"}]
  BY <1>1 DEF Kill, Mark, At
<1> QED
  BY <1>2 DEF Excused

(* markClusterForDeletion, RemoveClusterFile and what the passes save: a   *)
(* run changes of a definition neither what it asks for nor what it waits  *)
(* for; it removes one whose deletion was asked for and whose cluster is   *)
(* gone or going, except where it rests on an old copy of the definition.  *)
THEOREM PeopleDecide == Spec => UserDecides
<1> DEFINE Decided(n) ==
      Asked(file'[n]) # Asked(file[n]) =>
          \/ proc' = proc
          \/ \E p \in Procs : At(p, "write") /\ Cur(p) = n /\ proc[p].cmd # ""
          \/ file[n].del /\ ~file'[n].ex /\ cloud[n] \in {"NOT_FOUND", "DELETING"}
          \/ excuse'[n] \cap {"stale", "undeleted"} # {}
<1>1. ASSUME FilesInv, Next, NEW n \in Names PROVE Decided(n)
  <2>1. SUFFICES ASSUME Asked(file'[n]) # Asked(file[n]), proc' # proc
                 PROVE  \/ \E p \in Procs : At(p, "write") /\ Cur(p) = n /\ proc[p].cmd # ""
                        \/ file[n].del /\ ~file'[n].ex /\ cloud[n] \in {"NOT_FOUND", "DELETING"}
                        \/ Excused(n)
    BY DEF Excused
  <2>2. PICK p \in Procs : Write(p) \/ Remove(p) \/ Kill(p)
    BY <1>1, <2>1, LocalAssumption
    DEF Next, Step, Start, WriteSide, RemoveSide, Reload, CheckDeps, Status, Create, Delete,
        CreateCmd, AdoptCmd, DeleteCmd, Command, HandWrite, HandRemove, Settle, Break
  <2>3. Write(p) \/ Kill(p) => At(p, "write") /\ Cur(p) = n
    BY <2>1, Typed, <1>1 DEF Write, Kill, FilesInv
  <2> QED
    BY <1>1, <2>1, <2>2, <2>3, WriteAsks, RemoveAsks, KillAsks
<1>2. FilesInv /\ [Next]_vars => [\A n \in Names : Decided(n)]_vars
  BY <1>1
<1> QED
  BY <1>2, FilesInvariant, PTL DEF Spec, UserDecides
=============================================================================
