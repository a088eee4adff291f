-------------------------- MODULE OrgPlacementProofs --------------------------
(***************************************************************************)
(* What OrgPlacement guarantees of rows, locks and namespaces, for every   *)
(* number of clusters, handlers, organizations, moves, writes and faults.  *)
(* PlacementInv is shown inductive, one lemma per group of actions.        *)
(***************************************************************************)
EXTENDS OrgPlacement, TLAPS

LEMMA HomeIsCluster == Home \in Clusters
BY DEF Clusters

LEMMA WorkersHandle == Workers \subseteq Handlers /\ Sweeper \in Handlers
BY DEF Handlers

(* The program counters, written out.                                      *)
LEMMA StepNames ==
    /\ Steps = {"newTarget", "source", "delTarget", "sweepTarget", "writeTarget",
                "newNs", "lock", "delNs", "sweepGet", "write", "scaffold", "copy",
                "finalize", "unlock", "idle", "rename", "renameBack", "mark", "delRow"}
    /\ DOMAIN After = {"newTarget", "source", "delTarget", "sweepTarget", "writeTarget"}
    /\ After["newTarget"] = "newNs" /\ After["source"] = "lock"
    /\ After["delTarget"] = "delNs" /\ After["sweepTarget"] = "sweepGet"
    /\ After["writeTarget"] = "write"
<1>1. /\ DOMAIN After = {"newTarget", "source", "delTarget", "sweepTarget", "writeTarget"}
      /\ After["newTarget"] = "newNs" /\ After["source"] = "lock"
      /\ After["delTarget"] = "delNs" /\ After["sweepTarget"] = "sweepGet"
      /\ After["writeTarget"] = "write"
  BY DEF After
<1>2. {After[s] : s \in DOMAIN After} = {"newNs", "lock", "delNs", "sweepGet", "write"}
  BY <1>1
<1> QED
  BY <1>1, <1>2 DEF Steps, Locked

LEMMA IdleTyped ==
    Idle \in [pc : Steps, id : 0..MaxOrgs, at : Clusters, to : Clusters, v : 0..MaxEdits,
              late : BOOLEAN]
BY HomeIsCluster, StepNames, PlacementAssumption DEF Idle

LEMMA NoRowTyped == \A id \in 0..MaxOrgs : NoRow(id) \in Row
BY HomeIsCluster DEF NoRow, Row

LEMMA InitInv == Init => PlacementInv
<1> SUFFICES ASSUME Init PROVE PlacementInv
  OBVIOUS
<1> USE DEF Init
<1>1. TypeOK
  BY IdleTyped, NoRowTyped, HomeIsCluster, PlacementAssumption DEF TypeOK
<1>2. \A w \in Handlers : ~Owns(w) /\ h[w].id <= org.id
  BY DEF Owns, NoRow, Idle
<1> QED
  BY <1>1, <1>2 DEF PlacementInv, RowsNumbered, LockSeen, DeletersMarked, LockHeld, MovesAlone,
     MovesFromHere, OnlyMarkedTerminate, RowReadyToGo, CopyComplete, LatestServed,
     Moving, NoRow

-----------------------------------------------------------------------------
(* Types *)

LEMMA StepTypes == TypeOK /\ [Next]_vars => TypeOK'
<1> SUFFICES ASSUME TypeOK, [Next]_vars PROVE TypeOK'
  OBVIOUS
<1> USE StepNames, IdleTyped, NoRowTyped, HomeIsCluster, WorkersHandle, PlacementAssumption
<1> USE DEF TypeOK, counters, Record, Hit, Windows, Goto, Return, Update, Begin
<1>1. ASSUME NEW w \in Workers, NEW c \in Clusters, CreateStart(w, c) PROVE TypeOK'
  <2>1. org' \in Row
    <3>1. CASE org.exists
      BY <1>1, <3>1 DEF CreateStart
    <3>2. CASE ~org.exists
      <4>1. org.id + 1 \in 0..MaxOrgs
        BY <1>1, <3>2 DEF CreateStart, Row
      <4>2. org' = [NoRow(org.id + 1) EXCEPT !.exists = TRUE, !.rc = c]
        BY <1>1, <3>2 DEF CreateStart
      <4>3. NoRow(org.id + 1) \in Row
        BY <4>1
      <4> HIDE DEF TypeOK
      <4> QED
        BY <4>2, <4>3 DEF Row
    <3> QED
      BY <3>1, <3>2
  <2>2. org'.id \in 0..MaxOrgs /\ w \in Handlers
    BY <2>1 DEF Row
  <2>3. h' = [h EXCEPT ![w] = [pc |-> "newTarget", id |-> org'.id,
                              at |-> Home, to |-> Home, v |-> 0, late |-> FALSE]]
    BY <1>1 DEF CreateStart
  <2>4. latest' \in 0..MaxEdits /\ excuse' \subseteq Windows
    BY <1>1 DEF CreateStart
  <2> QED
    BY <1>1, <2>1, <2>2, <2>3, <2>4 DEF CreateStart
<1>2. ASSUME NEW w \in Workers, NEW c \in Clusters, NEW rename \in BOOLEAN,
             PatchStart(w, c, rename)
      PROVE  TypeOK'
  BY <1>2 DEF PatchStart, Row
<1>3. ASSUME NEW w \in Workers, WriteStart(w) PROVE TypeOK'
  BY <1>3 DEF WriteStart, Row
<1>4. ASSUME NEW w \in Workers, DeleteStart(w) PROVE TypeOK'
  BY <1>4 DEF DeleteStart, Row
<1>5. CASE SweepStart
  BY <1>5 DEF SweepStart, Row
<1>6. ASSUME NEW w \in Handlers, Resolve(w) PROVE TypeOK'
  <2>1. Resolved \in Clusters
    BY DEF Resolved, Row
  <2>2. After[h[w].pc] \in Steps
    BY <1>6 DEF Resolve
  <2>3. [h[w] EXCEPT !.pc = After[h[w].pc], !.at = Resolved] \in [pc : Steps, id : 0..MaxOrgs,
              at : Clusters, to : Clusters, v : 0..MaxEdits, late : BOOLEAN]
    BY <2>1, <2>2
  <2>4. h' \in [Handlers -> [pc : Steps, id : 0..MaxOrgs, at : Clusters, to : Clusters,
                            v : 0..MaxEdits, late : BOOLEAN]]
    BY <1>6, <2>3 DEF Resolve
  <2> QED
    BY <1>6, <2>4 DEF Resolve
<1>7. ASSUME NEW w \in Handlers, NewNamespace(w) PROVE TypeOK'
  BY <1>7 DEF NewNamespace
<1>8. ASSUME NEW w \in Handlers, Rename(w) PROVE TypeOK'
  <2>1. org' \in Row
    <3>1. \A b \in BOOLEAN : [org EXCEPT !.renamed = b] \in Row
      BY DEF Row
    <3> QED
      BY <1>8, <3>1 DEF Rename
  <2> QED
    BY <1>8, <2>1 DEF Rename
<1>9. ASSUME NEW w \in Handlers, Lock(w) PROVE TypeOK'
  <2>1. org' \in Row
    BY <1>9 DEF Lock, Row
  <2>2. \A u \in Handlers :
          /\ [h[u] EXCEPT !.pc = "scaffold", !.late = FALSE]
                \in [pc : Steps, id : 0..MaxOrgs, at : Clusters, to : Clusters,
                     v : 0..MaxEdits, late : BOOLEAN]
          /\ [h[u] EXCEPT !.late = TRUE]
                \in [pc : Steps, id : 0..MaxOrgs, at : Clusters, to : Clusters,
                     v : 0..MaxEdits, late : BOOLEAN]
    OBVIOUS
  <2>3. h' \in [Handlers -> [pc : Steps, id : 0..MaxOrgs, at : Clusters, to : Clusters,
                            v : 0..MaxEdits, late : BOOLEAN]]
    <3> DEFINE new(u) == IF u = w THEN [h[u] EXCEPT !.pc = "scaffold", !.late = FALSE]
                         ELSE IF Owns(w) /\ h[u].pc \in Checked THEN [h[u] EXCEPT !.late = TRUE]
                         ELSE h[u]
    <3>1. h' = [u \in Handlers |-> new(u)]
      BY <1>9 DEF Lock
    <3>2. \A u \in Handlers : new(u) \in [pc : Steps, id : 0..MaxOrgs, at : Clusters,
                                         to : Clusters, v : 0..MaxEdits, late : BOOLEAN]
      BY <2>2
    <3> HIDE DEF new
    <3> QED
      BY <3>1, <3>2
  <2> QED
    BY <1>9, <2>1, <2>3 DEF Lock
<1>10. ASSUME NEW w \in Handlers, Scaffold(w) PROVE TypeOK'
  BY <1>10 DEF Scaffold
<1>11. ASSUME NEW w \in Handlers, Copy(w) PROVE TypeOK'
  BY <1>11 DEF Copy
<1>12. ASSUME NEW w \in Handlers, Finalize(w) PROVE TypeOK'
  <2>1. org' \in Row
    BY <1>12 DEF Finalize, Row
  <2> QED
    BY <1>12, <2>1 DEF Finalize
<1>13. ASSUME NEW w \in Handlers, Unlock(w) PROVE TypeOK'
  <2>1. org' \in Row
    BY <1>13 DEF Unlock, Row
  <2> QED
    BY <1>13, <2>1 DEF Unlock
<1>14. ASSUME NEW w \in Handlers, MoveFails(w) PROVE TypeOK'
  BY <1>14 DEF MoveFails
<1>15. ASSUME NEW w \in Handlers, Write(w) PROVE TypeOK'
  <2>1. h[w].v \in 0..MaxEdits /\ h[w].at \in Clusters
    OBVIOUS
  <2>2. obj' \in [Clusters -> 0..MaxEdits] /\ latest' \in 0..MaxEdits
    <3>1. obj' = obj \/ obj' = [obj EXCEPT ![h[w].at] = h[w].v]
      BY <1>15 DEF Write
    <3>2. latest' = latest \/ latest' = h[w].v
      BY <1>15 DEF Write
    <3> QED
      BY <2>1, <3>1, <3>2
  <2>3. /\ excuse' \subseteq Windows /\ h' = [h EXCEPT ![w] = Idle]
        /\ UNCHANGED <<org, ns, counters>>
    BY <1>15 DEF Write
  <2> QED
    BY <2>2, <2>3
<1>16. ASSUME NEW w \in Handlers, Mark(w) PROVE TypeOK'
  <2>1. org' \in Row
    BY <1>16 DEF Mark, Row
  <2> QED
    BY <1>16, <2>1 DEF Mark
<1>17. ASSUME NEW w \in Handlers, DeleteNamespace(w) PROVE TypeOK'
  <2>1. [h[w] EXCEPT !.pc = "sweepTarget", !.at = Home]
            \in [pc : Steps, id : 0..MaxOrgs, at : Clusters, to : Clusters, v : 0..MaxEdits,
                 late : BOOLEAN]
    OBVIOUS
  <2>2. h' \in [Handlers -> [pc : Steps, id : 0..MaxOrgs, at : Clusters, to : Clusters,
                            v : 0..MaxEdits, late : BOOLEAN]]
    BY <1>17, <2>1 DEF DeleteNamespace, Leave
  <2>3. ns' \in [Clusters -> {"absent", "active", "terminating"}]
    BY <1>17 DEF DeleteNamespace
  <2> QED
    BY <1>17, <2>2, <2>3 DEF DeleteNamespace
<1>18. ASSUME NEW w \in Handlers, SweepGet(w) PROVE TypeOK'
  <2>1. [h[w] EXCEPT !.pc = "delRow", !.at = Home]
            \in [pc : Steps, id : 0..MaxOrgs, at : Clusters, to : Clusters, v : 0..MaxEdits,
                 late : BOOLEAN]
    OBVIOUS
  <2>2. h' \in [Handlers -> [pc : Steps, id : 0..MaxOrgs, at : Clusters, to : Clusters,
                            v : 0..MaxEdits, late : BOOLEAN]]
    BY <1>18, <2>1 DEF SweepGet, Leave
  <2> QED
    BY <1>18, <2>2 DEF SweepGet
<1>19. ASSUME NEW w \in Handlers, DeleteRow(w) PROVE TypeOK'
  <2>1. org' \in Row
    BY <1>19 DEF DeleteRow, Row
  <2> QED
    BY <1>19, <2>1 DEF DeleteRow
<1>20. ASSUME NEW w \in Handlers, Stop(w) PROVE TypeOK'
  BY <1>20 DEF Stop
<1>21. ASSUME NEW c \in Clusters, NamespaceGone(c) PROVE TypeOK'
  BY <1>21 DEF NamespaceGone
<1>22. CASE UNCHANGED vars
  BY <1>22 DEF vars
<1> QED
  BY <1>1, <1>2, <1>3, <1>4, <1>5, <1>6, <1>7, <1>8, <1>9, <1>10, <1>11, <1>12, <1>13,
     <1>14, <1>15, <1>16, <1>17, <1>18, <1>19, <1>20, <1>21, <1>22
  DEF Next, Request, Continue

-----------------------------------------------------------------------------
(* Steps of a handler that change neither store *)

Deleting == {"delTarget", "delNs", "sweepTarget", "sweepGet", "delRow"}

(* What is excused stays excused.                                          *)
LEMMA ClearBefore ==
    ASSUME excuse \subseteq excuse', NEW windows
    PROVE  Clear(windows)' => Clear(windows)
BY DEF Clear

(* The row but for the organization's name.                                *)
Place == <<org.exists, org.id, org.rc, org.migrating, org.pending>>

(* Namespaces begin or end at a step only as the invariants allow.         *)
NamespacesKept ==
    Clear({"misplaced", "moved", "revived"})' =>
        /\ \A c \in Clusters : ns'[c] = "terminating" =>
              ns[c] = "terminating" \/ (org.exists /\ org.pending /\ c = org.rc)
        /\ org.exists /\ org.pending /\ ns[org.rc] = "absent" => ns'[org.rc] = "absent"

(* Handler w goes to locals x: it takes no lock, and gives one up only by  *)
(* clearing it or on record.                                               *)
LEMMA Quiet ==
    ASSUME PlacementInv, TypeOK', UNCHANGED <<Place, obj, latest>>, NamespacesKept,
           excuse \subseteq excuse', NEW w \in Handlers, NEW x, h' = [h EXCEPT ![w] = x],
           x.id <= org.id,
           x.pc \in Locked => h[w].pc \in Locked /\ x.id = h[w].id /\ x.at = h[w].at,
           x.pc # "finalize",
           Moving(w) => x.pc \in Locked \/ "lockLost" \in excuse',
           x.pc \in Deleting /\ org.exists /\ x.id = org.id => org.pending,
           x.pc \in Checked /\ org.exists /\ x.id = org.id /\ org.migrating => x.late,
           x.pc = "delRow" /\ org.exists /\ x.id = org.id
              /\ Clear({"misplaced", "moved", "revived"})'
              => ns'[org.rc] = "absent"
    PROVE  PlacementInv'
<1> USE DEF PlacementInv, TypeOK, Place
<1>1. h'[w] = x /\ \A u \in Handlers : u # w => h'[u] = h[u]
  OBVIOUS
<1>2. \A u \in Handlers : Moving(u)' => Moving(u) /\ h'[u].at = h[u].at
  BY <1>1 DEF Moving, Owns
<1>3. \A u \in Handlers : u # w => (Moving(u)' <=> Moving(u)) /\ (Owns(u)' <=> Owns(u))
  BY <1>1 DEF Moving, Owns
<1>4. (RowsNumbered /\ DeletersMarked /\ LockSeen)'
  <2>1. LockSeen'
    BY <1>1 DEF LockSeen, Owns
  <2> QED
    BY <1>1, <2>1 DEF RowsNumbered, DeletersMarked, Owns, Deleting
<1>5. LockHeld'
  <2> SUFFICES ASSUME org.migrating, Clear({"lockLost"})'
               PROVE  \E u \in Handlers : Moving(u)'
    BY DEF LockHeld
  <2>1. PICK u \in Handlers : Moving(u)
    BY ClearBefore DEF LockHeld
  <2>2. CASE u = w
    BY <2>1, <2>2, <1>1 DEF Moving, Owns, Clear
  <2> QED
    BY <2>1, <2>2, <1>3
<1>6. (MovesAlone /\ MovesFromHere)'
  BY <1>2, ClearBefore DEF MovesAlone, MovesFromHere
<1>7. OnlyMarkedTerminate'
  BY ClearBefore DEF OnlyMarkedTerminate, NamespacesKept
<1>8. RowReadyToGo'
  <2>1. ASSUME NEW u \in Handlers, u # w, h[u].pc = "delRow", Owns(u),
               Clear({"misplaced", "moved", "revived"})'
        PROVE  ns'[org.rc] = "absent"
    BY <2>1, ClearBefore DEF RowReadyToGo, DeletersMarked, NamespacesKept, Owns
  <2> QED
    BY <2>1, <1>1, <1>3 DEF RowReadyToGo, Owns
<1>9. (CopyComplete /\ LatestServed)'
  <2>1. LatestServed'
    BY ClearBefore DEF LatestServed
  <2>2. CopyComplete'
    BY <1>1, <1>3, ClearBefore DEF CopyComplete
  <2> QED
    BY <2>1, <2>2
<1> QED
  BY <1>4, <1>5, <1>6, <1>7, <1>8, <1>9

LEMMA NamespacesUnchanged == UNCHANGED ns => NamespacesKept
BY DEF NamespacesKept

(* A request begins.                                                       *)
LEMMA QuietBegin ==
    ASSUME PlacementInv, TypeOK', NEW w \in Handlers, NEW pc, NEW at, NEW to, NEW v, NEW late,
           Begin(w, pc, at, to, v, late), UNCHANGED <<org, ns, obj, latest, excuse>>,
           pc \notin Locked, pc # "finalize", pc # "delRow",
           pc \in Deleting => org.pending,
           pc \in Checked /\ org.migrating => late
    PROVE  PlacementInv'
<1> DEFINE x == [pc |-> pc, id |-> org'.id, at |-> at, to |-> to, v |-> v,
                late |-> late]
<1>1. h' = [h EXCEPT ![w] = x] /\ ~Moving(w)
  BY DEF Begin, Moving, Idle, Locked
<1>2. x.pc = pc /\ x.id = org.id /\ x.id <= org.id /\ x.late = late
  BY DEF PlacementInv, TypeOK, Row
<1>3. UNCHANGED Place /\ NamespacesKept
  BY NamespacesUnchanged DEF Place
<1> HIDE DEF x
<1> QED
  BY <1>1, <1>2, <1>3, Quiet

LEMMA QuietSteps ==
    ASSUME PlacementInv, TypeOK',
           \/ \E w \in Workers, c \in Clusters, rename \in BOOLEAN : PatchStart(w, c, rename)
           \/ \E w \in Workers : WriteStart(w) \/ DeleteStart(w)
           \/ SweepStart
           \/ \E w \in Handlers : \/ Resolve(w) \/ Rename(w) \/ SweepGet(w)
                                  \/ MoveFails(w) \/ Stop(w)
    PROVE  PlacementInv'
<1> Workers \subseteq Handlers /\ Sweeper \in Handlers
  BY WorkersHandle
<1> TypeOK /\ RowsNumbered /\ DeletersMarked /\ LockSeen
  BY DEF PlacementInv
<1> (UNCHANGED org => UNCHANGED Place) /\ (UNCHANGED ns => NamespacesKept)
  BY NamespacesUnchanged DEF Place
<1> org.id \in Nat /\ \A w \in Handlers : h[w].id \in Nat
  BY DEF TypeOK, Row
<1>a. Idle.pc = "idle" /\ Idle.id = 0 /\ 0 <= org.id
  BY DEF Idle
<1>1. ASSUME NEW w \in Workers, NEW c \in Clusters, NEW rename \in BOOLEAN,
             PatchStart(w, c, rename)
      PROVE  PlacementInv'
  <2> DEFINE pc == IF ~rename THEN "source" ELSE IF org.renamed THEN "renameBack" ELSE "rename"
  <2>1. pc \notin Locked /\ pc \notin Deleting /\ pc # "finalize" /\ pc # "delRow"
    BY DEF Locked, Deleting
  <2>2. /\ Begin(w, pc, org.rc, c, 0, FALSE) /\ UNCHANGED <<org, ns, obj, latest, excuse>>
        /\ ~org.migrating
    BY <1>1 DEF PatchStart
  <2> HIDE DEF pc
  <2> QED
    BY <2>1, <2>2, QuietBegin
<1>2. ASSUME NEW w \in Workers, WriteStart(w) PROVE PlacementInv'
  BY <1>2, QuietBegin DEF WriteStart, Locked, Deleting, Checked
<1>3. ASSUME NEW w \in Workers, DeleteStart(w) PROVE PlacementInv'
  <2>1. CASE org.pending
    BY <1>3, <2>1, QuietBegin DEF DeleteStart, Locked, Deleting, Checked
  <2>2. CASE ~org.pending
    BY <1>3, <2>2, QuietBegin DEF DeleteStart, Locked, Deleting, Checked
  <2> QED
    BY <2>1, <2>2
<1>4. CASE SweepStart
  BY <1>4, QuietBegin DEF SweepStart, Locked, Deleting, Checked
<1>5. ASSUME NEW w \in Handlers, Resolve(w) PROVE PlacementInv'
  <2> DEFINE x == [h[w] EXCEPT !.pc = After[h[w].pc], !.at = Resolved]
  <2>1. h' = [h EXCEPT ![w] = x] /\ UNCHANGED <<org, ns, obj, latest, excuse>>
    BY <1>5 DEF Resolve
  <2>2. h[w].pc \in DOMAIN After /\ x.pc = After[h[w].pc] /\ x.id = h[w].id
        /\ x.late = h[w].late
    BY <1>5 DEF Resolve, TypeOK
  <2>3. /\ h[w].pc \notin Locked /\ x.pc \notin Locked /\ x.pc # "delRow"
        /\ x.pc \in Deleting => h[w].pc \in Deleting
        /\ x.pc \in Checked => h[w].pc \in Checked
    BY <2>2, StepNames DEF Locked, Deleting, Checked
  <2>4. x.id <= org.id /\ ~Moving(w)
    BY <2>2, <2>3 DEF RowsNumbered, Moving
  <2>5. x.pc \in Deleting /\ org.exists /\ x.id = org.id => org.pending
    BY <2>2, <2>3 DEF DeletersMarked, Deleting, Owns
  <2>6. x.pc # "finalize"
    BY <2>3 DEF Locked
  <2>7. x.pc \in Checked /\ org.exists /\ x.id = org.id /\ org.migrating => x.late
    BY <2>2, <2>3 DEF LockSeen, Owns
  <2> HIDE DEF x
  <2> QED
    BY <2>1, <2>3, <2>4, <2>5, <2>6, <2>7, Quiet
<1>6. ASSUME NEW w \in Handlers, SweepGet(w) PROVE PlacementInv'
  <2> USE DEF SweepGet
  <2>1. /\ h[w].pc = "sweepGet" /\ ~Moving(w) /\ h[w].id <= org.id
        /\ UNCHANGED <<org, ns, obj, latest>>
    BY <1>6 DEF Moving, Locked, RowsNumbered
  <2>2. CASE ns[h[w].at] # "absent"
    <3>1. h' = [h EXCEPT ![w] = Idle] /\ excuse \subseteq excuse'
      BY <1>6, <2>2 DEF Return, Record
    <3> QED
      BY <2>1, <3>1, <1>a, Quiet DEF Locked, Deleting, Checked
  <2>3. CASE ns[h[w].at] = "absent"
    <3> DEFINE x == [h[w] EXCEPT !.pc = "delRow", !.at = Home]
    <3>1. h' = [h EXCEPT ![w] = x] /\ excuse \subseteq excuse'
      BY <1>6, <2>3 DEF Leave, Record, TypeOK
    <3>2. x.pc = "delRow" /\ x.id = h[w].id
      BY DEF TypeOK
    <3>3. org.exists /\ x.id = org.id => org.pending
      BY <2>1, <3>2 DEF DeletersMarked, Owns
    <3>4. Clear({"misplaced", "moved", "revived"})' => org.rc = h[w].at
      BY <1>6, <2>3 DEF Record, Hit, Misplaced, Clear
    <3> HIDE DEF x
    <3> QED
      BY <2>1, <2>3, <3>1, <3>2, <3>3, <3>4, Quiet DEF Locked, Checked
  <2> QED
    BY <2>2, <2>3
<1>7. ASSUME NEW w \in Handlers, MoveFails(w) PROVE PlacementInv'
  <2> DEFINE x == [h[w] EXCEPT !.pc = "unlock"]
  <2>1. /\ h' = [h EXCEPT ![w] = x] /\ UNCHANGED <<org, ns, obj, latest, excuse>>
        /\ h[w].pc \in Locked
    BY <1>7 DEF MoveFails, Goto, Locked
  <2>2. x.pc = "unlock" /\ x.id = h[w].id /\ x.at = h[w].at /\ x.id <= org.id
    BY DEF TypeOK, RowsNumbered
  <2> HIDE DEF x
  <2> QED
    BY <2>1, <2>2, Quiet DEF Locked, Deleting, Checked
<1>8. ASSUME NEW w \in Handlers, Stop(w) PROVE PlacementInv'
  <2>1. /\ h' = [h EXCEPT ![w] = Idle] /\ UNCHANGED <<org, ns, obj, latest>>
        /\ excuse \subseteq excuse'
    BY <1>8 DEF Stop, Return, Record
  <2>2. Moving(w) => "lockLost" \in excuse'
    BY <1>8 DEF Stop, Record, Hit, Moving
  <2> QED
    BY <2>1, <2>2, <1>a, Quiet DEF Locked, Deleting, Checked
<1>9. ASSUME NEW w \in Handlers, Rename(w) PROVE PlacementInv'
  <2>1. UNCHANGED <<Place, ns, obj, latest, excuse>>
    BY <1>9 DEF Rename, Update, Place, TypeOK, Row
  <2>2. ~Moving(w)
    BY <1>9 DEF Rename, Moving, Locked
  <2>3. CASE h[w].to = h[w].at
    <3>1. h' = [h EXCEPT ![w] = Idle]
      BY <1>9, <2>3 DEF Rename, Return
    <3> QED
      BY <2>1, <2>2, <3>1, <1>a, Quiet DEF Locked, Deleting, Checked
  <2>4. CASE h[w].to # h[w].at
    <3> DEFINE x == [h[w] EXCEPT !.pc = "source"]
    <3>1. h' = [h EXCEPT ![w] = x]
      BY <1>9, <2>4 DEF Rename, Goto
    <3>2. x.pc = "source" /\ x.id = h[w].id /\ x.id <= org.id /\ x.late = h[w].late
      BY DEF TypeOK, RowsNumbered
    <3>3. org.exists /\ x.id = org.id /\ org.migrating => x.late
      BY <1>9, <3>2 DEF Rename, LockSeen, Owns, Checked
    <3> HIDE DEF x
    <3> QED
      BY <2>1, <2>2, <3>1, <3>2, <3>3, Quiet DEF Locked, Deleting, Checked
  <2> QED
    BY <2>3, <2>4
<1> QED
  BY <1>1, <1>2, <1>3, <1>4, <1>5, <1>6, <1>7, <1>8, <1>9

-----------------------------------------------------------------------------
(* Steps that change the row or a namespace *)

LEMMA CreateInv ==
    ASSUME PlacementInv, TypeOK', NEW w \in Workers, NEW c \in Clusters, CreateStart(w, c)
    PROVE  PlacementInv'
<1> w \in Handlers
  BY WorkersHandle
<1> USE DEF CreateStart
<1>1. CASE org.exists
  BY <1>1, QuietBegin DEF Locked, Deleting, Checked
<1>2. CASE ~org.exists
  <2>1. /\ org'.exists /\ org'.id = org.id + 1 /\ org'.rc = c /\ ~org'.migrating
        /\ ~org'.pending /\ latest' = 0 /\ UNCHANGED <<ns, obj>>
        /\ excuse \subseteq excuse' /\ (obj[c] # 0 => "leftover" \in excuse')
    BY <1>2 DEF NoRow, Record, Hit
  <2>2. /\ h'[w].pc = "newTarget" /\ h'[w].id = org'.id
        /\ \A u \in Handlers : u # w => h'[u] = h[u]
    BY <1>2 DEF Begin, PlacementInv, TypeOK
  <2>3. org.id \in Nat /\ \A u \in Handlers : h[u].id \in Nat /\ h[u].id <= org.id
    BY DEF PlacementInv, TypeOK, Row, RowsNumbered
  <2>4. \A u \in Handlers : Owns(u)' => u = w
    BY <2>1, <2>2, <2>3 DEF Owns
  <2>5. \A u \in Handlers : ~Moving(u)'
    BY <2>2, <2>4 DEF Moving, Locked
  <2>6. RowsNumbered'
    BY <2>1, <2>2, <2>3 DEF RowsNumbered
  <2>7. DeletersMarked' /\ RowReadyToGo' /\ LockSeen'
    BY <2>1, <2>2, <2>4 DEF DeletersMarked, RowReadyToGo, LockSeen
  <2>8. (LockHeld /\ MovesAlone /\ MovesFromHere /\ CopyComplete)'
    BY <2>1, <2>5 DEF LockHeld, MovesAlone, MovesFromHere, CopyComplete
  <2>9. OnlyMarkedTerminate'
    BY <1>2, <2>1, ClearBefore DEF OnlyMarkedTerminate, PlacementInv
  <2>10. LatestServed'
    BY <2>1 DEF LatestServed, Clear
  <2> QED
    BY <2>6, <2>7, <2>8, <2>9, <2>10 DEF PlacementInv
<1> QED
  BY <1>1, <1>2

(* A namespace begins or ends: nobody takes a lock, no row changes.        *)
LEMMA NamespaceSteps ==
    ASSUME PlacementInv, TypeOK', NEW w \in Handlers,
           NewNamespace(w) \/ Scaffold(w) \/ DeleteNamespace(w)
    PROVE  PlacementInv'
<1> TypeOK /\ RowsNumbered /\ DeletersMarked /\ (UNCHANGED org => UNCHANGED Place)
  BY DEF PlacementInv, Place
<1>1. CASE NewNamespace(w)
  <2>1. /\ h' = [h EXCEPT ![w] = Idle] /\ h[w].pc \notin Locked
        /\ UNCHANGED <<org, obj, latest>> /\ excuse \subseteq excuse'
    BY <1>1 DEF NewNamespace, Return, Record, Locked
  <2>2. NamespacesKept
    BY <1>1 DEF NewNamespace, Record, Hit, Clear, NamespacesKept, Misplaced, TypeOK
  <2>3. Idle.pc = "idle" /\ Idle.id = 0 /\ 0 <= org.id
    BY DEF Idle, TypeOK, Row
  <2> QED
    BY <2>1, <2>2, <2>3, Quiet DEF Locked, Deleting, Checked, Moving
<1>2. CASE Scaffold(w)
  <2>1. PICK pc \in {"unlock", "copy"} : h' = [h EXCEPT ![w].pc = pc]
    BY <1>2 DEF Scaffold, Goto
  <2> DEFINE x == [h[w] EXCEPT !.pc = pc]
  <2>2. /\ h' = [h EXCEPT ![w] = x] /\ h[w].pc \in Locked
        /\ UNCHANGED <<org, obj, latest>> /\ excuse \subseteq excuse'
    BY <1>2, <2>1 DEF Scaffold, Record, Locked
  <2>3. NamespacesKept
    <3>1. CASE ns[h[w].to] = "terminating"
      BY <1>2, <3>1, NamespacesUnchanged DEF Scaffold
    <3>2. CASE ns[h[w].to] # "terminating"
      <4>1. /\ ns' = [ns EXCEPT ![h[w].to] = "active"]
            /\ org.pending /\ ns[h[w].to] = "absent" => "revived" \in excuse'
        BY <1>2, <3>2 DEF Scaffold, Record, Hit
      <4> QED
        BY <4>1 DEF Clear, NamespacesKept, TypeOK
    <3> QED
      BY <3>1, <3>2
  <2>4. /\ x.pc \in {"unlock", "copy"} /\ x.id = h[w].id /\ x.at = h[w].at
        /\ x.id <= org.id
    BY <2>1 DEF TypeOK, RowsNumbered
  <2> HIDE DEF x
  <2> QED
    BY <2>2, <2>3, <2>4, Quiet DEF Locked, Deleting, Checked
<1>3. CASE DeleteNamespace(w)
  <2> DEFINE x == [h[w] EXCEPT !.pc = "sweepTarget", !.at = Home]
  <2>1. /\ h' = [h EXCEPT ![w] = x] /\ h[w].pc = "delNs"
        /\ UNCHANGED <<org, obj, latest>> /\ excuse \subseteq excuse'
    BY <1>3 DEF DeleteNamespace, Leave, Record, TypeOK
  <2>2. Owns(w) => org.pending
    BY <2>1 DEF DeletersMarked
  <2>3. NamespacesKept
    BY <1>3, <2>2
    DEF DeleteNamespace, Record, Hit, Clear, NamespacesKept, Misplaced, Owns, TypeOK
  <2>4. x.pc = "sweepTarget" /\ x.id = h[w].id /\ x.id <= org.id
    BY DEF TypeOK, RowsNumbered
  <2> HIDE DEF x
  <2> QED
    BY <2>1, <2>2, <2>3, <2>4, Quiet DEF Locked, Deleting, Checked, Moving, Owns
<1> QED
  BY <1>1, <1>2, <1>3

(* The row is marked for deletion.                                         *)
LEMMA MarkInv ==
    ASSUME PlacementInv, TypeOK', NEW w \in Handlers, Mark(w)
    PROVE  PlacementInv'
<1> TypeOK
  BY DEF PlacementInv
<1>1. /\ h'[w].pc = "delTarget" /\ h'[w].id = h[w].id /\ h[w].pc = "mark"
      /\ \A u \in Handlers : u # w => h'[u] = h[u]
  BY DEF Mark, Goto, TypeOK
<1>2. /\ org'.exists = org.exists /\ org'.id = org.id /\ org'.rc = org.rc
      /\ org'.migrating = org.migrating
      /\ org.pending \/ Owns(w) => org'.pending
      /\ org'.pending => org.pending \/ Owns(w)
      /\ UNCHANGED <<ns, obj, latest, excuse>>
  BY DEF Mark, Update, TypeOK, Row
<1>3. \A u \in Handlers : /\ (Owns(u)' <=> Owns(u)) /\ (Moving(u)' <=> Moving(u))
                          /\ h'[u].id = h[u].id
                          /\ (Moving(u) => h'[u] = h[u])
  BY <1>1, <1>2 DEF Owns, Moving, Locked
<1>4. Owns(w) => org.exists
  BY DEF Owns
<1>5. (RowsNumbered /\ DeletersMarked /\ LockSeen)'
  <2>1. LockSeen'
    BY <1>1, <1>2, <1>3 DEF PlacementInv, LockSeen, Checked
  <2> QED
    BY <1>1, <1>2, <1>3, <1>4, <2>1 DEF PlacementInv, RowsNumbered, DeletersMarked
<1>6. (LockHeld /\ MovesAlone /\ MovesFromHere)'
  BY <1>2, <1>3 DEF PlacementInv, LockHeld, MovesAlone, MovesFromHere, Clear
<1>7. (OnlyMarkedTerminate /\ RowReadyToGo)'
  BY <1>1, <1>2, <1>3 DEF PlacementInv, OnlyMarkedTerminate, RowReadyToGo, Clear
<1>8. (CopyComplete /\ LatestServed)'
  BY <1>2, <1>3 DEF PlacementInv, CopyComplete, LatestServed, Clear
<1> QED
  BY <1>5, <1>6, <1>7, <1>8 DEF PlacementInv

(* The row goes, and nobody owns it any more.                              *)
LEMMA DeleteRowInv ==
    ASSUME PlacementInv, TypeOK', NEW w \in Handlers, DeleteRow(w)
    PROVE  PlacementInv'
<1> TypeOK
  BY DEF PlacementInv
<1>1. /\ h' = [h EXCEPT ![w] = Idle] /\ h[w].pc = "delRow"
      /\ UNCHANGED <<ns, obj, latest, excuse>>
  BY DEF DeleteRow, Return
<1>2. Idle.pc = "idle" /\ Idle.id = 0 /\ 0 <= org.id
  BY DEF Idle, TypeOK, Row
<1>3. CASE ~Owns(w)
  <2>1. UNCHANGED Place /\ NamespacesKept
    BY <1>1, <1>3, NamespacesUnchanged DEF DeleteRow, Update, Place
  <2> QED
    BY <1>1, <1>2, <1>3, <2>1, Quiet DEF Locked, Deleting, Checked, Moving
<1>4. CASE Owns(w)
  <2>1. /\ ~org'.exists /\ org'.id = org.id /\ ~org'.migrating /\ ~org'.pending
    BY <1>4 DEF DeleteRow, Update, NoRow
  <2>2. \A u \in Handlers : ~Owns(u)' /\ ~Moving(u)' /\ h'[u].id <= org.id
    BY <1>1, <1>2, <2>1 DEF Owns, Moving, PlacementInv, RowsNumbered, TypeOK
  <2>3. OnlyMarkedTerminate'
    BY <1>1, <1>4 DEF PlacementInv, OnlyMarkedTerminate, RowReadyToGo, Clear
  <2> QED
    BY <2>1, <2>2, <2>3
    DEF PlacementInv, RowsNumbered, DeletersMarked, LockSeen, LockHeld, MovesAlone,
        MovesFromHere, RowReadyToGo, CopyComplete, LatestServed
<1> QED
  BY <1>3, <1>4

-----------------------------------------------------------------------------
(* A move *)

LEMMA LockInv ==
    ASSUME PlacementInv, TypeOK', NEW w \in Handlers, Lock(w)
    PROVE  PlacementInv'
<1> TypeOK
  BY DEF PlacementInv
<1>1. /\ h'[w].pc = "scaffold" /\ h'[w].id = h[w].id /\ h'[w].at = h[w].at
      /\ h[w].pc = "lock" /\ h'[w].to = h[w].to
      /\ \A u \in Handlers : u # w =>
            /\ h'[u].pc = h[u].pc /\ h'[u].id = h[u].id /\ h'[u].at = h[u].at
            /\ h'[u].to = h[u].to
            /\ h'[u].late <=> h[u].late \/ (Owns(w) /\ h[u].pc \in Checked)
  BY DEF Lock, TypeOK
<1>2. /\ org'.exists = org.exists /\ org'.id = org.id /\ org'.rc = org.rc
      /\ org'.pending = org.pending
      /\ org'.migrating <=> org.migrating \/ Owns(w)
      /\ UNCHANGED <<ns, obj, latest>>
  BY DEF Lock, Update, TypeOK, Row
<1>3. /\ excuse \subseteq excuse'
      /\ Clear({"misplaced"})' => Owns(w) /\ org.rc = h[w].at
      /\ Clear({"unlocked"})' => ~(org.migrating /\ Owns(w))
  <2>1. org.migrating /\ Owns(w) => h[w].late
    BY <1>1 DEF PlacementInv, LockSeen, Checked
  <2> QED
    BY <2>1 DEF Lock, Record, Hit, Clear, Misplaced
<1>4. \A u \in Handlers : (Owns(u)' <=> Owns(u)) /\ (u # w => (Moving(u)' <=> Moving(u)))
  BY <1>1, <1>2 DEF Owns, Moving
<1>5. Moving(w)' <=> Owns(w)
  BY <1>1, <1>4 DEF Moving, Locked
<1>6. Clear({"misplaced", "unlocked"})' =>
        /\ Owns(w) /\ org.rc = h[w].at /\ \A u \in Handlers : ~Moving(u)
  BY <1>3, ClearBefore DEF Clear, PlacementInv, MovesAlone
<1>7. (RowsNumbered /\ DeletersMarked /\ LockSeen)'
  <2>1. LockSeen'
    BY <1>1, <1>2, <1>4 DEF PlacementInv, LockSeen, Checked
  <2> QED
    BY <1>1, <1>2, <1>4, <2>1 DEF PlacementInv, RowsNumbered, DeletersMarked, Owns
<1>8. LockHeld'
  <2>1. ASSUME org.migrating, Clear({"lockLost"})' PROVE \E u \in Handlers : Moving(u)'
    <3>1. PICK u \in Handlers : Moving(u)
      BY <2>1, <1>3, ClearBefore DEF PlacementInv, LockHeld
    <3>2. u # w
      BY <3>1, <1>1 DEF Moving, Locked
    <3> QED
      BY <3>1, <3>2, <1>4
  <2> QED
    BY <2>1, <1>2, <1>5 DEF LockHeld
<1>9. (MovesAlone /\ MovesFromHere)'
  BY <1>1, <1>2, <1>4, <1>5, <1>6 DEF MovesAlone, MovesFromHere
<1>10. (OnlyMarkedTerminate /\ RowReadyToGo)'
  BY <1>1, <1>2, <1>3, <1>4, ClearBefore DEF PlacementInv, OnlyMarkedTerminate, RowReadyToGo
<1>11. (CopyComplete /\ LatestServed)'
  BY <1>1, <1>2, <1>3, <1>4, ClearBefore DEF PlacementInv, CopyComplete, LatestServed
<1> QED
  BY <1>7, <1>8, <1>9, <1>10, <1>11 DEF PlacementInv

LEMMA CopyInv ==
    ASSUME PlacementInv, TypeOK', NEW w \in Handlers, Copy(w)
    PROVE  PlacementInv'
<1> TypeOK
  BY DEF PlacementInv
<1> DEFINE missing == obj[h[w].at] # 0 /\ obj[h[w].to] = 0
<1>1. CASE missing /\ ns[h[w].to] # "active"
  <2> DEFINE x == [h[w] EXCEPT !.pc = "unlock"]
  <2>1. /\ h' = [h EXCEPT ![w] = x] /\ h[w].pc \in Locked
        /\ UNCHANGED <<org, ns, obj, latest, excuse>>
    BY <1>1 DEF Copy, Goto, Locked
  <2>2. x.pc = "unlock" /\ x.id = h[w].id /\ x.at = h[w].at /\ x.id <= org.id
    BY DEF TypeOK, PlacementInv, RowsNumbered
  <2>3. UNCHANGED Place /\ NamespacesKept
    BY <2>1, NamespacesUnchanged DEF Place
  <2> HIDE DEF x
  <2> QED
    BY <2>1, <2>2, <2>3, Quiet DEF Locked, Deleting, Checked
<1>2. CASE ~(missing /\ ns[h[w].to] # "active")
  <2>1. /\ h'[w].pc = "finalize" /\ h[w].pc = "copy" /\ h'[w].id = h[w].id
        /\ h'[w].at = h[w].at /\ h'[w].to = h[w].to
        /\ \A u \in Handlers : u # w => h'[u] = h[u]
    BY <1>2 DEF Copy, Goto, TypeOK
  <2>2. /\ UNCHANGED <<org, ns, latest>> /\ excuse \subseteq excuse'
        /\ Clear({"misplaced"})' => Owns(w)
        /\ Clear({"leftover"})' => obj'[h[w].to] = obj[h[w].at]
    BY <1>2 DEF Copy, Record, Hit, Clear
  <2>3. /\ \A c \in Clusters : c # h[w].to => obj'[c] = obj[c]
        /\ obj'[h[w].to] # obj[h[w].to] => obj[h[w].at] # 0 /\ obj[h[w].to] = 0
    BY <1>2 DEF Copy, TypeOK
  <2>4. \A u \in Handlers : (Owns(u)' <=> Owns(u)) /\ (Moving(u)' <=> Moving(u))
    BY <2>1, <2>2 DEF Owns, Moving, Locked
  <2>5. obj'[h[w].at] = obj[h[w].at]
    BY <2>3 DEF TypeOK
  <2>6. (RowsNumbered /\ DeletersMarked /\ LockSeen)'
    BY <2>1, <2>2, <2>4 DEF PlacementInv, RowsNumbered, DeletersMarked, LockSeen, Checked
  <2>7. (LockHeld /\ MovesAlone /\ MovesFromHere)'
    BY <2>1, <2>2, <2>4, ClearBefore
    DEF PlacementInv, LockHeld, MovesAlone, MovesFromHere, Moving
  <2>8. (OnlyMarkedTerminate /\ RowReadyToGo)'
    BY <2>1, <2>2, <2>4, ClearBefore DEF PlacementInv, OnlyMarkedTerminate, RowReadyToGo
  <2>9. Clear({"misplaced", "unlocked"})' =>
          Moving(w) /\ h[w].at = org.rc /\ \A u \in Handlers : Moving(u) => u = w
    BY <2>1, <2>2, ClearBefore
    DEF PlacementInv, MovesAlone, MovesFromHere, Moving, Locked, Clear
  <2>10. CopyComplete'
    BY <2>1, <2>2, <2>4, <2>5, <2>9 DEF CopyComplete, Clear
  <2>11. LatestServed'
    BY <2>2, <2>5, <2>9, ClearBefore DEF PlacementInv, LatestServed, Clear
  <2> QED
    BY <2>6, <2>7, <2>8, <2>10, <2>11 DEF PlacementInv
<1> QED
  BY <1>1, <1>2

(* A move ends, with the organization in its new place or in its old one.  *)
LEMMA MoveEnds ==
    ASSUME PlacementInv, TypeOK', NEW w \in Handlers, Finalize(w) \/ Unlock(w)
    PROVE  PlacementInv'
<1> TypeOK
  BY DEF PlacementInv
<1>1. /\ h' = [h EXCEPT ![w] = Idle] /\ h[w].pc \in Locked
      /\ UNCHANGED <<ns, obj, latest>> /\ excuse \subseteq excuse'
  BY DEF Finalize, Unlock, Return, Record, Locked
<1>2. Idle.pc = "idle" /\ Idle.id = 0 /\ 0 <= org.id
  BY DEF Idle, TypeOK, Row
<1>3. CASE ~Owns(w)
  <2>1. UNCHANGED Place /\ NamespacesKept
    BY <1>1, <1>3, NamespacesUnchanged DEF Finalize, Unlock, Update, Place
  <2> QED
    BY <1>1, <1>2, <1>3, <2>1, Quiet DEF Locked, Deleting, Checked, Moving
<1>4. CASE Owns(w)
  <2>1. /\ org'.exists = org.exists /\ org'.id = org.id /\ org'.pending = org.pending
        /\ ~org'.migrating
        /\ Unlock(w) => org'.rc = org.rc
        /\ Finalize(w) => org'.rc = h[w].to
    BY <1>4 DEF Finalize, Unlock, Update, TypeOK, Row
  <2>2. Finalize(w) => (Clear({"moved"})' => ~org.pending)
    BY <1>4 DEF Finalize, Record, Hit, Clear
  <2>3. /\ h'[w] = Idle /\ \A u \in Handlers : u # w => h'[u] = h[u]
        /\ \A u \in Handlers : (Owns(u)' /\ h'[u].pc # "idle") => Owns(u) /\ h'[u] = h[u]
        /\ \A u \in Handlers : Moving(u)' <=> Moving(u) /\ u # w
    BY <1>1, <1>2, <2>1 DEF TypeOK, Owns, Moving, Locked
  <2>4. Moving(w)
    BY <1>1, <1>4 DEF Moving
  <2>5. Clear({"misplaced", "unlocked"})' => \A u \in Handlers : ~Moving(u)'
    BY <1>1, <2>3, <2>4, ClearBefore DEF PlacementInv, MovesAlone
  <2>6. (RowsNumbered /\ DeletersMarked /\ LockSeen)'
    BY <1>1, <1>2, <2>1, <2>3
    DEF PlacementInv, RowsNumbered, DeletersMarked, LockSeen, Owns
  <2>7. (LockHeld /\ MovesAlone /\ MovesFromHere /\ CopyComplete)'
    BY <2>1, <2>5 DEF LockHeld, MovesAlone, MovesFromHere, CopyComplete, Clear
  <2>8. OnlyMarkedTerminate'
    BY <1>1, <2>1, <2>2, ClearBefore DEF PlacementInv, OnlyMarkedTerminate, Clear
  <2>9. RowReadyToGo'
    BY <1>1, <1>2, <2>1, <2>2, <2>3, ClearBefore
    DEF PlacementInv, RowReadyToGo, DeletersMarked, Clear
  <2>10. LatestServed'
    <3>1. CASE Unlock(w)
      BY <1>1, <2>1, <3>1, ClearBefore DEF PlacementInv, LatestServed
    <3>2. CASE Finalize(w)
      <4>1. h[w].pc = "finalize"
        BY <3>2 DEF Finalize
      <4> QED
        BY <1>1, <2>1, <2>4, <3>2, <4>1, ClearBefore
        DEF PlacementInv, LatestServed, CopyComplete, MovesFromHere, Clear
    <3> QED
      BY <3>1, <3>2
  <2> QED
    BY <2>6, <2>7, <2>8, <2>9, <2>10 DEF PlacementInv
<1> QED
  BY <1>3, <1>4

-----------------------------------------------------------------------------
(* The object and its namespace *)

LEMMA WriteInv ==
    ASSUME PlacementInv, TypeOK', NEW w \in Handlers, Write(w)
    PROVE  PlacementInv'
<1> TypeOK
  BY DEF PlacementInv
<1>1. /\ h' = [h EXCEPT ![w] = Idle] /\ h[w].pc = "write"
      /\ UNCHANGED <<org, ns>> /\ excuse \subseteq excuse'
  BY DEF Write, Return, Record
<1>2. Idle.pc = "idle" /\ Idle.id = 0 /\ 0 <= org.id
  BY DEF Idle, TypeOK, Row
<1>3. UNCHANGED Place /\ NamespacesKept
  BY <1>1, NamespacesUnchanged DEF Place
<1>4. CASE ~Accepts(h[w].at)
  <2>1. UNCHANGED <<obj, latest>>
    BY <1>4 DEF Write
  <2> QED
    BY <1>1, <1>2, <1>3, <2>1, Quiet DEF Locked, Deleting, Checked, Moving
<1>5. CASE Accepts(h[w].at)
  <2>1. /\ obj' = [obj EXCEPT ![h[w].at] = h[w].v] /\ latest' = h[w].v
        /\ Clear({"misplaced"})' => org.rc = h[w].at
        /\ Clear({"misplaced", "unlocked"})' => ~org.migrating
    <3>1. org.migrating /\ Owns(w) => h[w].late
      BY <1>1 DEF PlacementInv, LockSeen, Checked
    <3> QED
      BY <1>5, <3>1 DEF Write, Record, Hit, Clear, Misplaced
  <2>2. /\ h'[w] = Idle /\ \A u \in Handlers : u # w => h'[u] = h[u]
        /\ \A u \in Handlers : (Owns(u)' /\ h'[u].pc # "idle") => Owns(u) /\ h'[u] = h[u]
        /\ \A u \in Handlers : Moving(u)' <=> Moving(u)
    BY <1>1, <1>2 DEF TypeOK, Owns, Moving, Locked
  <2>3. (RowsNumbered /\ DeletersMarked /\ LockSeen)'
    BY <1>1, <1>2, <2>2
    DEF PlacementInv, RowsNumbered, DeletersMarked, LockSeen, Owns, Checked
  <2>4. (LockHeld /\ MovesAlone /\ MovesFromHere)'
    BY <1>1, <1>2, <2>2, ClearBefore
    DEF PlacementInv, LockHeld, MovesAlone, MovesFromHere, Moving, Locked
  <2>5. (OnlyMarkedTerminate /\ RowReadyToGo)'
    BY <1>1, <1>2, <2>2, ClearBefore DEF PlacementInv, OnlyMarkedTerminate, RowReadyToGo
  <2>6. CopyComplete'
    BY <1>1, <2>1, <2>2, ClearBefore DEF PlacementInv, CopyComplete, MovesAlone, Clear
  <2>7. LatestServed'
    BY <1>1, <2>1 DEF LatestServed, TypeOK, Clear
  <2> QED
    BY <2>3, <2>4, <2>5, <2>6, <2>7 DEF PlacementInv
<1> QED
  BY <1>4, <1>5

LEMMA NamespaceGoneInv ==
    ASSUME PlacementInv, TypeOK', NEW c \in Clusters, NamespaceGone(c)
    PROVE  PlacementInv'
<1> USE DEF PlacementInv
<1>1. /\ UNCHANGED <<org, h, latest, excuse>> /\ ns[c] = "terminating"
      /\ ns' = [ns EXCEPT ![c] = "absent"] /\ obj' = [obj EXCEPT ![c] = 0]
  BY DEF NamespaceGone
<1>2. \A u \in Handlers : (Owns(u)' <=> Owns(u)) /\ (Moving(u)' <=> Moving(u))
  BY <1>1 DEF Owns, Moving
<1>3. (RowsNumbered /\ DeletersMarked /\ LockSeen /\ LockHeld /\ MovesAlone
         /\ MovesFromHere)'
  BY <1>1, <1>2
  DEF RowsNumbered, DeletersMarked, LockSeen, LockHeld, MovesAlone, MovesFromHere, Clear
<1>4. (OnlyMarkedTerminate /\ RowReadyToGo)'
  BY <1>1, <1>2 DEF OnlyMarkedTerminate, RowReadyToGo, Clear, TypeOK
<1>5. Clear({"misplaced", "moved", "revived"}) => org.pending
  BY <1>1 DEF OnlyMarkedTerminate
<1>6. (CopyComplete /\ LatestServed)'
  BY <1>1, <1>5 DEF CopyComplete, LatestServed, Clear
<1> QED
  BY <1>3, <1>4, <1>6

-----------------------------------------------------------------------------
(* Together *)

LEMMA StepInv == PlacementInv /\ [Next]_vars => PlacementInv'
<1> SUFFICES ASSUME PlacementInv, [Next]_vars PROVE PlacementInv'
  OBVIOUS
<1>1. TypeOK'
  BY StepTypes DEF PlacementInv
<1>2. CASE UNCHANGED vars
  BY <1>2
  DEF vars, counters, PlacementInv, TypeOK, RowsNumbered, DeletersMarked, LockSeen, LockHeld,
      MovesAlone, MovesFromHere, OnlyMarkedTerminate, RowReadyToGo, CopyComplete, LatestServed,
      Moving, Owns, Clear
<1>3. CASE Next
  BY <1>1, <1>3, QuietSteps, CreateInv, NamespaceSteps, MarkInv, DeleteRowInv, LockInv,
     CopyInv, MoveEnds, WriteInv, NamespaceGoneInv
  DEF Next, Request, Continue
<1> QED
  BY <1>2, <1>3

(* The placement invariant holds of every behaviour of the handlers in     *)
(* organizations.go.                                                       *)
THEOREM Placement == Spec => []PlacementInv
BY InitInv, StepInv, PTL DEF Spec

(* A lock that is set is held by a move, unless one ended early.           *)
THEOREM LockIsHeld == Spec => []LockHeld
BY Placement, PTL DEF PlacementInv

(* Moves of an organization run one at a time and under its lock, unless   *)
(* two requests passed the check before either had set the lock.           *)
THEOREM MovesRunAlone == Spec => []MovesAlone
BY Placement, PTL DEF PlacementInv

(* Outside the named windows no acknowledged write is lost to a move.      *)
THEOREM NothingLost == Spec => []LatestServed
BY Placement, PTL DEF PlacementInv

(* Outside the named windows an organization's row outlives its namespace. *)
THEOREM RowGoesLast == Spec => NamespaceBeforeRow
<1>1. ASSUME PlacementInv, [Next]_vars, org.exists, ~org'.exists,
             Clear({"misplaced", "moved", "revived"})
      PROVE  ns[org.rc] = "absent"
  <2>1. TypeOK
    BY <1>1 DEF PlacementInv
  <2>2. PICK w \in Handlers : DeleteRow(w)
    <3>1. ASSUME NEW w \in Workers, Request(w) PROVE FALSE
      BY <1>1, <2>1, <3>1
      DEF Request, CreateStart, PatchStart, WriteStart, DeleteStart, Update, TypeOK, Row
    <3>2. ASSUME NEW w \in Handlers, MoveFails(w) \/ Stop(w) PROVE FALSE
      BY <1>1, <2>1, <3>2 DEF MoveFails, Stop, Update, TypeOK, Row
    <3>3. ASSUME NEW w \in Handlers, Continue(w) PROVE DeleteRow(w)
      BY <1>1, <2>1, <3>3
      DEF Continue, Resolve, NewNamespace, Rename, Lock, Scaffold, Copy, Finalize, Unlock,
          Write, Mark, DeleteNamespace, SweepGet, Update, TypeOK, Row
    <3>4. ~SweepStart /\ ~(\E c \in Clusters : NamespaceGone(c)) /\ ~UNCHANGED vars
      BY <1>1 DEF SweepStart, NamespaceGone, vars
    <3> QED
      BY <1>1, <3>1, <3>2, <3>3, <3>4 DEF Next
  <2> QED
    BY <1>1, <2>2 DEF PlacementInv, RowReadyToGo, DeleteRow, Update
<1> QED
  BY <1>1, Placement, PTL DEF Spec, NamespaceBeforeRow

=============================================================================
