----------------------- MODULE EnrolmentAndPinsProofs -----------------------
(***************************************************************************)
(* Bootstrap tokens are single-use, for every number of pods, tokens,      *)
(* edits and faults: a token yields a second certificate only when a       *)
(* second call had read it before the first deleted it. And a target that  *)
(* is recorded as up to date has a pod that knows who it is, or can find   *)
(* out, unless the identity was lost or the token expired. Then hyve.lock: *)
(* for every number of reconciliations that write it without a lock, a pin *)
(* holds unless a command is for it, a definition refers to the file       *)
(* through its directory, or two saves clash.                              *)
(***************************************************************************)
EXTENDS AgentEnrolment, PinnedRefs, FiniteSetTheorems, TLAPS

LEMMA TokenRange == Tokens \subseteq 0..MaxTokens /\ 0 \in 0..MaxTokens
BY EnrolmentAssumption DEF Tokens

LEMMA OffIsSetting == Off \in Configs \cup {Off}
OBVIOUS

LEMMA Counters ==
    /\ faults \in Nat /\ Fault => faults' \in Nat
    /\ \A h \in AllHazards :
         excuse \subseteq AllHazards /\ Hazard(h) => excuse' \subseteq AllHazards
BY DEF Fault, Hazard

(* What a pod's record may become, one field at a time.                    *)
LEMMA PodTypes ==
    ASSUME TypeOK, NEW p \in Pods, NEW pc \in PodPcs, NEW id \in 0..MaxTokens,
           NEW token \in 0..MaxTokens
    PROVE  LET PodStates == [pc : PodPcs, token : 0..MaxTokens, id : 0..MaxTokens]
           IN  /\ [pods EXCEPT ![p].pc = pc, ![p].id = id] \in [Pods -> PodStates]
               /\ [pods EXCEPT ![p].pc = pc] \in [Pods -> PodStates]
               /\ [pods EXCEPT ![p] = [pc |-> pc, token |-> token, id |-> id]]
                    \in [Pods -> PodStates]
               /\ pods[p] \in PodStates
BY DEF TypeOK

LEMMA CallTypes ==
    ASSUME TypeOK, NEW p \in Pods
    PROVE  Orphaned(p) \subseteq Calls
<1> SUFFICES ASSUME NEW k \in calls
             PROVE  (IF k.pod = p THEN [k EXCEPT !.pod = NoPod] ELSE k) \in Calls
  BY DEF Orphaned
<1> QED
  BY DEF TypeOK, Calls

LEMMA AnswerTypes ==
    ASSUME TypeOK, NEW k \in calls, NEW pc \in PodPcs, NEW id \in 0..MaxTokens,
           Answer(k, pc, id)
    PROVE  pods' \in [Pods -> [pc : PodPcs, token : 0..MaxTokens, id : 0..MaxTokens]]
<1>1. k.pod \in Pods \cup {NoPod}
  BY DEF TypeOK, Calls
<1> QED
  BY <1>1, PodTypes DEF Answer, TypeOK

-----------------------------------------------------------------------------
LEMMA InitInv == Init => EnrolInv
<1> SUFFICES ASSUME Init PROVE EnrolInv
  OBVIOUS
<1> USE DEF Init
<1>1. TypeOK
  <2>1. pods \in [Pods -> [pc : PodPcs, token : 0..MaxTokens, id : 0..MaxTokens]]
    BY TokenRange DEF NoAgent, PodPcs
  <2> QED
    BY <2>1, TokenRange DEF TypeOK, Idle
<1>2. HeldAtMostOnce /\ HeldUnused /\ LiveUnused
  BY DEF HeldAtMostOnce, HeldUnused, LiveUnused
<1>3. IssuedMinted /\ OneCertificate
  BY DEF IssuedMinted, OneCertificate
<1> QED
  BY <1>1, <1>2, <1>3 DEF EnrolInv

(* Types: one step per action.                                             *)
LEMMA StepTypes == TypeOK /\ [Next]_vars => TypeOK'
<1> SUFFICES ASSUME TypeOK, [Next]_vars PROVE TypeOK'
  OBVIOUS
<1> USE TokenRange, Counters
<1> USE DEF controllerVars, serverVars, targetVars
<1>1. CASE Configure
  <2>1. excuse' \subseteq AllHazards
    <3>1. "reverted" \in AllHazards /\ excuse \subseteq AllHazards
      BY DEF AllHazards, TypeOK
    <3>2. Hazard("reverted") \/ excuse' = excuse
      BY <1>1 DEF Configure
    <3> QED
      BY <3>1, <3>2
  <2>2. want' \in Configs \cup {Off} /\ edits' \in Nat
    BY <1>1 DEF Configure, TypeOK
  <2> QED
    BY <1>1, <2>1, <2>2 DEF Configure, TypeOK
<1>2. CASE Mint
  <2>1. minted + 1 \in Tokens /\ minted' \in 0..MaxTokens
    BY <1>2, EnrolmentAssumption DEF Mint, TypeOK, Tokens
  <2>2. config' \in [Tokens -> Configs \cup {Off}]
    BY <1>2, <2>1 DEF Mint, TypeOK
  <2> QED
    BY <1>2, <2>1, <2>2 DEF Mint, TypeOK
<1>3. CASE Clear
  BY <1>3 DEF Clear, TypeOK
<1>4. CASE Apply
  BY <1>4 DEF Apply, TypeOK
<1>5. CASE Remove
  BY <1>5 DEF Remove, TypeOK
<1>6. CASE Save
  BY <1>6 DEF Save, Record, Idle, TypeOK
<1>7. CASE Abandon
  BY <1>7 DEF Abandon, Idle, TypeOK
<1>8. ASSUME NEW p \in Pods, StartPod(p) PROVE TypeOK'
  <2>1. deploy \in 0..MaxTokens /\ "load" \in PodPcs
    BY DEF TypeOK, PodPcs
  <2> QED
    BY <1>8, <2>1, PodTypes DEF StartPod, TypeOK
<1>9. ASSUME NEW p \in Pods, StopPod(p) PROVE TypeOK'
  <2>1. "none" \in PodPcs
    BY DEF PodPcs
  <2> QED
    BY <1>9, <2>1, PodTypes, CallTypes DEF StopPod, NoAgent, TypeOK
<1>10. ASSUME NEW p \in Pods, Restart(p) PROVE TypeOK'
  <2>1. "load" \in PodPcs /\ "identityLost" \in AllHazards
    BY DEF PodPcs, AllHazards
  <2> QED
    BY <1>10, <2>1, PodTypes, CallTypes DEF Restart, TypeOK
<1>11. ASSUME NEW p \in Pods, LoadSaved(p) PROVE TypeOK'
  <2>1. secret \in 0..MaxTokens /\ "run" \in PodPcs
    BY DEF TypeOK, PodPcs
  <2>2. pods' \in [Pods -> [pc : PodPcs, token : 0..MaxTokens, id : 0..MaxTokens]]
    BY <1>11, <2>1, PodTypes DEF LoadSaved
  <2> QED
    BY <1>11, <2>1, <2>2 DEF LoadSaved, TypeOK
<1>12. ASSUME NEW p \in Pods, Bootstrap(p) PROVE TypeOK'
  <2>1. pods[p].token \in 0..MaxTokens /\ "wait" \in PodPcs
    BY PodTypes DEF PodPcs
  <2>2. pods' \in [Pods -> [pc : PodPcs, token : 0..MaxTokens, id : 0..MaxTokens]]
    BY <1>12, <2>1, PodTypes DEF Bootstrap
  <2>3. calls' \subseteq Calls
    BY <1>12, <2>1 DEF Bootstrap, TypeOK, Calls
  <2> QED
    BY <1>12, <2>2, <2>3 DEF Bootstrap, TypeOK
<1>13. ASSUME NEW p \in Pods, Persist(p) PROVE TypeOK'
  <2>1. "run" \in PodPcs /\ "load" \in PodPcs /\ pods[p].id \in 0..MaxTokens
    BY PodTypes DEF PodPcs
  <2>2. pods' \in [Pods -> [pc : PodPcs, token : 0..MaxTokens, id : 0..MaxTokens]]
    <3> DEFINE PodStates == [pc : PodPcs, token : 0..MaxTokens, id : 0..MaxTokens]
    <3>1. [pods EXCEPT ![p].pc = "run"] \in [Pods -> PodStates]
      BY <2>1, PodTypes
    <3>2. [pods EXCEPT ![p].pc = "load", ![p].id = 0] \in [Pods -> PodStates]
      BY <2>1, PodTypes
    <3> QED
      BY <1>13, <3>1, <3>2 DEF Persist
  <2>3. secret' \in 0..MaxTokens
    BY <1>13, <2>1 DEF Persist, TypeOK
  <2> QED
    BY <1>13, <2>2, <2>3 DEF Persist, TypeOK
<1>14. ASSUME NEW p \in Pods, Connect(p) PROVE TypeOK'
  <2>1. "online" \in PodPcs
    BY DEF PodPcs
  <2> QED
    BY <1>14, <2>1, PodTypes DEF Connect, TypeOK
<1>15. ASSUME NEW p \in Pods, Drop(p) PROVE TypeOK'
  <2>1. "run" \in PodPcs
    BY DEF PodPcs
  <2> QED
    BY <1>15, <2>1, PodTypes DEF Drop, TypeOK
<1>16. ASSUME NEW k \in calls, Refuse(k)
       PROVE /\ pods' \in [Pods -> [pc : PodPcs, token : 0..MaxTokens, id : 0..MaxTokens]]
             /\ calls' \subseteq Calls
  <2>1. "load" \in PodPcs
    BY DEF PodPcs
  <2> QED
    BY <1>16, <2>1, AnswerTypes DEF Refuse, TypeOK
<1>17. ASSUME NEW k \in calls, Get(k) PROVE TypeOK'
  <2>1. k \in Calls /\ [k EXCEPT !.stage = "delete"] \in Calls
    BY DEF TypeOK, Calls
  <2> QED
    BY <1>16, <1>17, <2>1 DEF Get, TypeOK, Calls
<1>18. ASSUME NEW k \in calls, Delete(k) PROVE TypeOK'
  <2>1. k.token \in 0..MaxTokens /\ "persist" \in PodPcs
    BY DEF TypeOK, Calls, PodPcs
  <2>2. issued' \in [Tokens -> Nat]
    BY <1>18, <2>1 DEF Delete, TypeOK
  <2>3. /\ pods' \in [Pods -> [pc : PodPcs, token : 0..MaxTokens, id : 0..MaxTokens]]
        /\ calls' \subseteq Calls
    BY <1>16, <1>18, <2>1, AnswerTypes DEF Delete, TypeOK
  <2> QED
    BY <1>18, <2>2, <2>3 DEF Delete, TypeOK
<1>19. ASSUME NEW k \in calls, DeleteFails(k) PROVE TypeOK'
  BY <1>16, <1>19 DEF DeleteFails, TypeOK
<1>20. CASE TokenExpires
  BY <1>20 DEF TokenExpires, TypeOK, AllHazards
<1>21. CASE CertExpires
  BY <1>21 DEF CertExpires, TypeOK, AllHazards
<1>22. CASE UNCHANGED vars
  BY <1>22 DEF vars, TypeOK
<1> QED
  BY <1>1, <1>2, <1>3, <1>4, <1>5, <1>6, <1>7, <1>8, <1>9, <1>10, <1>11, <1>12, <1>13,
     <1>14, <1>15, <1>17, <1>18, <1>19, <1>20, <1>21, <1>22
     DEF Next, Controller, Kubelet, Agent, Serve

-----------------------------------------------------------------------------
(* Steps that sign nothing, start no call's deletion and hold no token     *)
(* longer keep the tokens' invariant.                                      *)
LEMMA IdleKeepsTokens ==
    ASSUME EnrolInv, minted' \in 0..MaxTokens, minted <= minted',
           UNCHANGED <<live, issued, raced>>,
           \A k \in calls' : k.stage = "delete" => k \in calls
    PROVE  (HeldAtMostOnce /\ HeldUnused /\ LiveUnused /\ IssuedMinted /\ OneCertificate)'
<1> USE EnrolmentAssumption DEF EnrolInv
<1>1. HeldAtMostOnce'
  BY DEF HeldAtMostOnce
<1>2. HeldUnused'
  BY DEF HeldUnused, TypeOK, Tokens
<1>3. LiveUnused'
  BY DEF LiveUnused, TypeOK, Tokens
<1>4. IssuedMinted' /\ OneCertificate'
  BY DEF IssuedMinted, OneCertificate, TypeOK, Tokens
<1> QED
  BY <1>1, <1>2, <1>3, <1>4

LEMMA OrphansKeepTokens ==
    ASSUME EnrolInv, NEW p \in Pods, calls' = Orphaned(p),
           UNCHANGED <<minted, live, issued, raced>>
    PROVE  (HeldAtMostOnce /\ HeldUnused /\ LiveUnused /\ IssuedMinted /\ OneCertificate)'
<1> USE DEF EnrolInv
<1> DEFINE Old(k) == IF k.pod = p THEN [k EXCEPT !.pod = NoPod] ELSE k
<1>1. \A k \in calls : Old(k).token = k.token /\ Old(k).stage = k.stage
  BY DEF TypeOK, Calls
<1>2. calls' = {Old(k) : k \in calls}
  BY DEF Orphaned
<1> HIDE DEF Old
<1>3. HeldAtMostOnce'
  BY <1>1, <1>2 DEF HeldAtMostOnce
<1>4. HeldUnused'
  BY <1>1, <1>2 DEF HeldUnused
<1>5. LiveUnused' /\ IssuedMinted' /\ OneCertificate'
  BY DEF LiveUnused, IssuedMinted, OneCertificate
<1> QED
  BY <1>3, <1>4, <1>5

LEMMA MintKeepsTokens ==
    ASSUME EnrolInv, Mint
    PROVE  (HeldAtMostOnce /\ HeldUnused /\ LiveUnused /\ IssuedMinted /\ OneCertificate)'
<1> USE EnrolmentAssumption DEF EnrolInv
<1>1. minted + 1 \in Tokens /\ minted \in Nat
  BY DEF Mint, TypeOK, Tokens
<1>2. issued[minted + 1] = 0
  BY <1>1 DEF IssuedMinted, TypeOK
<1>3. LiveUnused'
  BY <1>1, <1>2 DEF Mint, LiveUnused, TypeOK, Tokens
<1>4. HeldUnused' /\ IssuedMinted'
  BY <1>1 DEF Mint, HeldUnused, IssuedMinted, TypeOK, Tokens
<1>5. HeldAtMostOnce' /\ OneCertificate'
  BY DEF Mint, serverVars, HeldAtMostOnce, OneCertificate
<1> QED
  BY <1>3, <1>4, <1>5

(* The first deletion of a token that is held once signs its only          *)
(* certificate; a token held twice is raced from then on.                  *)
LEMMA GetKeepsTokens ==
    ASSUME EnrolInv, NEW k \in calls, Get(k)
    PROVE  (HeldAtMostOnce /\ HeldUnused /\ LiveUnused /\ IssuedMinted /\ OneCertificate)'
<1> USE DEF EnrolInv
<1> DEFINE held == [k EXCEPT !.stage = "delete"]
<1>1. minted' = minted /\ live' = live /\ issued' = issued
  BY DEF Get, controllerVars
<1>2. CASE k.token \notin live
  <2>1. raced' = raced /\ calls' = calls \ {k}
    BY <1>2 DEF Get, Refuse
  <2> QED
    BY <1>1, <2>1, IdleKeepsTokens DEF TypeOK, Tokens
<1>3. CASE k.token \in live
  <2>1. calls' = (calls \ {k}) \cup {held} /\ held.token = k.token
    BY <1>3 DEF Get, TypeOK, Calls
  <2>2. raced' = IF Held(k.token) THEN raced \cup {k.token} ELSE raced
    BY <1>3 DEF Get
  <2>3. HeldAtMostOnce'
    BY <2>1, <2>2 DEF HeldAtMostOnce, Held
  <2>4. HeldUnused'
    BY <1>1, <1>3, <2>1, <2>2 DEF HeldUnused, LiveUnused, TypeOK
  <2>5. LiveUnused' /\ IssuedMinted' /\ OneCertificate'
    BY <1>1, <2>2 DEF LiveUnused, IssuedMinted, OneCertificate
  <2> QED
    BY <2>3, <2>4, <2>5
<1> QED
  BY <1>2, <1>3

LEMMA DeleteKeepsTokens ==
    ASSUME EnrolInv, NEW k \in calls, Delete(k)
    PROVE  (HeldAtMostOnce /\ HeldUnused /\ LiveUnused /\ IssuedMinted /\ OneCertificate)'
<1> USE DEF EnrolInv
<1>1. minted' = minted /\ raced' = raced /\ live' = live \ {k.token} /\ calls' = calls \ {k}
  BY DEF Delete, Consumed, Refuse, controllerVars
<1>2. /\ k.stage = "delete" /\ k.token \in Tokens /\ k.token <= minted
      /\ k.token \notin raced => issued[k.token] = 0
  BY DEF Delete, HeldUnused
<1>3. \/ issued' = issued
      \/ issued' = [issued EXCEPT ![k.token] = @ + 1]
  BY DEF Delete
<1>4. HeldAtMostOnce'
  BY <1>1 DEF HeldAtMostOnce
<1>5. \A j \in calls' : j.stage = "delete" /\ j.token \notin raced => j.token # k.token
  BY <1>1, <1>2 DEF HeldAtMostOnce
<1>6. \A t \in Tokens \ {k.token} : issued'[t] = issued[t]
  BY <1>3 DEF TypeOK
<1>7. HeldUnused'
  BY <1>1, <1>5, <1>6 DEF HeldUnused
<1>8. LiveUnused'
  BY <1>1, <1>6 DEF LiveUnused, TypeOK
<1>9. IssuedMinted'
  BY <1>1, <1>2, <1>6 DEF IssuedMinted
<1>10. OneCertificate'
  <2>1. k.token \notin raced => issued'[k.token] <= 1
    BY <1>2, <1>3 DEF TypeOK
  <2>2. SUFFICES ASSUME NEW t \in Tokens, issued'[t] > 1, t \notin raced PROVE FALSE
    BY <1>1 DEF OneCertificate
  <2>3. CASE t = k.token
    BY <2>1, <2>2, <2>3, <1>2, <1>3 DEF TypeOK
  <2>4. CASE t # k.token
    BY <1>6, <2>2, <2>4 DEF OneCertificate
  <2> QED
    BY <2>3, <2>4
<1> QED
  BY <1>4, <1>7, <1>8, <1>9, <1>10

LEMMA StepInv == EnrolInv /\ [Next]_vars => EnrolInv'
<1> SUFFICES ASSUME EnrolInv, [Next]_vars PROVE EnrolInv'
  OBVIOUS
<1> DEFINE Kept == (HeldAtMostOnce /\ HeldUnused /\ LiveUnused /\ IssuedMinted
                    /\ OneCertificate)'
<1> USE DEF controllerVars, serverVars, targetVars
<1>0. TypeOK'
  BY StepTypes DEF EnrolInv
<1> SUFFICES Kept
  BY <1>0 DEF EnrolInv
<1>1. minted \in 0..MaxTokens /\ minted <= minted
  BY EnrolmentAssumption DEF EnrolInv, TypeOK
<1>2. CASE Configure \/ Clear \/ Apply \/ Remove \/ Save \/ Abandon
  BY <1>1, <1>2, IdleKeepsTokens DEF Configure, Clear, Apply, Remove, Save, Abandon
<1>3. CASE Mint
  BY <1>3, MintKeepsTokens
<1>4. ASSUME NEW p \in Pods, StartPod(p) \/ LoadSaved(p) \/ Persist(p) \/ Connect(p) \/ Drop(p)
      PROVE Kept
  BY <1>1, <1>4, IdleKeepsTokens DEF StartPod, LoadSaved, Persist, Connect, Drop
<1>5. ASSUME NEW p \in Pods, StopPod(p) \/ Restart(p) PROVE Kept
  BY <1>5, OrphansKeepTokens DEF StopPod, Restart
<1>6. ASSUME NEW p \in Pods, Bootstrap(p) PROVE Kept
  BY <1>1, <1>6, IdleKeepsTokens DEF Bootstrap
<1>7. ASSUME NEW k \in calls, Get(k) PROVE Kept
  BY <1>7, GetKeepsTokens
<1>8. ASSUME NEW k \in calls, Delete(k) PROVE Kept
  BY <1>8, DeleteKeepsTokens
<1>9. ASSUME NEW k \in calls, DeleteFails(k) PROVE Kept
  BY <1>1, <1>9, IdleKeepsTokens DEF DeleteFails, Refuse
<1>10. CASE TokenExpires \/ CertExpires \/ UNCHANGED vars
  BY <1>1, <1>10, IdleKeepsTokens DEF TokenExpires, CertExpires, vars
<1> QED
  BY <1>2, <1>3, <1>4, <1>5, <1>6, <1>7, <1>8, <1>9, <1>10
     DEF Next, Controller, Kubelet, Agent, Serve

(* EnrolInv holds of every behaviour: what reconcileAgent, the agents and  *)
(* handleAgentBootstrap do to tokens, in any interleaving.                 *)
THEOREM EnrolmentInvariant == Spec => []EnrolInv
BY InitInv, StepInv, PTL DEF Spec

(* ValidateAndConsumeBootstrapToken: one certificate for a token, unless   *)
(* two calls had both read it before either deleted it.                    *)
THEOREM TokenYieldsOneCertificate == Spec => []OneCertificate
<1>1. EnrolInv => OneCertificate
  BY DEF EnrolInv
<1> QED
  BY <1>1, EnrolmentInvariant, PTL

-----------------------------------------------------------------------------
(* Where an installed agent's identity is.                                 *)
LEMMA TokensAreNumbers ==
    ASSUME TypeOK
    PROVE  /\ minted \in Nat /\ deploy \in Nat /\ secret \in Nat
           /\ \A p \in Pods : pods[p].token \in Nat /\ pods[p].id \in Nat
           /\ \A k \in calls : k.token \in Nat /\ k.pod \in Pods \cup {NoPod}
BY EnrolmentAssumption DEF TypeOK, Calls

LEMMA IdentityInit == Init => IdentityInv
<1> SUFFICES ASSUME Init PROVE IdentityInv
  OBVIOUS
<1>1. \A p \in Pods : pods[p] = [pc |-> "none", token |-> 0, id |-> 0]
  BY DEF Init, NoAgent
<1>2. pass = [at |-> "idle", config |-> Off] /\ applied = Off /\ touched = FALSE
  BY DEF Init, Idle
<1> QED
  BY <1>1, <1>2 DEF Init, IdentityInv, CallersWait, PodsInOrder, HeldLive, TokensInOrder,
     PassKnows, Unrecorded

LEMMA LostForGood ==
    ASSUME NEW h \in AllHazards, Hazard(h) \/ UNCHANGED excuse
    PROVE  /\ Lost => Lost'
           /\ "reverted" \in excuse => "reverted" \in excuse'
BY DEF Hazard, Lost

(* A step of the controller that leaves the target and the server alone.   *)
LEMMA ControllerKeeps ==
    ASSUME EnrolInv, IdentityInv,
           Configure \/ Save \/ Abandon
    PROVE  IdentityInv'
<1> USE DEF serverVars, targetVars, EnrolInv
<1>1. UNCHANGED <<live, stale, calls, deploy, pods, secret, minted, config>>
  BY DEF Configure, Save, Abandon
<1>2. Hazard("reverted") \/ UNCHANGED excuse
  BY DEF Configure, Save, Abandon
<1>3. (Lost => Lost') /\ ("reverted" \in excuse => "reverted" \in excuse')
  BY <1>2, LostForGood DEF AllHazards
<1>4. \A c : Installed(c) => Installed(c)'
  BY <1>1, <1>3 DEF Installed, Stored
<1>5. CallersWait' /\ PodsInOrder' /\ HeldLive'
  BY <1>1, <1>3 DEF IdentityInv, CallersWait, PodsInOrder, HeldLive
<1>6. TokensInOrder'
  <2>1. pass' = pass \/ pass'.at = "idle"
    BY DEF Configure, Save, Abandon, Idle
  <2> QED
    BY <1>1, <2>1 DEF IdentityInv, TokensInOrder
<1>7. PassKnows'
  <2> USE DEF IdentityInv, PassKnows
  <2>1. CASE Configure
    <3>1. UNCHANGED <<applied, pass, touched>>
      BY <2>1 DEF Configure
    <3>2. (Unrecorded /\ UpToDate)' => "reverted" \in excuse'
      BY <2>1, <3>1 DEF Configure, Hazard, Unrecorded, UpToDate
    <3> QED
      BY <3>1, <3>2, <1>4
  <2>2. CASE Save
    <3>1. /\ applied' = pass.config /\ pass'.at = "idle" /\ touched' = FALSE
          /\ pass.at = "save"
      BY <2>2 DEF Save, Record, Idle
    <3> QED
      BY <3>1, <1>4 DEF Unrecorded
  <2>3. CASE Abandon
    <3>1. UNCHANGED <<want, applied, touched>> /\ pass'.at = "idle" /\ pass.at # "idle"
      BY <2>3 DEF Abandon, Idle
    <3>2. (Unrecorded /\ UpToDate)' => "reverted" \in excuse'
      BY <3>1, <1>3 DEF Unrecorded, UpToDate
    <3> QED
      BY <3>1, <3>2, <1>4
  <2> QED
    BY <2>1, <2>2, <2>3
<1> QED
  BY <1>5, <1>6, <1>7 DEF IdentityInv

LEMMA MintKeeps ==
    ASSUME EnrolInv, IdentityInv, Mint
    PROVE  IdentityInv'
<1> USE TokensAreNumbers DEF EnrolInv, IdentityInv
<1>1. /\ UNCHANGED <<want, applied, touched, stale, calls, deploy, pods, secret, excuse>>
      /\ minted' = minted + 1 /\ live' = live \cup {minted + 1}
      /\ pass'.at = "clear" /\ pass'.config = want
      /\ pass.at = "idle" /\ ~UpToDate
  BY DEF Mint, targetVars
<1>2. config'[minted + 1] = want /\ \A t \in 0..minted : config'[t] = config[t]
  <2>1. minted + 1 \in Tokens
    BY EnrolmentAssumption DEF Mint, TypeOK, Tokens
  <2> QED
    BY <2>1 DEF Mint, TypeOK, Tokens
<1>3. Lost' = Lost /\ (Stored => Stored')
  BY <1>1 DEF Lost, Stored
<1>4. \A c : Installed(c) => Installed(c)'
  BY <1>1, <1>2, <1>3 DEF Installed, TokensInOrder
<1>5. CallersWait' /\ PodsInOrder' /\ HeldLive'
  BY <1>1, <1>3 DEF CallersWait, PodsInOrder, HeldLive
<1>6. TokensInOrder'
  BY <1>1, <1>2 DEF TokensInOrder
<1>7. PassKnows'
  BY <1>1, <1>4 DEF PassKnows, Unrecorded, UpToDate
<1> QED
  BY <1>5, <1>6, <1>7

LEMMA ClearKeeps ==
    ASSUME EnrolInv, IdentityInv, Clear
    PROVE  IdentityInv'
<1> USE DEF EnrolInv, IdentityInv, serverVars
<1>1. /\ UNCHANGED <<want, applied, minted, config, live, stale, calls, deploy, pods, excuse>>
      /\ pass.at = "clear" /\ pass'.at = "apply" /\ pass'.config = pass.config
      /\ touched' = TRUE
  BY DEF Clear, TypeOK
<1>2. Lost' = Lost
  BY <1>1 DEF Lost
<1>3. CallersWait' /\ PodsInOrder' /\ HeldLive'
  BY <1>1, <1>2 DEF CallersWait, PodsInOrder, HeldLive
<1>4. TokensInOrder'
  BY <1>1 DEF TokensInOrder
<1>5. PassKnows'
  BY <1>1 DEF PassKnows, Unrecorded, UpToDate
<1> QED
  BY <1>3, <1>4, <1>5

LEMMA ApplyKeeps ==
    ASSUME EnrolInv, IdentityInv, Apply
    PROVE  IdentityInv'
<1> USE TokensAreNumbers DEF EnrolInv, IdentityInv, serverVars
<1>1. /\ UNCHANGED <<want, applied, touched, minted, config, live, stale, calls, pods, secret,
                     excuse>>
      /\ pass.at = "apply" /\ pass'.at = "save" /\ pass'.config = pass.config
      /\ deploy' = minted
  BY DEF Apply, TypeOK
<1>2. /\ minted \in live /\ config[minted] = pass.config /\ minted # 0 /\ touched = TRUE
      /\ \A p \in Pods : pods[p].token # minted
      /\ \A k \in calls : k.token # minted
  BY <1>1 DEF TokensInOrder, PassKnows, TypeOK, Tokens
<1>3. Installed(pass.config)'
  BY <1>1, <1>2 DEF Installed, Stored
<1>4. Lost' = Lost
  BY <1>1 DEF Lost
<1>5. CallersWait'
  BY <1>1, <1>2, <1>4 DEF CallersWait
<1>6. PodsInOrder' /\ HeldLive'
  BY <1>1, <1>2, <1>4 DEF PodsInOrder, HeldLive
<1>7. TokensInOrder'
  BY <1>1 DEF TokensInOrder
<1>8. PassKnows'
  BY <1>1, <1>2, <1>3 DEF PassKnows, Unrecorded, UpToDate
<1> QED
  BY <1>5, <1>6, <1>7, <1>8

LEMMA RemoveKeeps ==
    ASSUME EnrolInv, IdentityInv, Remove
    PROVE  IdentityInv'
<1> USE TokensAreNumbers DEF EnrolInv, IdentityInv, serverVars
<1>1. /\ UNCHANGED <<want, applied, minted, config, live, stale, calls, pods, secret, excuse>>
      /\ pass'.at = "save" /\ pass'.config = Off /\ deploy' = 0 /\ touched' = TRUE
      /\ ~UpToDate
  BY DEF Remove
<1>2. Lost' = Lost
  BY <1>1 DEF Lost
<1>3. CallersWait' /\ PodsInOrder'
  BY <1>1, <1>2 DEF CallersWait, PodsInOrder
<1>4. HeldLive'
  BY <1>1 DEF HeldLive, HeldUnused, Tokens
<1>5. TokensInOrder'
  BY <1>1 DEF TokensInOrder
<1>6. PassKnows'
  BY <1>1 DEF PassKnows, Unrecorded, UpToDate
<1> QED
  BY <1>3, <1>4, <1>5, <1>6

(* A step of the agents or of the handlers: the controller's part is left  *)
(* alone, so it is enough that the calls and the pods stay in order, and   *)
(* that what was stored stays stored or is lost.                           *)
LEMMA TargetStep ==
    ASSUME EnrolInv, IdentityInv, UNCHANGED <<controllerVars, deploy>>,
           \A h \in excuse : h \in excuse',
           CallersWait', PodsInOrder', HeldLive',
           \A p \in Pods : pods'[p].token <= minted,
           \A k \in calls' : k.token \in {j.token : j \in calls}
                             \/ \E p \in Pods : k.token = pods[p].token,
           pass.at \in {"clear", "apply"} =>
              minted \in live' /\ \A p \in Pods : pods'[p].token < minted,
           deploy # 0 => (Stored \/ Lost => Stored' \/ Lost')
    PROVE  IdentityInv'
<1> USE TokensAreNumbers DEF controllerVars, EnrolInv
<1>1. \A c : Installed(c) => Installed(c)'
  BY DEF Installed
<1>2. TokensInOrder'
  BY DEF IdentityInv, TokensInOrder
<1>3. PassKnows'
  BY <1>1 DEF IdentityInv, PassKnows, Unrecorded, UpToDate
<1> QED
  BY <1>2, <1>3 DEF IdentityInv

LEMMA StartPodKeeps ==
    ASSUME EnrolInv, IdentityInv, NEW p \in Pods, StartPod(p)
    PROVE  IdentityInv'
<1> USE TokensAreNumbers DEF EnrolInv, IdentityInv, serverVars
<1>1. UNCHANGED <<controllerVars, live, stale, calls, deploy, secret, excuse>>
  BY DEF StartPod
<1>2. /\ pods'[p].pc = "load" /\ pods'[p].token = deploy /\ pods'[p].id = 0
      /\ \A q \in Pods \ {p} : pods'[q] = pods[q]
  BY DEF StartPod, TypeOK
<1>3. pods[p].pc = "none" /\ \A q \in Pods : pods[q].token # deploy
  BY DEF StartPod
<1>4. Lost' = Lost
  BY <1>1 DEF Lost
<1>5. CallersWait'
  BY <1>1, <1>2, <1>3, <1>4 DEF CallersWait
<1>6. PodsInOrder' /\ HeldLive'
  BY <1>1, <1>2, <1>3, <1>4 DEF PodsInOrder, HeldLive
<1>7. Stored => Stored'
  BY <1>1, <1>2, <1>3 DEF Stored
<1> QED
  BY <1>1, <1>2, <1>4, <1>5, <1>6, <1>7, TargetStep DEF TokensInOrder, controllerVars

(* A pod goes or starts over, and its call runs on without it.             *)
LEMMA Orphans ==
    ASSUME TypeOK, NEW p \in Pods
    PROVE  /\ \A j \in Orphaned(p) : \E k \in calls :
                 /\ j.token = k.token /\ j.stage = k.stage
                 /\ j.pod = IF k.pod = p THEN NoPod ELSE k.pod
                 /\ k.pod # p => j = k
           /\ \A j \in Orphaned(p) : j.pod # p
<1>1. \A k \in calls : /\ [k EXCEPT !.pod = NoPod].token = k.token
                       /\ [k EXCEPT !.pod = NoPod].stage = k.stage
                       /\ [k EXCEPT !.pod = NoPod].pod = NoPod
  BY DEF TypeOK, Calls
<1>2. NoPod # p
  BY EnrolmentAssumption
<1> QED
  BY <1>1, <1>2 DEF Orphaned

LEMMA OrphansWait ==
    ASSUME TypeOK, CallersWait, NEW p \in Pods, calls' = Orphaned(p), deploy' = deploy,
           \A q \in Pods \ {p} : pods'[q] = pods[q],
           Lost => Lost',
           \A k \in calls : k.pod = p /\ k.token = deploy => Lost'
    PROVE  CallersWait'
<1> USE TokensAreNumbers, EnrolmentAssumption
<1> SUFFICES ASSUME NEW j \in calls'
             PROVE  /\ j.pod \in Pods =>
                         /\ pods'[j.pod].pc = "wait" /\ j.token = pods'[j.pod].token
                         /\ \A i \in calls' : i.pod = j.pod => i = j
                    /\ j.pod = NoPod /\ j.token = deploy => deploy = 0 \/ Lost'
  BY DEF CallersWait
<1>1. PICK k \in calls : /\ j.token = k.token
                         /\ j.pod = IF k.pod = p THEN NoPod ELSE k.pod
                         /\ k.pod # p => j = k
  BY Orphans
<1>2. j.pod # p
  BY Orphans
<1>3. CASE k.pod = p
  BY <1>1, <1>3
<1>4. CASE k.pod # p
  <2>1. j = k
    BY <1>1, <1>4
  <2>2. ASSUME NEW i \in calls', i.pod = j.pod, j.pod \in Pods PROVE i = j
    <3>1. PICK l \in calls : /\ i.pod = IF l.pod = p THEN NoPod ELSE l.pod
                             /\ l.pod # p => i = l
      BY Orphans
    <3> QED
      BY <2>1, <2>2, <3>1 DEF CallersWait
  <2> QED
    BY <1>2, <2>1, <2>2 DEF CallersWait
<1> QED
  BY <1>3, <1>4

LEMMA StopPodKeeps ==
    ASSUME EnrolInv, IdentityInv, NEW p \in Pods, StopPod(p)
    PROVE  IdentityInv'
<1> USE TokensAreNumbers DEF EnrolInv, IdentityInv
<1>1. /\ UNCHANGED <<controllerVars, live, stale, deploy, secret, excuse>>
      /\ calls' = Orphaned(p)
  BY DEF StopPod
<1>2. /\ pods'[p].pc = "none" /\ pods'[p].token = 0 /\ pods'[p].id = 0
      /\ \A q \in Pods \ {p} : pods'[q] = pods[q]
  BY DEF StopPod, NoAgent, TypeOK
<1>3. pods[p].token # deploy
  BY DEF StopPod
<1>4. Lost' = Lost
  BY <1>1 DEF Lost
<1>5. CallersWait'
  <2>1. \A k \in calls : k.pod = p => k.token # deploy
    BY <1>3 DEF CallersWait
  <2> QED
    BY <1>1, <1>2, <1>4, <2>1, OrphansWait
<1>6. PodsInOrder'
  BY <1>1, <1>2, <1>4 DEF PodsInOrder
<1>7. HeldLive'
  BY <1>1, <1>4, Orphans DEF HeldLive
<1>8. Stored => Stored'
  BY <1>1, <1>2, <1>3 DEF Stored
<1>9. \A j \in calls' : \E k \in calls : j.token = k.token
  BY <1>1, Orphans
<1>10. /\ \A q \in Pods : pods'[q].token <= minted
       /\ pass.at \in {"clear", "apply"} =>
            minted \in live' /\ \A q \in Pods : pods'[q].token < minted
  BY <1>1, <1>2 DEF TokensInOrder
<1> QED
  BY <1>1, <1>4, <1>5, <1>6, <1>7, <1>8, <1>9, <1>10, TargetStep

LEMMA RestartKeeps ==
    ASSUME EnrolInv, IdentityInv, NEW p \in Pods, Restart(p)
    PROVE  IdentityInv'
<1> USE TokensAreNumbers DEF EnrolInv, IdentityInv
<1>1. /\ UNCHANGED <<controllerVars, live, stale, deploy, secret>>
      /\ calls' = Orphaned(p)
      /\ \A h \in excuse : h \in excuse'
      /\ pods[p].pc \in {"wait", "persist"} => Lost'
  BY DEF Restart, Hazard, Lost
<1>2. /\ pods'[p].pc = "load" /\ pods'[p].token = pods[p].token /\ pods'[p].id = 0
      /\ \A q \in Pods \ {p} : pods'[q] = pods[q]
  BY DEF Restart, TypeOK
<1>4. Lost => Lost'
  BY <1>1 DEF Lost
<1>5. CallersWait'
  <2>1. \A k \in calls : k.pod = p => Lost'
    BY <1>1 DEF CallersWait
  <2> QED
    BY <1>1, <1>2, <1>4, <2>1, OrphansWait
<1>6. PodsInOrder'
  BY <1>1, <1>2, <1>4 DEF PodsInOrder
<1>7. HeldLive'
  BY <1>1, <1>4, Orphans DEF HeldLive
<1>8. Stored => Stored' \/ Lost'
  BY <1>1, <1>2 DEF Stored
<1>9. \A j \in calls' : \E k \in calls : j.token = k.token
  BY <1>1, Orphans
<1>10. /\ \A q \in Pods : pods'[q].token <= minted
       /\ pass.at \in {"clear", "apply"} =>
            minted \in live' /\ \A q \in Pods : pods'[q].token < minted
  BY <1>1, <1>2 DEF TokensInOrder
<1> QED
  BY <1>1, <1>4, <1>5, <1>6, <1>7, <1>8, <1>9, <1>10, TargetStep

(* The agent's own steps: only the saving of an identity moves it.         *)
LEMMA AgentKeeps ==
    ASSUME EnrolInv, IdentityInv, NEW p \in Pods,
           LoadSaved(p) \/ Connect(p) \/ Drop(p)
    PROVE  IdentityInv'
<1> USE TokensAreNumbers DEF EnrolInv, IdentityInv, serverVars
<1>1. UNCHANGED <<controllerVars, live, stale, calls, deploy, secret, excuse>>
  BY DEF LoadSaved, Connect, Drop
<1>2. /\ pods'[p].pc \in {"run", "online"} /\ pods'[p].token = pods[p].token
      /\ \A q \in Pods \ {p} : pods'[q] = pods[q]
      /\ pods[p].pc \notin {"wait", "persist"}
  <2>1. CASE LoadSaved(p)
    BY <2>1 DEF LoadSaved, TypeOK
  <2>2. CASE Connect(p)
    BY <2>2 DEF Connect, TypeOK
  <2>3. CASE Drop(p)
    BY <2>3 DEF Drop, TypeOK
  <2> QED
    BY <2>1, <2>2, <2>3
<1>3. Lost' = Lost
  BY <1>1 DEF Lost
<1>4. CallersWait'
  BY <1>1, <1>2, <1>3 DEF CallersWait
<1>5. PodsInOrder' /\ HeldLive'
  BY <1>1, <1>2, <1>3 DEF PodsInOrder, HeldLive
<1>6. Stored => Stored'
  BY <1>1, <1>2 DEF Stored
<1>7. /\ \A q \in Pods : pods'[q].token <= minted
      /\ pass.at \in {"clear", "apply"} =>
           minted \in live' /\ \A q \in Pods : pods'[q].token < minted
  BY <1>1, <1>2 DEF TokensInOrder
<1> QED
  BY <1>1, <1>3, <1>4, <1>5, <1>6, <1>7, TargetStep

LEMMA BootstrapKeeps ==
    ASSUME EnrolInv, IdentityInv, NEW p \in Pods, Bootstrap(p)
    PROVE  IdentityInv'
<1> USE TokensAreNumbers DEF EnrolInv, IdentityInv
<1> DEFINE call == [token |-> pods[p].token, stage |-> "get", pod |-> p]
<1>1. /\ UNCHANGED <<controllerVars, live, stale, deploy, secret, excuse>>
      /\ calls' = calls \cup {call} /\ pods[p].pc = "load"
  BY DEF Bootstrap
<1>2. /\ pods'[p].pc = "wait" /\ pods'[p].token = pods[p].token
      /\ \A q \in Pods \ {p} : pods'[q] = pods[q]
  BY DEF Bootstrap, TypeOK
<1>3. Lost' = Lost
  BY <1>1 DEF Lost
<1>4. call.pod = p /\ call.token = pods[p].token /\ call.stage = "get" /\ NoPod # p
  BY EnrolmentAssumption
<1> HIDE DEF call
<1>5. \A k \in calls : k.pod # p
  BY <1>1 DEF CallersWait
<1>6. CallersWait'
  BY <1>1, <1>2, <1>3, <1>4, <1>5 DEF CallersWait
<1>7. PodsInOrder' /\ HeldLive'
  BY <1>1, <1>2, <1>3, <1>4 DEF PodsInOrder, HeldLive
<1>8. Stored => Stored'
  BY <1>1, <1>2 DEF Stored
<1>9. /\ \A q \in Pods : pods'[q].token <= minted
      /\ pass.at \in {"clear", "apply"} =>
           minted \in live' /\ \A q \in Pods : pods'[q].token < minted
  BY <1>1, <1>2 DEF TokensInOrder
<1> QED
  BY <1>1, <1>3, <1>4, <1>6, <1>7, <1>8, <1>9, TargetStep

LEMMA PersistKeeps ==
    ASSUME EnrolInv, IdentityInv, NEW p \in Pods, Persist(p)
    PROVE  IdentityInv'
<1> USE TokensAreNumbers DEF EnrolInv, IdentityInv, serverVars
<1>1. /\ UNCHANGED <<controllerVars, live, stale, calls, deploy, excuse>>
      /\ pods[p].pc = "persist" /\ pods[p].id # 0
  BY DEF Persist, PodsInOrder
<1>2. /\ secret' # 0
      /\ pods'[p].pc \in {"run", "load"} /\ pods'[p].token = pods[p].token
      /\ \A q \in Pods \ {p} : pods'[q] = pods[q]
  <2>1. CASE secret = 0
    BY <1>1, <2>1 DEF Persist, TypeOK
  <2>2. CASE secret # 0
    BY <1>1, <2>2 DEF Persist, TypeOK
  <2> QED
    BY <2>1, <2>2
<1>3. Lost' = Lost
  BY <1>1 DEF Lost
<1>4. CallersWait'
  BY <1>1, <1>2, <1>3 DEF CallersWait
<1>5. PodsInOrder' /\ HeldLive'
  BY <1>1, <1>2, <1>3 DEF PodsInOrder, HeldLive
<1>6. Stored'
  BY <1>2 DEF Stored
<1>7. /\ \A q \in Pods : pods'[q].token <= minted
      /\ pass.at \in {"clear", "apply"} =>
           minted \in live' /\ \A q \in Pods : pods'[q].token < minted
  BY <1>1, <1>2 DEF TokensInOrder
<1> QED
  BY <1>1, <1>3, <1>4, <1>5, <1>6, <1>7, TargetStep

(* An answered call is over, and only its sender hears of it.              *)
LEMMA Answered ==
    ASSUME EnrolInv, IdentityInv, NEW k \in calls, NEW pc, NEW id, Answer(k, pc, id)
    PROVE  /\ \A q \in Pods : pods'[q].token = pods[q].token
           /\ \A q \in Pods \ {k.pod} : pods'[q] = pods[q]
           /\ k.pod \in Pods => /\ pods'[k.pod].pc = pc /\ pods'[k.pod].id = id
                                /\ pods[k.pod].pc = "wait"
<1> USE DEF EnrolInv, IdentityInv
<1>1. CASE k.pod = NoPod
  BY <1>1, EnrolmentAssumption DEF Answer
<1>2. CASE k.pod \in Pods
  BY <1>2, EnrolmentAssumption DEF Answer, CallersWait, TypeOK
<1> QED
  BY <1>1, <1>2, TokensAreNumbers

LEMMA AnswerWaits ==
    ASSUME EnrolInv, IdentityInv, NEW k \in calls, NEW pc, NEW id, Answer(k, pc, id),
           calls' = calls \ {k}, deploy' = deploy, excuse' = excuse
    PROVE  CallersWait'
<1> USE DEF EnrolInv, IdentityInv
<1>1. Lost' = Lost
  BY DEF Lost
<1>2. \A j \in calls' : j.pod # k.pod \/ j.pod = NoPod
  BY TokensAreNumbers DEF CallersWait
<1> QED
  BY <1>1, <1>2, Answered, EnrolmentAssumption DEF CallersWait

LEMMA RefuseKeeps ==
    ASSUME EnrolInv, IdentityInv, NEW k \in calls, Refuse(k),
           UNCHANGED <<controllerVars, live, stale, deploy, secret, excuse>>
    PROVE  IdentityInv'
<1> USE TokensAreNumbers DEF EnrolInv, IdentityInv
<1>1. Lost' = Lost
  BY DEF Lost
<1>2. calls' = calls \ {k} /\ Answer(k, "load", 0)
  BY DEF Refuse
<1>3. /\ \A q \in Pods : pods'[q].token = pods[q].token
      /\ \A q \in Pods \ {k.pod} : pods'[q] = pods[q]
      /\ k.pod \in Pods => pods'[k.pod].pc = "load" /\ pods[k.pod].pc = "wait"
  BY <1>2, Answered
<1>4. CallersWait'
  BY <1>2, AnswerWaits
<1>5. PodsInOrder' /\ HeldLive'
  BY <1>1, <1>2, <1>3 DEF PodsInOrder, HeldLive
<1>6. Stored => Stored'
  BY <1>3 DEF Stored
<1>7. /\ \A q \in Pods : pods'[q].token <= minted
      /\ pass.at \in {"clear", "apply"} =>
           minted \in live' /\ \A q \in Pods : pods'[q].token < minted
  BY <1>3 DEF TokensInOrder
<1> QED
  BY <1>1, <1>2, <1>4, <1>5, <1>6, <1>7, TargetStep

LEMMA GetKeeps ==
    ASSUME EnrolInv, IdentityInv, NEW k \in calls, Get(k)
    PROVE  IdentityInv'
<1> USE TokensAreNumbers DEF EnrolInv, IdentityInv
<1>1. UNCHANGED <<controllerVars, live, stale, deploy, secret, excuse>>
  BY DEF Get
<1>2. CASE Refuse(k)
  BY <1>1, <1>2, RefuseKeeps
<1>3. CASE k.token \in live /\ pods' = pods
           /\ calls' = (calls \ {k}) \cup {[k EXCEPT !.stage = "delete"]}
  <2> DEFINE held == [k EXCEPT !.stage = "delete"]
  <2>1. held.token = k.token /\ held.pod = k.pod
    BY DEF TypeOK, Calls
  <2>2. calls' = (calls \ {k}) \cup {held}
    BY <1>3
  <2> HIDE DEF held
  <2>3. Lost' = Lost
    BY <1>1 DEF Lost
  <2>4. CallersWait'
    BY <1>1, <1>3, <2>1, <2>2, <2>3, EnrolmentAssumption DEF CallersWait
  <2>5. PodsInOrder' /\ HeldLive'
    BY <1>1, <1>3, <2>1, <2>2, <2>3 DEF PodsInOrder, HeldLive
  <2>6. Stored => Stored'
    BY <1>1, <1>3 DEF Stored
  <2>7. /\ \A q \in Pods : pods'[q].token <= minted
        /\ pass.at \in {"clear", "apply"} =>
             minted \in live' /\ \A q \in Pods : pods'[q].token < minted
    BY <1>1, <1>3 DEF TokensInOrder
  <2> QED
    BY <1>1, <2>1, <2>2, <2>3, <2>4, <2>5, <2>6, <2>7, TargetStep
<1> QED
  BY <1>2, <1>3 DEF Get

(* The token of the Deployment is spent: its certificate is in the pod     *)
(* that asked for it, or nobody is there to have it any more.              *)
LEMMA DeleteKeeps ==
    ASSUME EnrolInv, IdentityInv, NEW k \in calls, Delete(k)
    PROVE  IdentityInv'
<1> USE TokensAreNumbers DEF EnrolInv, IdentityInv
<1>1. /\ UNCHANGED <<controllerVars, stale, deploy, secret, excuse>>
      /\ live' = live \ {k.token} /\ calls' = calls \ {k}
      /\ k.stage = "delete" /\ k.token # 0
  BY DEF Delete, Consumed, Refuse, HeldUnused, Tokens
<1>2. PICK pc, id : /\ Answer(k, pc, id)
                    /\ pc = "persist" => id = k.token
                    /\ pc = "persist" \/ k.token \in stale
  BY DEF Delete, Refuse
<1>3. /\ \A q \in Pods : pods'[q].token = pods[q].token
      /\ \A q \in Pods \ {k.pod} : pods'[q] = pods[q]
      /\ k.pod \in Pods => /\ pods'[k.pod].pc = pc /\ pods'[k.pod].id = id
                           /\ pods[k.pod].pc = "wait"
  BY <1>2, Answered
<1>4. Lost' = Lost
  BY <1>1 DEF Lost
<1>5. CallersWait'
  BY <1>1, <1>2, AnswerWaits
<1>6. PodsInOrder'
  BY <1>1, <1>2, <1>3, <1>4 DEF PodsInOrder
<1>7. HeldLive'
  <2> SUFFICES ASSUME NEW j \in calls', j.stage = "delete", j.token = deploy, ~Lost
               PROVE  deploy \in live'
    BY <1>1, <1>4 DEF HeldLive
  <2>1. deploy \in live /\ j # k
    BY <1>1 DEF HeldLive
  <2>2. k.token # deploy
    <3> SUFFICES ASSUME k.token = deploy PROVE FALSE
      OBVIOUS
    <3>1. k.pod \in Pods /\ j.pod \in Pods
      BY <1>1 DEF CallersWait
    <3>2. k.pod = j.pod
      BY <1>1, <3>1 DEF CallersWait, PodsInOrder
    <3> QED
      BY <1>1, <2>1, <3>1, <3>2 DEF CallersWait
  <2> QED
    BY <1>1, <2>1, <2>2
<1>8. deploy # 0 => (Stored \/ Lost => Stored' \/ Lost')
  <2> SUFFICES ASSUME deploy # 0, Stored, ~Lost PROVE Stored'
    BY <1>4
  <2>1. CASE k.token = deploy
    <3>1. k.pod \in Pods /\ pods[k.pod].token = deploy
      BY <1>1, <2>1 DEF CallersWait
    <3>2. pc = "persist"
      BY <1>2 DEF PodsInOrder
    <3> QED
      BY <1>1, <1>3, <3>1, <3>2 DEF Stored
  <2>2. CASE k.token # deploy
    BY <1>1, <1>3, <2>2 DEF Stored
  <2> QED
    BY <2>1, <2>2
<1>9. /\ \A q \in Pods : pods'[q].token <= minted
      /\ pass.at \in {"clear", "apply"} =>
           minted \in live' /\ \A q \in Pods : pods'[q].token < minted
  BY <1>1, <1>3 DEF TokensInOrder
<1> QED
  BY <1>1, <1>4, <1>5, <1>6, <1>7, <1>8, <1>9, TargetStep

LEMMA ExpiryKeeps ==
    ASSUME EnrolInv, IdentityInv, TokenExpires \/ CertExpires \/ UNCHANGED vars
    PROVE  IdentityInv'
<1> USE DEF EnrolInv, IdentityInv, targetVars
<1>1. UNCHANGED <<controllerVars, live, calls, deploy, pods, secret>>
  BY DEF TokenExpires, CertExpires, vars, serverVars
<1>2. \A h \in excuse : h \in excuse'
  BY DEF TokenExpires, CertExpires, vars, Hazard
<1>3. /\ Lost => Lost'
      /\ stale' # stale => Lost'
  BY <1>2 DEF Lost, TokenExpires, CertExpires, vars, serverVars, Hazard
<1>4. CallersWait' /\ PodsInOrder' /\ HeldLive'
  BY <1>1, <1>3 DEF CallersWait, PodsInOrder, HeldLive
<1>5. Stored => Stored'
  BY <1>1 DEF Stored
<1>6. /\ \A q \in Pods : pods'[q].token <= minted
      /\ pass.at \in {"clear", "apply"} =>
           minted \in live' /\ \A q \in Pods : pods'[q].token < minted
  BY <1>1 DEF TokensInOrder
<1> QED
  BY <1>1, <1>2, <1>3, <1>4, <1>5, <1>6, TargetStep

LEMMA IdentityStep == EnrolInv /\ IdentityInv /\ [Next]_vars => IdentityInv'
<1> SUFFICES ASSUME EnrolInv, IdentityInv, [Next]_vars PROVE IdentityInv'
  OBVIOUS
<1>1. CASE Configure \/ Save \/ Abandon
  BY <1>1, ControllerKeeps
<1>2. CASE Mint \/ Clear \/ Apply \/ Remove
  BY <1>2, MintKeeps, ClearKeeps, ApplyKeeps, RemoveKeeps
<1>3. ASSUME NEW p \in Pods, Kubelet(p) \/ Restart(p) PROVE IdentityInv'
  BY <1>3, StartPodKeeps, StopPodKeeps, RestartKeeps DEF Kubelet
<1>4. ASSUME NEW p \in Pods, Agent(p) \/ Drop(p) PROVE IdentityInv'
  BY <1>4, AgentKeeps, BootstrapKeeps, PersistKeeps DEF Agent
<1>5. ASSUME NEW k \in calls, Serve(k) PROVE IdentityInv'
  BY <1>5, GetKeeps, DeleteKeeps DEF Serve
<1>6. ASSUME NEW k \in calls, DeleteFails(k) PROVE IdentityInv'
  BY <1>6, RefuseKeeps DEF DeleteFails
<1>7. CASE TokenExpires \/ CertExpires \/ UNCHANGED vars
  BY <1>7, ExpiryKeeps
<1> QED
  BY <1>1, <1>2, <1>3, <1>4, <1>5, <1>6, <1>7 DEF Next, Controller

(* reconcileAgent and the agents' bootstrap: where an agent is recorded as *)
(* installed its Deployment is there, of the recorded configuration, and   *)
(* has an identity or the means to get one, unless a restart lost the      *)
(* identity, its token grew too old, or the configuration was taken back   *)
(* while a pass was changing the target.                                   *)
THEOREM InstalledAgentNeverStranded == Spec => []NeverStranded
<1>1. Init => EnrolInv /\ IdentityInv
  BY InitInv, IdentityInit
<1>2. EnrolInv /\ IdentityInv /\ [Next]_vars => (EnrolInv /\ IdentityInv)'
  BY StepInv, IdentityStep
<1>3. IdentityInv => NeverStranded
  <2> SUFFICES ASSUME IdentityInv, pass.at = "idle", want # Off, UpToDate,
                      excuse \cap {"identityLost", "tokenExpires", "reverted"} = {}
               PROVE  deploy # 0 /\ config[deploy] = applied /\ Recoverable
    BY DEF NeverStranded
  <2>1. ~touched
    BY DEF IdentityInv, PassKnows, Unrecorded
  <2>2. Installed(applied) /\ ~Lost
    BY <2>1 DEF IdentityInv, PassKnows, UpToDate, Lost
  <2> QED
    BY <2>2 DEF Installed, Stored, Recoverable
<1> QED
  BY <1>1, <1>2, <1>3, PTL DEF Spec

-----------------------------------------------------------------------------
(* PinnedRefs: types *)

Rows   == [at : Stages, tier : Tiers, todo : SUBSET Refs, ref : {None} \cup Refs,
           view : Pins, mine : Pins, base : Pins, found : SUBSET Refs,
           to : {None} \cup Inodes \cup Digests]
Uses   == [ref : Refs, digest : Digests, whole : BOOLEAN]
Counts == [retags : 0 .. MaxRetags, failures : 0 .. MaxFailures, commands : 0 .. MaxCommands]
Caches == [Refs -> [Digests -> {"no", "part", "whole"}]]

(* Meant and Settled, of any row.                                          *)
MeantIn(p, s, r) ==
    \/ r \in s.found /\ (s.tier = "update" \/ r \in Dirs[p])
    \/ s.tier = "remove" /\ s.mine[r] = None

Kept(p, s) == \A r \in Refs : s.base[r] # None /\ ~MeantIn(p, s, r) => s.mine[r] = s.base[r]

Firm(p, s) ==
    /\ s.at = "copy" => /\ s.ref \in Modules /\ s.to \in Digests
                        /\ s.tier # "update" => s.mine[s.ref] = None
    /\ s.tier = "remove" => s.at # "copy" /\ (s.at = "resolve" => s.todo = {})
    /\ s.at = "write" => s.to \in Inodes
    /\ s.at \in {"resolve", "copy", "write", "rename"} => Kept(p, s)

PinsTold ==
    /\ local \in BOOLEAN /\ upstream \in [Refs -> Digests] /\ cache \in Caches
    /\ mirror \in [Refs -> {None} \cup Digests] /\ ran \in [Procs -> SUBSET Uses]
    /\ count \in Counts /\ RunsWhole /\ FilesWhole /\ Tagged

PinsWritten ==
    /\ files \in [Inodes -> Pins \cup {Torn}] /\ lockFile \in Inodes
    /\ tmpFile \in {None} \cup Inodes /\ proc \in [Procs -> Rows]
    /\ SavesItsOwn /\ \A p \in Procs : Firm(p, proc[p])

LEMMA PinInvIs == PinInv <=> PinsTold /\ PinsWritten
<1>1. \A p \in Procs : Settled(p) <=> Firm(p, proc[p])
  BY DEF Settled, Meant, Firm, Kept, MeantIn
<1> QED
  BY <1>1 DEF PinInv, PinnedTypeOK, PinsTold, PinsWritten, Rows, Uses, Counts, Caches

LEMMA PinsAre ==
    /\ NoPins \in Pins /\ Torn \notin Pins /\ \A s \in Pins, r \in Refs : s[r] \in {None} \cup Digests
    /\ None \notin Digests /\ None \notin Inodes /\ Modules \subseteq Refs
    /\ \A p \in Procs : Wants[p] \subseteq Refs
<1>1. Cardinality(Procs) \in Nat /\ MaxRetags \in Nat
  BY PinnedAssumption, FS_CardinalityType
<1>2. None \notin Digests /\ None \notin Inodes /\ Digests \subseteq Nat /\ None \in Nat
  BY <1>1 DEF Digests, Inodes, None
<1>3. Torn \notin Pins
  BY <1>2, PinnedAssumption DEF Pins
<1> QED
  BY <1>2, <1>3, PinnedAssumption DEF Pins, NoPins

LEMMA RestingTyped ==
    /\ Resting \in Rows /\ Resting.at = "idle" /\ Resting.mine = NoPins /\ Resting.base = NoPins
BY PinsAre DEF Resting, Rows, Stages, Tiers

LEMMA Counted ==
    ASSUME count \in Counts
    PROVE  /\ Failure => count' \in Counts /\ count'.retags = count.retags
           /\ \A ok, bad : FailureOr(ok, bad) => count' \in Counts /\ count'.retags = count.retags
<1>1. MaxFailures \in Nat
  BY PinnedAssumption
<1>2. Failure => count' \in Counts /\ count'.retags = count.retags
  BY <1>1 DEF Failure, Counts
<1> QED
  BY <1>2 DEF FailureOr

LEMMA FollowingTyped ==
    ASSUME NEW p \in Procs, proc[p] \in Rows
    PROVE  Following(p) \in Rows /\ Following(p).at \in {"idle", "load", "use"}
<1> DEFINE s == [Resting EXCEPT !.tier = proc[p].tier, !.view = proc[p].view]
<1>1. s \in Rows /\ s.tier = proc[p].tier
  BY RestingTyped DEF Rows
<1>2. Following(p) = CASE s.tier = "modules" -> [s EXCEPT !.at = "load", !.tier = "files"]
                       [] s.tier = "files"   -> [s EXCEPT !.at = "use"]
                       [] OTHER              -> Resting
  BY DEF Following
<1> HIDE DEF s
<1>3. CASE s.tier = "modules"
  BY <1>1, <1>2, <1>3 DEF Rows, Stages, Tiers
<1>4. CASE s.tier = "files"
  BY <1>1, <1>2, <1>4 DEF Rows, Stages
<1>5. CASE s.tier \notin {"modules", "files"}
  BY <1>2, <1>5, RestingTyped
<1> QED
  BY <1>3, <1>4, <1>5

LEMMA SettledElse ==
    ASSUME NEW p, NEW s, s.at \notin {"resolve", "copy", "write", "rename"} PROVE Firm(p, s)
BY DEF Firm

-----------------------------------------------------------------------------
(* PinnedRefs: the steps that leave the files alone *)

SameFiles == UNCHANGED <<files, lockFile, tmpFile>>

LEMMA QuietStep ==
    ASSUME PinsWritten, NEW p \in Procs, NEW s \in Rows, Become(p, s), SameFiles,
           Firm(p, s), ~Saving(p), s.at \notin {"write", "rename"}
    PROVE  PinsWritten' /\ Lock' = Lock
<1>1. proc' \in [Procs -> Rows] /\ proc'[p] = s /\ \A q \in Procs \ {p} : proc'[q] = proc[q]
  BY DEF Become, PinsWritten
<1>2. \A q \in Procs : Saving(q)' = Saving(q)
  BY <1>1 DEF Saving
<1>3. SavesItsOwn'
  <2>1. ASSUME NEW q \in Procs, AloneSaving(q)' PROVE AloneSaving(q) /\ proc'[q] = proc[q]
    BY <1>1, <1>2, <2>1 DEF AloneSaving
  <2> QED
    BY <2>1 DEF SavesItsOwn, SameFiles, PinsWritten, At
<1>4. \A q \in Procs : Firm(q, proc'[q])
  BY <1>1 DEF PinsWritten
<1> QED
  BY <1>1, <1>3, <1>4 DEF PinsWritten, SameFiles, Lock

LEMMA LockTyped ==
    ASSUME PinsWritten PROVE Lock \in Pins \cup {Torn}
BY DEF PinsWritten, Lock

(* The row of each of these steps.                                         *)
LEMMA BeginRow ==
    ASSUME PinsWritten, NEW p \in Procs, Begin(p)
    PROVE  PinsWritten' /\ Lock' = Lock
<1>1. PICK at \in Stages : at = IF local THEN "use" ELSE "load"
  BY DEF Stages
<1>2. Lock \in Pins /\ At(p, "idle")
  BY LockTyped DEF Begin
<1>3. Become(p, [Resting EXCEPT !.at = at, !.view = Lock]) /\ SameFiles
  BY <1>1 DEF Begin, SameFiles
<1>4. PICK s : s = [Resting EXCEPT !.at = at, !.view = Lock]
  OBVIOUS
<1>5. s \in Rows /\ s.at = at
  BY <1>2, <1>4, RestingTyped DEF Rows
<1>6. Firm(p, s) /\ s.at \notin {"write", "rename"} /\ ~Saving(p)
  BY <1>1, <1>2, <1>5, SettledElse DEF At, Saving
<1> QED
  BY <1>3, <1>4, <1>5, <1>6, QuietStep

LEMMA FollowRow ==
    ASSUME PinsWritten, NEW p \in Procs, Skip(p) \/ Run(p) \/ Mirror(p)
    PROVE  PinsWritten' /\ Lock' = Lock
<1>1. proc[p] \in Rows /\ Lock \in Pins \cup {Torn}
  BY LockTyped DEF PinsWritten
<1>2. Following(p) \in Rows /\ Following(p).at \in {"idle", "load", "use"}
  BY <1>1, FollowingTyped
<1>3. ~Saving(p) /\ SameFiles
  BY DEF Skip, Run, Mirror, Saving, At, Resolved, SameFiles
<1>4. CASE Skip(p)
  BY <1>2, <1>3, <1>4, QuietStep, SettledElse DEF Skip
<1>5. CASE Run(p)
  BY <1>3, <1>5, RestingTyped, QuietStep, SettledElse DEF Run
<1>6. CASE Mirror(p)
  <2>1. PICK view \in Pins : Become(p, [Following(p) EXCEPT !.view = view])
    <3>1. proc[p].view \in Pins /\ Following(p).view \in Pins
      BY <1>1, <1>2 DEF Rows
    <3> QED
      BY <1>1, <1>6, <3>1 DEF Mirror
  <2>2. PICK s : s = [Following(p) EXCEPT !.view = view]
    OBVIOUS
  <2>3. s \in Rows /\ s.at = Following(p).at
    BY <1>2, <2>2 DEF Rows
  <2> QED
    BY <1>2, <1>3, <2>1, <2>2, <2>3, QuietStep, SettledElse
<1> QED
  BY <1>4, <1>5, <1>6

LEMMA LoadRow ==
    ASSUME PinsWritten, NEW p \in Procs, Load(p)
    PROVE  PinsWritten' /\ Lock' = Lock
<1> DEFINE s == proc[p]
<1>1. /\ s \in Rows /\ s.at = "load" /\ s.tier # "remove" /\ Lock \in Pins \cup {Torn} /\ ~Saving(p) /\ SameFiles
      /\ IF Lock = Torn
         THEN Become(p, IF s.tier = "modules" THEN [s EXCEPT !.at = "mirror"] ELSE Following(p))
         ELSE Become(p, [s EXCEPT !.at = "resolve", !.mine = Lock, !.base = Lock,
                                  !.todo = Tier(p, s.tier)])
  BY LockTyped DEF Load, At, PinsWritten, Saving, SameFiles
<1> HIDE DEF s
<1>2. CASE Lock = Torn /\ s.tier = "modules"
  <2>1. PICK t \in Rows : t = [s EXCEPT !.at = "mirror"] /\ t.at = "mirror"
    BY <1>1 DEF Rows, Stages
  <2> QED
    BY <1>1, <1>2, <2>1, QuietStep, SettledElse
<1>3. CASE Lock = Torn /\ s.tier # "modules"
  <2>1. Following(p) \in Rows /\ Following(p).at \in {"idle", "load", "use"}
    BY <1>1, FollowingTyped DEF s
  <2> QED
    BY <1>1, <1>3, <2>1, QuietStep, SettledElse
<1>4. CASE Lock # Torn
  <2>1. PICK todo \in SUBSET Refs : todo = Tier(p, s.tier)
    BY PinsAre DEF Tier
  <2>2. PICK t : t = [s EXCEPT !.at = "resolve", !.mine = Lock, !.base = Lock, !.todo = todo]
    OBVIOUS
  <2>3. t \in Rows /\ t.at = "resolve" /\ t.mine = Lock /\ t.base = Lock
    BY <1>1, <1>4, <2>2 DEF Rows, Stages
  <2>4. Firm(p, t)
    <3>1. t.tier = s.tier /\ s.tier # "remove"
      BY <1>1, <2>2 DEF Rows, Load
    <3> QED
      BY <2>3, <3>1 DEF Firm, Kept
  <2> QED
    BY <1>1, <1>4, <2>1, <2>2, <2>3, <2>4, QuietStep
<1> QED
  BY <1>2, <1>3, <1>4

LEMMA CommandRow ==
    ASSUME PinsWritten, NEW p \in Procs, NEW rs \in SUBSET Refs,
           NEW tier \in {"install", "update", "remove"}, Command(p, tier, rs)
    PROVE  PinsWritten' /\ Lock' = Lock
<1>1. Lock \in Pins /\ ~Saving(p) /\ SameFiles
  BY LockTyped DEF Command, SameFiles, Saving, At
<1>2. PICK mine : mine = IF tier = "remove"
                         THEN [r \in Refs |-> IF r \in rs THEN None ELSE Lock[r]] ELSE Lock
  OBVIOUS
<1> mine \in Pins
  BY <1>1, <1>2 DEF Pins
<1>3. PICK todo \in SUBSET Refs : todo = IF tier = "remove" THEN {} ELSE rs
  OBVIOUS
<1>4. Become(p, [Resting EXCEPT !.at = "resolve", !.tier = tier, !.base = Lock, !.mine = mine, !.todo = todo])
  BY <1>2, <1>3 DEF Command
<1>5. PICK t : t = [Resting EXCEPT !.at = "resolve", !.tier = tier, !.base = Lock,
                                   !.mine = mine, !.todo = todo]
  OBVIOUS
<1>6. /\ t \in Rows /\ t.at = "resolve" /\ t.tier = tier /\ t.mine = mine /\ t.base = Lock
      /\ t.todo = todo
  BY <1>1, <1>5, RestingTyped DEF Rows, Stages, Tiers
<1>7. Kept(p, t)
  BY <1>2, <1>6 DEF Kept, MeantIn
<1>8. Firm(p, t)
  BY <1>3, <1>6, <1>7 DEF Firm
<1> QED
  BY <1>1, <1>4, <1>5, <1>6, <1>8, QuietStep

LEMMA KeepRow ==
    ASSUME PinsWritten, NEW p \in Procs, NEW r \in Refs, Keep(p, r) \/ Miss(p, r)
    PROVE  PinsWritten' /\ Lock' = Lock
<1>1. proc[p] \in Rows /\ proc[p].at = "resolve" /\ Firm(p, proc[p]) /\ ~Saving(p) /\ SameFiles
  BY DEF Keep, Miss, At, PinsWritten, Saving, SameFiles
<1>2. PICK todo \in SUBSET proc[p].todo, found \in SUBSET Refs :
        /\ proc[p].found \subseteq found
        /\ Become(p, [proc[p] EXCEPT !.todo = todo, !.found = found])
  <2>1. proc[p].todo \ {r} \in SUBSET proc[p].todo /\ proc[p].found \cup {r} \in SUBSET Refs
    BY <1>1 DEF Rows
  <2>2. CASE Keep(p, r)
    BY <2>1, <2>2 DEF Keep
  <2>3. CASE Miss(p, r)
    <3>1. [proc[p] EXCEPT !.todo = @ \ {r}] = [proc[p] EXCEPT !.todo = @ \ {r}, !.found = proc[p].found]
      BY <1>1 DEF Rows
    <3>2. proc[p].found \in SUBSET Refs
      BY <1>1 DEF Rows
    <3> QED
      BY <2>1, <2>3, <3>1, <3>2 DEF Miss
  <2> QED
    BY <2>2, <2>3
<1>3. PICK t : t = [proc[p] EXCEPT !.todo = todo, !.found = found]
  OBVIOUS
<1>4. /\ t \in Rows /\ t.at = "resolve" /\ t.tier = proc[p].tier
      /\ t.mine = proc[p].mine /\ t.base = proc[p].base /\ t.todo = todo /\ t.found = found
  BY <1>1, <1>3 DEF Rows
<1>5. Firm(p, t)
  BY <1>1, <1>2, <1>4 DEF Firm, Kept, MeantIn
<1> QED
  BY <1>1, <1>2, <1>3, <1>4, <1>5, QuietStep

(* What has been fetched was not pinned, or is what was pinned.            *)
LEMMA GotRow ==
    ASSUME NEW p \in Procs, NEW s \in Rows, NEW r \in Refs, NEW d \in Digests,
           NEW to \in {None} \cup Inodes \cup Digests, Kept(p, s), s.tier # "remove",
           s.tier = "update" \/ r \in Dirs[p] \/ s.mine[r] \in {None, d}
    PROVE  /\ [Got(s, r, d) EXCEPT !.to = to] \in Rows /\ [Got(s, r, d) EXCEPT !.to = to].at = "resolve"
           /\ Firm(p, [Got(s, r, d) EXCEPT !.to = to])
           /\ Got(s, r, d) \in Rows /\ Got(s, r, d).at = "resolve" /\ Firm(p, Got(s, r, d))
<1>1. PICK mine \in Pins : /\ mine = [s.mine EXCEPT ![r] = d]
                           /\ mine[r] = d /\ \A x \in Refs \ {r} : mine[x] = s.mine[x]
  <2> DEFINE new == [s.mine EXCEPT ![r] = d]
  <2>1. new \in Pins /\ new[r] = d /\ \A x \in Refs \ {r} : new[x] = s.mine[x]
    BY DEF Rows, Pins
  <2> QED
    BY <2>1
<1>2. PICK todo \in SUBSET Refs, found \in SUBSET Refs : todo = s.todo \ {r} /\ found = s.found \cup {r}
  BY DEF Rows
<1>3. PICK t : t = [s EXCEPT !.at = "resolve", !.ref = None, !.todo = todo, !.found = found, !.mine = mine]
  OBVIOUS
<1>4. t = Got(s, r, d)
  BY <1>1, <1>2, <1>3 DEF Got
<1>5. /\ t \in Rows /\ t.at = "resolve" /\ t.tier = s.tier /\ t.mine = mine /\ t.base = s.base
      /\ t.found = found
  BY <1>3 DEF Rows, Stages
<1>6. PICK u : u = [t EXCEPT !.to = to]
  OBVIOUS
<1>7. /\ u \in Rows /\ u.at = "resolve" /\ u.tier = s.tier /\ u.mine = mine /\ u.base = s.base
      /\ u.found = found
  BY <1>5, <1>6 DEF Rows
<1>8. ASSUME NEW x \in Refs, s.base[x] # None, s.tier = "update" \/ x \in Dirs[p] => x \notin found
      PROVE  mine[x] = s.base[x]
  <2>1. s.mine[x] = s.base[x]
    BY <1>2, <1>8 DEF Kept, MeantIn
  <2>2. x = r => s.mine[r] \in {None, d}
    BY <1>2, <1>8
  <2> QED
    BY <1>1, <1>8, <2>1, <2>2
<1>8a. Kept(p, t) /\ Kept(p, u)
  BY <1>5, <1>7, <1>8 DEF Kept, MeantIn
<1>9. Firm(p, t) /\ Firm(p, u)
  BY <1>5, <1>7, <1>8a DEF Firm
<1> QED
  BY <1>4, <1>5, <1>6, <1>7, <1>9

(* What is looked for is in no pin that would have to hold.                *)
LEMMA Unpinned ==
    ASSUME PinsWritten, NEW p \in Procs, NEW r \in proc[p].todo, proc[p].at = "resolve",
           ~Pinned(p, r), ~Mismatch(p, r)
    PROVE  /\ Kept(p, proc[p]) /\ proc[p].tier # "remove"
           /\ \/ proc[p].tier = "update" \/ r \in Dirs[p]
              \/ proc[p].mine[r] \in {None, upstream[r]}
           /\ r \in Modules /\ proc[p].tier # "update" => proc[p].mine[r] = None
<1>1. Firm(p, proc[p]) /\ (r \in Modules => r \notin Dirs[p])
  BY PinnedAssumption DEF PinsWritten
<1>2. Kept(p, proc[p]) /\ proc[p].tier # "remove"
  BY <1>1 DEF Firm
<1> QED
  BY <1>1, <1>2 DEF Pinned, Mismatch

LEMMA FetchRow ==
    ASSUME PinsTold, PinsWritten, NEW p \in Procs, NEW r \in Refs, Fetch(p, r)
    PROVE  PinsWritten' /\ Lock' = Lock
<1>1. /\ proc[p] \in Rows /\ proc[p].at = "resolve" /\ Firm(p, proc[p]) /\ ~Saving(p) /\ SameFiles
      /\ upstream[r] \in Digests
  BY DEF Fetch, At, PinsWritten, PinsTold, Saving, SameFiles
<1>2. Become(p, Got(proc[p], r, upstream[r]))
  BY DEF Fetch
<1>3. /\ Kept(p, proc[p]) /\ proc[p].tier # "remove"
      /\ proc[p].tier = "update" \/ r \in Dirs[p] \/ proc[p].mine[r] \in {None, upstream[r]}
  BY <1>1, Unpinned DEF Fetch
<1>4. PICK t : t = Got(proc[p], r, upstream[r])
  OBVIOUS
<1>5. t \in Rows /\ t.at = "resolve" /\ Firm(p, t)
  BY <1>1, <1>3, <1>4, GotRow
<1> QED
  BY <1>1, <1>2, <1>4, <1>5, QuietStep

(* The copy of a module is of one that its file does not pin, or of an     *)
(* update of it.                                                           *)
LEMMA CopyRow ==
    ASSUME PinsTold, PinsWritten, NEW p \in Procs, NEW r \in Refs, StartCopy(p, r)
    PROVE  PinsWritten' /\ Lock' = Lock
<1>1. /\ proc[p] \in Rows /\ proc[p].at = "resolve" /\ Firm(p, proc[p]) /\ ~Saving(p) /\ SameFiles
      /\ upstream[r] \in Digests /\ r \in Modules
  BY DEF StartCopy, At, PinsWritten, PinsTold, Saving, SameFiles, Atomic
<1>2. /\ Become(p, [proc[p] EXCEPT !.at = "copy", !.ref = r, !.to = upstream[r]])
      /\ Kept(p, proc[p]) /\ proc[p].tier # "remove"
      /\ proc[p].tier # "update" => proc[p].mine[r] = None
  BY <1>1, Unpinned DEF StartCopy
<1>3. PICK t : t = [proc[p] EXCEPT !.at = "copy", !.ref = r, !.to = upstream[r]]
  OBVIOUS
<1>4. /\ t \in Rows /\ t.at = "copy" /\ t.ref = r /\ t.to = upstream[r] /\ t.tier = proc[p].tier
      /\ t.mine = proc[p].mine /\ t.base = proc[p].base /\ t.found = proc[p].found
  BY <1>1, <1>3 DEF Rows, Stages
<1>5. Kept(p, t)
  BY <1>2, <1>4 DEF Kept, MeantIn
<1>6. Firm(p, t)
  BY <1>1, <1>2, <1>4, <1>5 DEF Firm
<1> QED
  BY <1>1, <1>2, <1>3, <1>4, <1>6, QuietStep

LEMMA EndCopyRow ==
    ASSUME PinsWritten, NEW p \in Procs, EndCopy(p)
    PROVE  PinsWritten' /\ Lock' = Lock /\ proc[p].ref \in Modules /\ proc[p].to \in Digests
<1> DEFINE s == proc[p]
<1>1. /\ s \in Rows /\ s.at = "copy" /\ Firm(p, s) /\ ~Saving(p) /\ SameFiles
      /\ Become(p, [Got(s, s.ref, s.to) EXCEPT !.to = None])
  BY DEF EndCopy, At, PinsWritten, Saving, SameFiles
<1> HIDE DEF s
<1>2. s.ref \in Refs /\ s.ref \in Modules /\ s.to \in Digests
  BY <1>1, PinsAre DEF Firm
<1>3. Kept(p, s) /\ s.tier # "remove" /\ (s.tier = "update" \/ s.mine[s.ref] \in {None, s.to})
  BY <1>1 DEF Firm
<1>4. PICK t : t = [Got(s, s.ref, s.to) EXCEPT !.to = None]
  OBVIOUS
<1>5. t \in Rows /\ t.at = "resolve" /\ Firm(p, t)
  <2>1. s.tier = "update" \/ s.ref \in Dirs[p] \/ s.mine[s.ref] \in {None, s.to}
    BY <1>3
  <2>2. s \in Rows /\ s.ref \in Refs /\ s.to \in Digests /\ Kept(p, s) /\ s.tier # "remove"
    BY <1>1, <1>2, <1>3
  <2> DEFINE got == [Got(s, s.ref, s.to) EXCEPT !.to = None]
  <2>3. got \in Rows /\ got.at = "resolve" /\ Firm(p, got)
    BY ONLY <2>1, <2>2, GotRow, p \in Procs
  <2> QED
    BY <1>4, <2>3
<1>6. PinsWritten' /\ Lock' = Lock
  BY <1>1, <1>4, <1>5, QuietStep
<1> QED
  BY <1>2, <1>6 DEF s

-----------------------------------------------------------------------------
(* PinnedRefs: saving *)

(* There are more inodes than are in use.                                  *)
LEMMA UnusedThere ==
    ASSUME PinsWritten, tmpFile = None
    PROVE  Unused \in Inodes /\ Unused # lockFile
<1> DEFINE Q == {x \in Procs : proc[x].at # "copy"}
           T == {proc[q].to : q \in Q}
           f == [q \in Q |-> proc[q].to]
           n == Cardinality(Procs)
<1>1. IsFiniteSet(Procs) /\ n \in Nat
  BY PinnedAssumption, FS_CardinalityType
<1>2. IsFiniteSet(Q) /\ Cardinality(Q) \in Nat /\ Cardinality(Q) =< n
  <2>1. Q \in SUBSET Procs
    OBVIOUS
  <2> HIDE DEF Q
  <2> QED
    BY <1>1, <2>1, FS_Subset, FS_CardinalityType
<1>3. f \in Surjection(Q, T)
  BY DEF Surjection
<1>4. IsFiniteSet(T) /\ Cardinality(T) \in Nat /\ Cardinality(T) =< n
  <2> HIDE DEF Q, T, f
  <2>1. IsFiniteSet(T) /\ Cardinality(T) =< Cardinality(Q)
    BY <1>2, <1>3, FS_Surjection
  <2>2. Cardinality(T) \in Nat
    BY <2>1, FS_CardinalityType
  <2> HIDE DEF n
  <2> QED
    BY <1>1, <1>2, <2>1, <2>2
<1>5. PICK i \in Inodes : i \notin {lockFile} \cup T
  <2> SUFFICES ASSUME \A i \in Inodes : i \in T \cup {lockFile} PROVE FALSE
    OBVIOUS
  <2> HIDE DEF T, Q, f
  <2>1. IsFiniteSet(T \cup {lockFile}) /\ Cardinality(T \cup {lockFile}) =< Cardinality(T) + 1
    BY <1>4, FS_AddElement
  <2>2. Inodes \in SUBSET (T \cup {lockFile})
    OBVIOUS
  <2>3. Cardinality(Inodes) =< Cardinality(T \cup {lockFile})
    BY <2>1, <2>2, FS_Subset
  <2>4. Cardinality(Inodes) = n + 2
    BY <1>1, FS_Interval DEF Inodes
  <2>5. Cardinality(T \cup {lockFile}) \in Nat
    BY <2>1, FS_CardinalityType
  <2> HIDE DEF n
  <2> QED
    BY <1>1, <1>4, <2>1, <2>3, <2>4, <2>5
<1>6. i \notin {lockFile, tmpFile} \cup T
  BY <1>5, PinsAre
<1>7. Unused \in Inodes /\ Unused \notin {lockFile, tmpFile} \cup T
  BY <1>6 DEF Unused
<1> QED
  BY <1>7

(* A pin gets changed, or lost, in the step.                               *)
PinsKept ==
    \A r \in Refs :
       Lock # Torn /\ Lock[r] # None /\ (Lock' = Torn \/ Lock'[r] # Lock[r])
          => \E p \in Procs : Clashes(p) \/ (Saving(p) /\ Meant(p, r))

LEMMA SameLock ==
    ASSUME Lock' = Lock PROVE PinsKept
BY DEF PinsKept

(* The step of one process that saves.                                     *)
LEMMA SavingStep ==
    ASSUME PinsWritten, NEW p \in Procs, NEW s \in Rows, Become(p, s), Firm(p, s)
    PROVE  /\ proc' \in [Procs -> Rows] /\ proc'[p] = s /\ \A q \in Procs \ {p} : proc'[q] = proc[q]
           /\ \A q \in Procs : Firm(q, proc'[q])
           /\ s.at \in {"write", "rename"} => \A q \in Procs : AloneSaving(q)' => q = p
           /\ Saving(p) /\ AloneSaving(p)' => AloneSaving(p)
<1>1. proc' \in [Procs -> Rows] /\ proc'[p] = s /\ \A q \in Procs \ {p} : proc'[q] = proc[q]
  BY DEF Become, PinsWritten
<1>2. \A q \in Procs : Firm(q, proc'[q])
  BY <1>1 DEF PinsWritten
<1>3. s.at \in {"write", "rename"} => \A q \in Procs : AloneSaving(q)' => q = p
  BY <1>1 DEF AloneSaving, Saving
<1>4. Saving(p) /\ AloneSaving(p)' => AloneSaving(p)
  BY <1>1 DEF AloneSaving, Saving
<1> QED
  BY <1>1, <1>2, <1>3, <1>4

LEMMA OpenRow ==
    ASSUME PinsWritten, NEW p \in Procs, Open(p)
    PROVE  PinsWritten' /\ Lock' = Lock
<1>1. /\ proc[p] \in Rows /\ proc[p].at = "resolve" /\ Firm(p, proc[p]) /\ UNCHANGED lockFile
      /\ Become(p, [proc[p] EXCEPT !.at = "write", !.to = Opened])
      /\ tmpFile' = Opened /\ files' = [files EXCEPT ![Opened] = NoPins]
  BY DEF Open, Resolved, At, PinsWritten
<1>2. Opened \in Inodes /\ Opened # lockFile
  BY UnusedThere DEF Opened, PinsWritten, SavesItsOwn
<1>3. PICK t : t = [proc[p] EXCEPT !.at = "write", !.to = Opened]
  OBVIOUS
<1>4. /\ t \in Rows /\ t.at = "write" /\ t.to = Opened /\ t.tier = proc[p].tier
      /\ t.mine = proc[p].mine /\ t.base = proc[p].base /\ t.found = proc[p].found
  BY <1>1, <1>2, <1>3 DEF Rows, Stages
<1>5. Firm(p, t)
  BY <1>1, <1>2, <1>4 DEF Firm, Kept, MeantIn
<1>6. /\ proc' \in [Procs -> Rows] /\ proc'[p] = t /\ \A q \in Procs : Firm(q, proc'[q])
      /\ \A q \in Procs : AloneSaving(q)' => q = p
  BY <1>1, <1>3, <1>4, <1>5, SavingStep
<1>7. /\ files' \in [Inodes -> Pins \cup {Torn}] /\ files'[Opened] = NoPins
      /\ files'[lockFile] = files[lockFile]
  BY <1>1, <1>2, PinsAre DEF PinsWritten
<1>8. SavesItsOwn'
  BY <1>1, <1>2, <1>4, <1>6, <1>7 DEF SavesItsOwn, At
<1> QED
  BY <1>1, <1>2, <1>6, <1>7, <1>8 DEF PinsWritten, Lock

LEMMA WriteRow ==
    ASSUME PinsWritten, NEW p \in Procs, Write(p)
    PROVE  PinsWritten' /\ PinsKept
<1>1. /\ proc[p] \in Rows /\ proc[p].at = "write" /\ Firm(p, proc[p]) /\ UNCHANGED <<lockFile, tmpFile>>
      /\ Become(p, [proc[p] EXCEPT !.at = "rename", !.to = None])
  BY DEF Write, At, PinsWritten
<1>2. PICK after \in {proc[p].mine} \cup IF files[proc[p].to] \in {NoPins, proc[p].mine} THEN {} ELSE {Torn} :
        files' = [files EXCEPT ![proc[p].to] = after]
  BY DEF Write
<1>3. proc[p].to \in Inodes /\ proc[p].mine \in Pins
  BY <1>1 DEF Firm, Rows
<1>4. PICK t : t = [proc[p] EXCEPT !.at = "rename", !.to = None]
  OBVIOUS
<1>5. /\ t \in Rows /\ t.at = "rename" /\ t.tier = proc[p].tier
      /\ t.mine = proc[p].mine /\ t.base = proc[p].base /\ t.found = proc[p].found
  BY <1>1, <1>4 DEF Rows, Stages
<1>6. Firm(p, t)
  BY <1>1, <1>5 DEF Firm, Kept, MeantIn
<1>7. /\ proc' \in [Procs -> Rows] /\ proc'[p] = t /\ \A q \in Procs : Firm(q, proc'[q])
      /\ \A q \in Procs : AloneSaving(q)' => q = p /\ AloneSaving(p)
  BY <1>1, <1>4, <1>5, <1>6, SavingStep DEF Saving
<1>8. /\ files' \in [Inodes -> Pins \cup {Torn}] /\ files'[proc[p].to] = after
      /\ \A i \in Inodes \ {proc[p].to} : files'[i] = files[i]
  BY <1>2, <1>3 DEF PinsWritten
<1>9. SavesItsOwn'
  <2>1. tmpFile' # lockFile'
    BY <1>1 DEF PinsWritten, SavesItsOwn
  <2>2. ASSUME NEW q \in Procs, AloneSaving(q)', tmpFile' # None
        PROVE  q = p /\ files'[tmpFile] = t.mine
    <3>1. q = p /\ AloneSaving(p)
      BY <1>7, <2>2
    <3>2. tmpFile = proc[p].to /\ files[tmpFile] = NoPins
      BY <1>1, <2>2, <3>1 DEF PinsWritten, SavesItsOwn, At
    <3> QED
      BY <1>2, <1>5, <1>8, <3>1, <3>2
  <2>3. ASSUME NEW q \in Procs, AloneSaving(q)', tmpFile' # None
        PROVE  /\ proc'[q].at = "write" => tmpFile' = proc'[q].to /\ files'[tmpFile'] = NoPins
               /\ proc'[q].at = "rename" => files'[tmpFile'] = proc'[q].mine
    BY <1>1, <1>5, <1>7, <2>2, <2>3
  <2> QED
    BY <2>1, <2>3 DEF SavesItsOwn, At
<1>10. PinsWritten'
  BY <1>1, <1>7, <1>8, <1>9 DEF PinsWritten
<1>11. CASE proc[p].to = lockFile
  <2>1. Clashes(p)
    BY <1>1, <1>11 DEF Clashes, Saving, At
  <2> QED
    BY <1>10, <2>1 DEF PinsKept
<1>12. CASE proc[p].to # lockFile
  <2>1. Lock' = Lock
    BY <1>1, <1>8, <1>12 DEF Lock, PinsWritten
  <2> QED
    BY <1>10, <2>1, SameLock
<1> QED
  BY <1>11, <1>12

(* What is renamed into place by somebody alone, who has read what is      *)
(* there, has every pin of it.                                             *)
LEMMA RenameRow ==
    ASSUME PinsWritten, NEW p \in Procs, Rename(p)
    PROVE  PinsWritten' /\ PinsKept
<1>1. proc[p] \in Rows /\ proc[p].at = "rename" /\ Firm(p, proc[p])
  BY DEF Rename, At, PinsWritten
<1>2a. files' \in [Inodes -> Pins \cup {Torn}]
  <2>1. files' = files \/ files' = [files EXCEPT ![lockFile] = NoPins]
    BY DEF Rename
  <2> QED
    BY <2>1, PinsAre DEF PinsWritten
<1>2. PICK t : Become(p, t) /\ t \in Rows /\ t.at \notin {"resolve", "copy", "write", "rename"}
  <2>1. PICK a : a = [proc[p] EXCEPT !.at = "mirror"]
    OBVIOUS
  <2>2. a \in Rows /\ a.at = "mirror"
    BY <1>1, <2>1 DEF Rows, Stages
  <2>3. PICK b : b = [proc[p] EXCEPT !.at = "mirror", !.found = {}]
    OBVIOUS
  <2>4. b \in Rows /\ b.at = "mirror"
    BY <1>1, <2>3 DEF Rows, Stages
  <2>5. Following(p) \in Rows /\ Following(p).at \in {"idle", "load", "use"}
    BY <1>1, FollowingTyped
  <2>6. Become(p, a) \/ Become(p, b) \/ Become(p, Following(p))
    BY <2>1, <2>3 DEF Rename
  <2> QED
    BY <2>2, <2>4, <2>5, <2>6
<1>3. proc' \in [Procs -> Rows] /\ \A q \in Procs : Firm(q, proc'[q])
  BY <1>2, SettledElse, SavingStep
<1>4. lockFile' \in Inodes /\ tmpFile' = None
  BY DEF Rename, PinsWritten
<1>5. PinsWritten'
  <2>1. SavesItsOwn'
    BY <1>4, PinsAre DEF SavesItsOwn
  <2> QED
    BY <1>2a, <1>3, <1>4, <2>1 DEF PinsWritten
<1>6. CASE tmpFile = None
  <2>1. lockFile' = lockFile /\ files' = files
    BY <1>6 DEF Rename
  <2> QED
    BY <1>5, <2>1, SameLock DEF Lock
<1>7. CASE tmpFile # None
  <2> SUFFICES ASSUME NEW r \in Refs, Lock # Torn, Lock[r] # None, Lock' = Torn \/ Lock'[r] # Lock[r],
                      ~Clashes(p), ~Meant(p, r)
               PROVE  FALSE
    BY <1>1, <1>5 DEF PinsKept, Saving
  <2>1. /\ proc[p].base = Lock
        /\ \A q \in Procs \ {p} : ~Saving(q)
    BY <1>1 DEF Clashes, Saving
  <2>2. files[tmpFile] = proc[p].mine
    BY <1>1, <1>7, <2>1 DEF PinsWritten, SavesItsOwn, AloneSaving, Saving, At
  <2>3. Lock' = proc[p].mine
    <3>1. tmpFile \in Inodes /\ tmpFile # lockFile /\ files \in [Inodes -> Pins \cup {Torn}]
      BY <1>7 DEF PinsWritten, SavesItsOwn
    <3>2. lockFile' = tmpFile /\ files' = [files EXCEPT ![lockFile] = NoPins]
      BY <1>7 DEF Rename
    <3> QED
      BY <2>2, <3>1, <3>2 DEF Lock
  <2>4. proc[p].mine[r] = Lock[r]
    BY <1>1, <2>1 DEF Firm, Kept, MeantIn, Meant
  <2>5. proc[p].mine # Torn
    BY <1>1, PinsAre DEF Rows
  <2> QED
    BY <2>3, <2>4, <2>5
<1> QED
  BY <1>6, <1>7

-----------------------------------------------------------------------------
(* PinnedRefs: what is cached, shown and run *)

LEMMA ToldFrame ==
    ASSUME PinsTold, UNCHANGED <<local, upstream, cache, mirror, ran>>,
           count' \in Counts, count'.retags = count.retags
    PROVE  PinsTold'
BY DEF PinsTold, RunsWhole, FilesWhole, Tagged

LEMMA ToldSame ==
    ASSUME PinsTold, NEW p \in Procs,
           Begin(p) \/ Skip(p) \/ Load(p) \/ Open(p) \/ Write(p) \/ Rename(p)
              \/ \E r \in Refs : Keep(p, r)
    PROVE  PinsTold'
<1>1. UNCHANGED <<local, upstream, cache, mirror, ran, count>>
  BY DEF Begin, Skip, Load, Open, Write, Rename, Keep
<1> QED
  BY <1>1, ToldFrame DEF PinsTold

LEMMA ToldCounts ==
    ASSUME PinsTold
    PROVE  /\ \A p \in Procs, r \in Refs : Miss(p, r) => PinsTold'
           /\ \A p \in Procs, rs \in SUBSET Refs, tier \in {"install", "update", "remove"} :
                 Command(p, tier, rs) => PinsTold'
<1>1. ASSUME NEW p \in Procs, NEW r \in Refs, Miss(p, r) PROVE PinsTold'
  <2>1. UNCHANGED <<local, upstream, cache, mirror, ran>> /\ FailureOr(Mismatch(p, r), TRUE)
    BY <1>1 DEF Miss
  <2> QED
    BY <2>1, Counted, ToldFrame DEF PinsTold
<1>2. ASSUME NEW p \in Procs, NEW rs \in SUBSET Refs, NEW tier \in {"install", "update", "remove"},
             Command(p, tier, rs)
      PROVE  PinsTold'
  <2>1. /\ UNCHANGED <<local, upstream, cache, mirror, ran>> /\ count.commands < MaxCommands
        /\ count' = [count EXCEPT !.commands = @ + 1]
    BY <1>2 DEF Command
  <2>2. count' \in Counts /\ count'.retags = count.retags
    BY <2>1, PinnedAssumption DEF PinsTold, Counts
  <2> QED
    BY <2>1, <2>2, ToldFrame
<1> QED
  BY <1>1, <1>2

(* A cached digest that is new, or made whole; a half of a module only.    *)
LEMMA ToldCache ==
    ASSUME PinsTold, UNCHANGED <<local, upstream, mirror, ran, count>>, NEW r \in Refs, NEW d \in Digests,
           NEW how \in {"part", "whole"}, how = "part" => r \in Modules,
           cache' = [cache EXCEPT ![r][d] = how]
    PROVE  PinsTold'
<1>1. /\ cache' \in Caches
      /\ \A x \in Refs, y \in Digests : cache'[x][y] = IF x = r /\ y = d THEN how ELSE cache[x][y]
  <2>1. cache \in Caches /\ cache[r] \in [Digests -> {"no", "part", "whole"}]
    BY DEF PinsTold, Caches
  <2>2. PICK row \in [Digests -> {"no", "part", "whole"}] : row = [cache[r] EXCEPT ![d] = how]
    BY <2>1
  <2>3. row[d] = how /\ \A y \in Digests \ {d} : row[y] = cache[r][y]
    BY <2>1, <2>2
  <2>4. cache' = [cache EXCEPT ![r] = row]
    BY <2>2
  <2>5. cache' \in Caches /\ cache'[r] = row /\ \A x \in Refs \ {r} : cache'[x] = cache[x]
    BY <2>1, <2>4 DEF Caches
  <2> QED
    BY <2>3, <2>5
<1>2. FilesWhole'
  BY <1>1 DEF FilesWhole, PinsTold
<1> QED
  BY <1>1, <1>2 DEF PinsTold, RunsWhole, Tagged

LEMMA MirrorTold ==
    ASSUME PinsTold, PinsWritten, NEW p \in Procs, Mirror(p)
    PROVE  PinsTold'
<1> DEFINE s == proc[p]
           reload == IF s.tier = "modules" THEN s.found # {} ELSE Changed(p)
           after  == IF reload /\ Lock # Torn THEN Lock ELSE s.view
           shown  == IF s.tier = "modules" THEN after ELSE s.mine
<1>1. UNCHANGED <<local, upstream, cache, ran>>
  BY DEF Mirror
<1>2. s.view \in Pins /\ s.mine \in Pins /\ Lock \in Pins \cup {Torn}
  BY LockTyped DEF PinsWritten, Rows
<1>3. shown \in Pins
  BY <1>2
<1>4. /\ \/ mirror' = [r \in Refs |-> IF s.tier \notin {"modules", "files"}
                                          \/ r \notin Tier(p, s.tier) THEN mirror[r]
                                       ELSE IF r \in s.found THEN shown[r] ELSE None]
         \/ UNCHANGED mirror
      /\ UNCHANGED count \/ Failure
  BY DEF Mirror, FailureOr
<1> HIDE DEF s, shown, after, reload
<1>5. mirror' \in [Refs -> {None} \cup Digests]
  BY <1>3, <1>4, PinsAre DEF PinsTold
<1>6. count' \in Counts /\ count'.retags = count.retags
  BY <1>4, Counted DEF PinsTold
<1> QED
  BY <1>1, <1>5, <1>6 DEF PinsTold, RunsWhole, FilesWhole, Tagged

LEMMA RunTold ==
    ASSUME PinsTold, PinsWritten, NEW p \in Procs, Run(p)
    PROVE  PinsTold'
<1> DEFINE view == proc[p].view
           use(r) == [ref |-> r, digest |-> view[r],
                      whole |-> ~Cached(r, view[r]) \/ cache[r][view[r]] = "whole"]
<1>1. UNCHANGED <<local, upstream, cache, mirror, count>> /\ view \in Pins
  BY DEF Run, PinsWritten, Rows
<1>2. PICK now : /\ ran' = [ran EXCEPT ![p] = now]
                 /\ now = IF Dirs[p] = {} /\ \A r \in Wants[p] : view[r] # None
                                                  /\ (Cached(r, view[r]) \/ view[r] = upstream[r])
                          THEN {use(r) : r \in Wants[p]} ELSE {}
  BY DEF Run
<1>3. ASSUME NEW r \in Wants[p], view[r] # None
      PROVE  use(r) \in Uses /\ (use(r).whole \/ use(r).ref \in Modules)
  <2>1. r \in Refs /\ view[r] \in Digests
    BY <1>1, <1>3, PinsAre
  <2>2. use(r) \in Uses
    BY <2>1 DEF Uses
  <2>3. r \in Modules \/ ~Cached(r, view[r]) \/ cache[r][view[r]] = "whole"
    BY <2>1 DEF PinsTold, FilesWhole, Caches, Cached
  <2> QED
    BY <2>2, <2>3
<1>4. \A u \in now : u \in Uses /\ (u.whole \/ u.ref \in Modules)
  BY <1>2, <1>3
<1>5. ran' \in [Procs -> SUBSET Uses] /\ ran'[p] = now /\ \A q \in Procs \ {p} : ran'[q] = ran[q]
  BY <1>2, <1>4 DEF PinsTold
<1>6. RunsWhole'
  BY <1>4, <1>5 DEF RunsWhole, PinsTold
<1> QED
  BY <1>1, <1>5, <1>6 DEF PinsTold, FilesWhole, Tagged

LEMMA RetagTold ==
    ASSUME PinsTold, NEW r \in Refs, Retag(r)
    PROVE  PinsTold'
<1>1. /\ count.retags < MaxRetags /\ count' = [count EXCEPT !.retags = @ + 1]
      /\ upstream' = [upstream EXCEPT ![r] = @ + 1] /\ UNCHANGED <<local, cache, mirror, ran>>
  BY DEF Retag
<1>2. count \in Counts /\ upstream \in [Refs -> Digests] /\ upstream[r] =< count.retags + 1
      /\ MaxRetags \in Nat /\ count.retags \in 0 .. MaxRetags
  BY PinnedAssumption DEF PinsTold, Tagged, Counts
<1>3. count' \in Counts /\ count'.retags = count.retags + 1
  BY <1>1, <1>2 DEF Counts
<1>4. upstream[r] \in Digests /\ upstream[r] + 1 \in Digests
  BY <1>1, <1>2 DEF Digests
<1>5. upstream' \in [Refs -> Digests] /\ \A x \in Refs : upstream'[x] \in {upstream[x], upstream[x] + 1}
                                       /\ (x # r => upstream'[x] = upstream[x])
  BY <1>1, <1>2, <1>4
<1>6. Tagged'
  BY <1>2, <1>3, <1>5 DEF PinsTold, Tagged, Digests
<1> QED
  BY <1>1, <1>3, <1>5, <1>6 DEF PinsTold, RunsWhole, FilesWhole

LEMMA CrashSafe ==
    ASSUME PinsTold, PinsWritten, Crash
    PROVE  PinsTold' /\ PinsWritten' /\ Lock' = Lock
<1>1. /\ Failure /\ proc' = [p \in Procs |-> Resting] /\ ran' = [p \in Procs |-> {}]
      /\ UNCHANGED <<local, upstream, files, lockFile, tmpFile, cache, mirror>>
  BY DEF Crash
<1>2. PinsTold'
  <2>1. count' \in Counts /\ count'.retags = count.retags
    BY <1>1, Counted DEF PinsTold
  <2> QED
    BY <1>1, <2>1 DEF PinsTold, RunsWhole, FilesWhole, Tagged
<1>3. \A p \in Procs : proc'[p] = Resting /\ ~Saving(p)'
  BY <1>1, RestingTyped DEF Saving
<1>4. PinsWritten'
  BY <1>1, <1>3, RestingTyped, SettledElse DEF PinsWritten, SavesItsOwn, AloneSaving
<1> QED
  BY <1>1, <1>2, <1>4 DEF Lock

-----------------------------------------------------------------------------
(* PinnedRefs: the invariant, and what a pin is worth *)

LEMMA PinsInit ==
    ASSUME PinnedInit PROVE PinsTold /\ PinsWritten
<1>1. MaxRetags \in Nat /\ MaxFailures \in Nat /\ MaxCommands \in Nat /\ Cardinality(Procs) \in Nat
  BY PinnedAssumption, FS_CardinalityType
<1>2. 1 \in Digests /\ 1 \in Inodes
  BY <1>1 DEF Digests, Inodes
<1>3. count \in Counts /\ count.retags = 0
  BY <1>1 DEF PinnedInit, Counts
<1>4. PinsTold
  BY <1>2, <1>3 DEF PinnedInit, PinsTold, RunsWhole, FilesWhole, Tagged, Caches
<1>5. files \in [Inodes -> Pins \cup {Torn}] /\ lockFile = 1 /\ tmpFile = None
  BY PinsAre DEF PinnedInit
<1>6. \A p \in Procs : proc[p] = Resting /\ Firm(p, proc[p])
  BY RestingTyped, SettledElse DEF PinnedInit
<1>7. proc \in [Procs -> Rows]
  BY RestingTyped DEF PinnedInit
<1>8. SavesItsOwn
  BY <1>5, <1>6, RestingTyped DEF SavesItsOwn, AloneSaving, Saving, None
<1> QED
  BY <1>2, <1>4, <1>5, <1>6, <1>7, <1>8 DEF PinsWritten

LEMMA PinsStep ==
    ASSUME PinsTold, PinsWritten, [PinnedNext]_pinnedVars
    PROVE  PinsTold' /\ PinsWritten' /\ PinsKept
<1>1. ASSUME NEW p \in Procs, Begin(p) PROVE PinsTold' /\ PinsWritten' /\ PinsKept
  BY <1>1, BeginRow, ToldSame, SameLock
<1>2. ASSUME NEW p \in Procs, Skip(p) PROVE PinsTold' /\ PinsWritten' /\ PinsKept
  BY <1>2, FollowRow, ToldSame, SameLock
<1>3. ASSUME NEW p \in Procs, Load(p) PROVE PinsTold' /\ PinsWritten' /\ PinsKept
  BY <1>3, LoadRow, ToldSame, SameLock
<1>4. ASSUME NEW p \in Procs, NEW r \in Refs, Keep(p, r) PROVE PinsTold' /\ PinsWritten' /\ PinsKept
  BY <1>4, KeepRow, ToldSame, SameLock
<1>5. ASSUME NEW p \in Procs, NEW r \in Refs, Miss(p, r) PROVE PinsTold' /\ PinsWritten' /\ PinsKept
  BY <1>5, KeepRow, ToldCounts, SameLock
<1>6. ASSUME NEW p \in Procs, NEW r \in Refs, Fetch(p, r) PROVE PinsTold' /\ PinsWritten' /\ PinsKept
  <2>1. /\ UNCHANGED <<local, upstream, mirror, ran, count>> /\ upstream[r] \in Digests
        /\ cache' = [cache EXCEPT ![r][upstream[r]] = "whole"]
    BY <1>6 DEF Fetch, PinsTold
  <2>2. PinsTold'
    BY <2>1, ToldCache
  <2> QED
    BY <1>6, <2>2, FetchRow, SameLock
<1>7. ASSUME NEW p \in Procs, NEW r \in Refs, StartCopy(p, r) PROVE PinsTold' /\ PinsWritten' /\ PinsKept
  <2>1. /\ UNCHANGED <<local, upstream, mirror, ran, count>> /\ upstream[r] \in Digests
        /\ cache' = [cache EXCEPT ![r][upstream[r]] = "part"] /\ r \in Modules
    BY <1>7 DEF StartCopy, PinsTold, Atomic
  <2>2. PinsTold'
    BY <2>1, ToldCache
  <2> QED
    BY <1>7, <2>2, CopyRow, SameLock
<1>8. ASSUME NEW p \in Procs, EndCopy(p) PROVE PinsTold' /\ PinsWritten' /\ PinsKept
  <2>1. /\ PinsWritten' /\ Lock' = Lock /\ proc[p].ref \in Refs /\ proc[p].to \in Digests
        /\ UNCHANGED <<local, upstream, mirror, ran, count>>
    BY <1>8, EndCopyRow, PinsAre DEF EndCopy
  <2>2. cache' = cache \/ cache' = [cache EXCEPT ![proc[p].ref][proc[p].to] = "whole"]
    BY <1>8 DEF EndCopy
  <2>3. CASE cache' = cache
    BY <2>1, <2>3, ToldFrame, SameLock DEF PinsTold
  <2>4. CASE cache' = [cache EXCEPT ![proc[p].ref][proc[p].to] = "whole"]
    BY <2>1, <2>4, ToldCache, SameLock
  <2> QED
    BY <2>2, <2>3, <2>4
<1>9. ASSUME NEW p \in Procs, Open(p) PROVE PinsTold' /\ PinsWritten' /\ PinsKept
  BY <1>9, OpenRow, ToldSame, SameLock
<1>10. ASSUME NEW p \in Procs, Write(p) PROVE PinsTold' /\ PinsWritten' /\ PinsKept
  BY <1>10, WriteRow, ToldSame
<1>11. ASSUME NEW p \in Procs, Rename(p) PROVE PinsTold' /\ PinsWritten' /\ PinsKept
  BY <1>11, RenameRow, ToldSame
<1>12. ASSUME NEW p \in Procs, Mirror(p) PROVE PinsTold' /\ PinsWritten' /\ PinsKept
  BY <1>12, FollowRow, MirrorTold, SameLock
<1>13. ASSUME NEW p \in Procs, Run(p) PROVE PinsTold' /\ PinsWritten' /\ PinsKept
  BY <1>13, FollowRow, RunTold, SameLock
<1>14. ASSUME NEW p \in Procs, NEW rs \in SUBSET Refs, NEW tier \in {"install", "update", "remove"},
              Command(p, tier, rs)
       PROVE  PinsTold' /\ PinsWritten' /\ PinsKept
  BY <1>14, CommandRow, ToldCounts, SameLock
<1>15. ASSUME NEW r \in Refs, Retag(r) PROVE PinsTold' /\ PinsWritten' /\ PinsKept
  <2>1. UNCHANGED <<files, lockFile, tmpFile, proc>>
    BY <1>15 DEF Retag
  <2>2. PinsWritten' /\ Lock' = Lock
    BY <2>1 DEF PinsWritten, SavesItsOwn, AloneSaving, Saving, At, Lock
  <2> QED
    BY <1>15, <2>2, RetagTold, SameLock
<1>16. CASE Crash
  BY <1>16, CrashSafe, SameLock
<1>17. CASE UNCHANGED pinnedVars
  <2>1. PinsTold'
    BY <1>17, ToldFrame DEF PinsTold, pinnedVars
  <2>2. PinsWritten' /\ Lock' = Lock
    BY <1>17 DEF PinsWritten, SavesItsOwn, AloneSaving, Saving, At, Lock, pinnedVars
  <2> QED
    BY <2>1, <2>2, SameLock
<1> QED
  BY <1>1, <1>2, <1>3, <1>4, <1>5, <1>6, <1>7, <1>8, <1>9, <1>10, <1>11, <1>12, <1>13, <1>14,
     <1>15, <1>16, <1>17 DEF PinnedNext, Step

(* For every number of reconciliations, references, fetches and crashes:   *)
(* no file is cached by halves or run so; and who saves hyve.lock while    *)
(* nobody else does renames what he has written himself, with everything   *)
(* in it that he had read.                                                 *)
THEOREM PinsInvariant == PinnedSpec => []PinInv
<1>1. PinnedInit => PinsTold /\ PinsWritten
  BY PinsInit
<1>2. PinsTold /\ PinsWritten /\ [PinnedNext]_pinnedVars => PinsTold' /\ PinsWritten'
  BY PinsStep
<1>3. PinsTold /\ PinsWritten => PinInv
  BY PinInvIs
<1> QED
  BY <1>1, <1>2, <1>3, PTL DEF PinnedSpec

(* A pin is changed or lost only by a command that is for it, by a         *)
(* definition that refers to the file through its directory, or by a save  *)
(* that clashes with another.                                              *)
THEOREM PinsStay == PinnedSpec => PinsHold
<1>1. PinInv /\ [PinnedNext]_pinnedVars => PinsKept
  BY PinsStep, PinInvIs
<1>2. PinsKept =>
        [\A r \in Refs :
           Lock # Torn /\ Lock[r] # None /\ (Lock' = Torn \/ Lock'[r] # Lock[r])
              => \E p \in Procs : Clashes(p) \/ (Saving(p) /\ Meant(p, r))]_pinnedVars
  BY DEF PinsKept
<1> QED
  BY <1>1, <1>2, PinsInvariant, PTL DEF PinnedSpec, PinsHold

=============================================================================
