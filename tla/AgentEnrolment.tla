--------------------------- MODULE AgentEnrolment ---------------------------
(***************************************************************************)
(* How one cluster's hyve-agent gets the identity its tunnel needs: the    *)
(* install pass of the controller (internal/reconcile/agent.go), the       *)
(* Deployment it applies to the target cluster, the agent pods' bootstrap  *)
(* (internal/agent/bootstrap.go), and the API server's redemption of       *)
(* single-use tokens (internal/agentpki/bootstrap.go).  A certificate is   *)
(* named by the token it was issued for, and so is a Deployment's template. *)
(***************************************************************************)
EXTENDS Naturals

CONSTANTS
    Namespaces,  \* namespaces an identity may be issued for
    Images,      \* stands for the other inputs of agentConfigHash
    Off,         \* spec.access.agent.enabled is false, or nothing is installed
    Pods,        \* agent pods the Deployment may run side by side
    NoPod,       \* the sender of a bootstrap call that is no longer there
    Hazards,     \* which of AllHazards may happen
    MaxTokens,   \* bound on install passes
    MaxEdits,    \* bound on changes of the configuration
    MaxFaults    \* bound on failed steps, restarts and drops

AllHazards == {"identityLost", "tokenExpires", "certExpires", "reverted"}

ASSUME EnrolmentAssumption ==
    /\ Off \notin [ns : Namespaces, image : Images]
    /\ NoPod \notin Pods
    /\ Hazards \subseteq AllHazards
    /\ MaxTokens \in Nat /\ MaxEdits \in Nat /\ MaxFaults \in Nat

VARIABLES
    want,     \* the configuration the definition and the controller ask for
    applied,  \* status.appliedAgent: the configuration last recorded
    pass,     \* the install pass in flight
    touched,  \* history: a pass changed the target since the last Save
    minted,   \* tokens minted so far, numbered in that order
    config,   \* per token: the configuration it was minted for
    live,     \* tokens whose Secret exists on the control plane
    stale,    \* tokens past BootstrapTokenTTL
    calls,    \* POST /agent/bootstrap handlers in flight
    issued,   \* history: per token, how many certificates were signed for it
    raced,    \* history: tokens that two handlers held at once
    expired,  \* certificates past AgentCertTTL
    deploy,   \* the token in the Deployment's template, 0 for no Deployment
    pods,     \* the agent pods
    secret,   \* the certificate in the hyve-agent-cert Secret, 0 for none
    excuse,   \* history: which of AllHazards have happened
    edits, faults

controllerVars == <<want, applied, pass, touched, minted, config, edits>>
serverVars == <<live, stale, calls, issued, raced, expired>>
targetVars == <<deploy, pods, secret>>
vars == <<controllerVars, serverVars, targetVars, excuse, faults>>

Configs == [ns : Namespaces, image : Images]
Tokens  == 1..MaxTokens
Calls   == [token : 0..MaxTokens, stage : {"get", "delete"}, pod : Pods \cup {NoPod}]
PodPcs  == {"none", "load", "wait", "persist", "run", "online"}
Idle    == [at |-> "idle", config |-> Off]
NoAgent == [pc |-> "none", token |-> 0, id |-> 0]

Fault == faults < MaxFaults /\ faults' = faults + 1
Hazard(h) == h \in Hazards /\ excuse' = excuse \cup {h}

Init ==
    /\ want = Off /\ applied = Off /\ pass = Idle /\ touched = FALSE
    /\ minted = 0 /\ config = [t \in Tokens |-> Off]
    /\ live = {} /\ stale = {} /\ calls = {} /\ expired = {}
    /\ issued = [t \in Tokens |-> 0] /\ raced = {}
    /\ deploy = 0 /\ pods = [p \in Pods |-> NoAgent] /\ secret = 0
    /\ excuse = {} /\ edits = 0 /\ faults = 0

-----------------------------------------------------------------------------
(* The definition's spec.access.agent, and the controller's own settings.  *)

(* A pass has changed the target, or will, with nothing recorded of it.    *)
Unrecorded == touched \/ pass.at # "idle"

Configure ==
    /\ edits < MaxEdits /\ edits' = edits + 1
    /\ \E c \in Configs \cup {Off} :
         /\ c # want
         /\ want' = c
         /\ IF c = applied /\ Unrecorded THEN Hazard("reverted") ELSE UNCHANGED excuse
    /\ UNCHANGED <<applied, pass, touched, minted, config, serverVars, targetVars, faults>>

-----------------------------------------------------------------------------
(* reconcileAgent.                                                         *)

(* Nothing to do while the recorded configuration is the one asked for.    *)
UpToDate == applied = want

Mint ==
    /\ pass.at = "idle" /\ want # Off /\ ~UpToDate
    /\ minted < MaxTokens /\ minted' = minted + 1
    /\ config' = [config EXCEPT ![minted + 1] = want]
    /\ live' = live \cup {minted + 1}
    /\ pass' = [at |-> "clear", config |-> want]
    /\ UNCHANGED <<want, applied, touched, edits, stale, calls, issued, raced, expired,
                   targetVars, excuse, faults>>

(* The saved identity is dropped before the new manifest is applied.       *)
Clear ==
    /\ pass.at = "clear"
    /\ secret' = 0
    /\ pass' = [pass EXCEPT !.at = "apply"]
    /\ touched' = TRUE
    /\ UNCHANGED <<want, applied, minted, config, edits, serverVars, deploy, pods,
                   excuse, faults>>

Apply ==
    /\ pass.at = "apply"
    /\ deploy' = minted
    /\ pass' = [pass EXCEPT !.at = "save"]
    /\ UNCHANGED <<want, applied, touched, minted, config, edits, serverVars, pods, secret,
                   excuse, faults>>

(* enabled went to false: the Deployment is deleted, the Secret is not.    *)
Remove ==
    /\ pass.at = "idle" /\ want = Off /\ ~UpToDate
    /\ deploy' = 0
    /\ pass' = [at |-> "save", config |-> Off]
    /\ touched' = TRUE
    /\ UNCHANGED <<want, applied, minted, config, edits, serverVars, pods, secret,
                   excuse, faults>>

(* Mutant of Record: the pass records what the definition says by now.     *)
RecordWanted == want

Record == pass.config

Save ==
    /\ pass.at = "save"
    /\ applied' = Record
    /\ pass' = Idle
    /\ touched' = FALSE
    /\ UNCHANGED <<want, minted, config, edits, serverVars, targetVars, excuse,
                   faults>>

(* A step of the pass fails or the controller dies: the next pass starts   *)
(* from what the definition records.                                       *)
Abandon ==
    /\ pass.at # "idle" /\ Fault
    /\ pass' = Idle
    /\ UNCHANGED <<want, applied, touched, minted, config, edits, serverVars, targetVars,
                   excuse>>

-----------------------------------------------------------------------------
(* The Deployment on the target cluster: one replica, rolling update.      *)

StartPod(p) ==
    /\ deploy # 0 /\ pods[p].pc = "none"
    /\ \A q \in Pods : pods[q].token # deploy
    /\ pods' = [pods EXCEPT ![p] = [pc |-> "load", token |-> deploy, id |-> 0]]
    /\ UNCHANGED <<controllerVars, serverVars, deploy, secret, excuse, faults>>

(* A call whose sender has gone runs on; the orphans of one token at one   *)
(* stage count once.                                                       *)
Orphaned(p) == {IF k.pod = p THEN [k EXCEPT !.pod = NoPod] ELSE k : k \in calls}

(* The pod of an older template goes, as long as another one is running.   *)
StopPod(p) ==
    /\ pods[p].pc # "none" /\ pods[p].token # deploy
    /\ deploy # 0 => \E q \in Pods \ {p} : pods[q].pc # "none"
    /\ pods' = [pods EXCEPT ![p] = NoAgent]
    /\ calls' = Orphaned(p)
    /\ UNCHANGED <<controllerVars, live, stale, issued, raced, expired, deploy, secret,
                   excuse, faults>>

Restart(p) ==
    /\ pods[p].pc # "none" /\ Fault
    /\ IF pods[p].pc \in {"wait", "persist"} THEN Hazard("identityLost")
                                             ELSE UNCHANGED excuse
    /\ pods' = [pods EXCEPT ![p].pc = "load", ![p].id = 0]
    /\ calls' = Orphaned(p)
    /\ UNCHANGED <<controllerVars, live, stale, issued, raced, expired, deploy, secret>>

-----------------------------------------------------------------------------
(* LoadOrBootstrapIdentity, then Run.                                      *)

LoadSaved(p) ==
    /\ pods[p].pc = "load" /\ secret # 0
    /\ pods' = [pods EXCEPT ![p].pc = "run", ![p].id = secret]
    /\ UNCHANGED <<controllerVars, serverVars, deploy, secret, excuse, faults>>

Bootstrap(p) ==
    /\ pods[p].pc = "load" /\ secret = 0
    /\ pods' = [pods EXCEPT ![p].pc = "wait"]
    /\ calls' = calls \cup {[token |-> pods[p].token, stage |-> "get", pod |-> p]}
    /\ UNCHANGED <<controllerVars, live, stale, issued, raced, expired, deploy, secret,
                   excuse, faults>>

(* Creating the Secret; AlreadyExists ends the process, which starts over. *)
Persist(p) ==
    /\ pods[p].pc = "persist"
    /\ IF secret = 0
       THEN /\ secret' = pods[p].id
            /\ pods' = [pods EXCEPT ![p].pc = "run"]
       ELSE /\ pods' = [pods EXCEPT ![p].pc = "load", ![p].id = 0]
            /\ UNCHANGED secret
    /\ UNCHANGED <<controllerVars, serverVars, deploy, excuse, faults>>

(* The handshake needs a certificate that is still valid.                  *)
Connect(p) ==
    /\ pods[p].pc = "run" /\ pods[p].id \notin expired
    /\ pods' = [pods EXCEPT ![p].pc = "online"]
    /\ UNCHANGED <<controllerVars, serverVars, deploy, secret, excuse, faults>>

Drop(p) ==
    /\ pods[p].pc = "online" /\ Fault
    /\ pods' = [pods EXCEPT ![p].pc = "run"]
    /\ UNCHANGED <<controllerVars, serverVars, deploy, secret, excuse>>

-----------------------------------------------------------------------------
(* handleAgentBootstrap around ValidateAndConsumeBootstrapToken.           *)

Answer(k, pc, id) ==
    pods' = IF k.pod = NoPod THEN pods
            ELSE [pods EXCEPT ![k.pod].pc = pc, ![k.pod].id = id]

(* Mutant of Refuse: the agent goes on waiting for its answer.             *)
RefuseUnheard(k) ==
    /\ calls' = calls \ {k}
    /\ UNCHANGED pods

(* A refusal makes the agent exit and start over.                          *)
Refuse(k) ==
    /\ calls' = calls \ {k}
    /\ Answer(k, "load", 0)

Held(t) == \E k \in calls : k.token = t /\ k.stage = "delete"

Get(k) ==
    /\ k.stage = "get"
    /\ \/ /\ k.token \in live
          /\ calls' = (calls \ {k}) \cup {[k EXCEPT !.stage = "delete"]}
          /\ raced' = IF Held(k.token) THEN raced \cup {k.token} ELSE raced
          /\ UNCHANGED pods
       \/ k.token \notin live /\ Refuse(k) /\ UNCHANGED raced
    /\ UNCHANGED <<controllerVars, live, stale, issued, expired, deploy, secret, excuse,
                   faults>>

(* Mutant of Consumed: the token outlives its first use.                   *)
NotConsumed(t) == {}

Consumed(t) == {t}

(* The token goes before its age is looked at; a missing one is no error.  *)
Delete(k) ==
    /\ k.stage = "delete"
    /\ live' = live \ Consumed(k.token)
    /\ \/ /\ k.token \in stale
          /\ Refuse(k) /\ UNCHANGED issued
       \/ /\ k.token \notin stale
          /\ issued' = [issued EXCEPT ![k.token] = @ + 1]
          /\ calls' = calls \ {k}
          /\ Answer(k, "persist", k.token)
    /\ UNCHANGED <<controllerVars, stale, raced, expired, deploy, secret, excuse, faults>>

DeleteFails(k) ==
    /\ k.stage = "delete" /\ Fault
    /\ Refuse(k)
    /\ UNCHANGED <<controllerVars, live, stale, issued, raced, expired, deploy, secret,
                   excuse>>

TokenExpires ==
    /\ Hazard("tokenExpires")
    /\ \E t \in live \ stale : stale' = stale \cup {t}
    /\ UNCHANGED <<controllerVars, live, calls, issued, raced, expired, targetVars, faults>>

CertExpires ==
    /\ Hazard("certExpires")
    /\ \E t \in Tokens \ expired : issued[t] > 0 /\ expired' = expired \cup {t}
    /\ UNCHANGED <<controllerVars, live, stale, calls, issued, raced, targetVars, faults>>

-----------------------------------------------------------------------------
Controller == Mint \/ Clear \/ Apply \/ Remove \/ Save
Kubelet(p) == StartPod(p) \/ StopPod(p)
Agent(p)   == LoadSaved(p) \/ Bootstrap(p) \/ Persist(p) \/ Connect(p)
Serve(k)   == Get(k) \/ Delete(k)

Next ==
    \/ Configure \/ Controller \/ Abandon
    \/ \E p \in Pods : Kubelet(p) \/ Agent(p) \/ Restart(p) \/ Drop(p)
    \/ \E k \in calls : Serve(k) \/ DeleteFails(k)
    \/ TokenExpires \/ CertExpires

Spec == Init /\ [][Next]_vars

(* The controller re-runs its passes, the target cluster's controllers     *)
(* run, agents and handlers take their steps.                              *)
FairSpec ==
    /\ Spec /\ WF_vars(Controller)
    /\ \A p \in Pods : WF_vars(Kubelet(p)) /\ WF_vars(Agent(p))
    /\ WF_vars(\E k \in calls : Serve(k))

-----------------------------------------------------------------------------
TypeOK ==
    /\ want \in Configs \cup {Off} /\ touched \in BOOLEAN
    /\ applied \in Configs \cup {Off}
    /\ pass \in [at : {"idle", "clear", "apply", "save"}, config : Configs \cup {Off}]
    /\ minted \in 0..MaxTokens /\ config \in [Tokens -> Configs \cup {Off}]
    /\ live \subseteq Tokens /\ stale \subseteq Tokens /\ calls \subseteq Calls
    /\ issued \in [Tokens -> Nat] /\ raced \subseteq Tokens /\ expired \subseteq Tokens
    /\ deploy \in 0..MaxTokens /\ secret \in 0..MaxTokens
    /\ pods \in [Pods -> [pc : PodPcs, token : 0..MaxTokens, id : 0..MaxTokens]]
    /\ excuse \subseteq AllHazards /\ edits \in Nat /\ faults \in Nat

(* ValidateAndConsumeBootstrapToken: a token yields one certificate, unless *)
(* a second call read it before the first had deleted it.                  *)
OneCertificate == \A t \in Tokens : issued[t] > 1 => t \in raced

(* The tokens behind OneCertificate, as an invariant that is inductive: a  *)
(* token no two handlers held is held by one at most, and by none once its *)
(* certificate is signed; what is live has not been redeemed.              *)
HeldAtMostOnce ==
    \A j, k \in calls :
        /\ j.stage = "delete" /\ k.stage = "delete"
        /\ j.token = k.token /\ j.token \notin raced
        => j = k

HeldUnused ==
    \A k \in calls : k.stage = "delete" =>
        /\ k.token \in Tokens /\ k.token <= minted
        /\ k.token \notin raced => issued[k.token] = 0

LiveUnused == \A t \in live : t <= minted /\ issued[t] = 0

IssuedMinted == \A t \in Tokens : issued[t] > 0 => t <= minted

EnrolInv ==
    /\ TypeOK /\ HeldAtMostOnce /\ HeldUnused /\ LiveUnused /\ IssuedMinted
    /\ OneCertificate

(* An agent that is recorded as installed still has a way to an identity:  *)
(* its token, a bootstrap under way, or the saved one.                     *)
Recoverable ==
    \/ secret # 0
    \/ deploy \in live
    \/ \E k \in calls : k.token = deploy /\ k.stage = "delete"
    \/ \E p \in Pods : pods[p].token = deploy /\ pods[p].pc = "persist"

NeverStranded ==
    pass.at = "idle" /\ want # Off /\ UpToDate =>
        \/ deploy # 0 /\ config[deploy] = applied /\ Recoverable
        \/ excuse \cap {"identityLost", "tokenExpires", "reverted"} # {}

(* Where the identity of the Deployment's pods is, unless a restart lost   *)
(* it or its token grew too old.                                           *)
Lost == excuse \cap {"identityLost", "tokenExpires"} # {}

Stored ==
    \/ secret # 0
    \/ deploy \in live
    \/ \E p \in Pods : pods[p].token = deploy /\ pods[p].pc = "persist"

(* The target has the Deployment of configuration c, and a way for it to   *)
(* an identity.                                                            *)
Installed(c) == deploy # 0 /\ config[deploy] = c /\ (Stored \/ Lost)

(* A call's sender waits for it; a call nobody waits for is of an older    *)
(* Deployment.                                                             *)
CallersWait ==
    \A k \in calls :
        /\ k.pod \in Pods =>
             /\ pods[k.pod].pc = "wait" /\ k.token = pods[k.pod].token
             /\ \A j \in calls : j.pod = k.pod => j = k
        /\ k.pod = NoPod /\ k.token = deploy => deploy = 0 \/ Lost

PodsInOrder ==
    /\ \A p, q \in Pods : deploy # 0 /\ pods[p].token = deploy /\ pods[q].token = deploy => p = q
    /\ \A p \in Pods : pods[p].pc = "persist" => pods[p].id # 0
    /\ stale # {} => Lost

(* A token that is being redeemed by the Deployment's own pod still exists.*)
HeldLive == \A k \in calls : k.stage = "delete" /\ k.token = deploy => deploy \in live \/ Lost

(* Tokens are new to the target until the manifest that has them is there. *)
TokensInOrder ==
    /\ deploy <= minted /\ \A p \in Pods : pods[p].token <= minted
    /\ \A k \in calls : k.token <= minted
    /\ pass.at \in {"clear", "apply"} =>
         /\ minted \in live /\ config[minted] = pass.config /\ deploy < minted
         /\ \A p \in Pods : pods[p].token < minted
         /\ \A k \in calls : k.token < minted

(* What the pass, and what the definition, say of the target.              *)
PassKnows ==
    /\ ~touched => pass.at \in {"idle", "clear"}
    /\ ~touched /\ applied # Off => Installed(applied)
    /\ pass.at = "save" /\ pass.config # Off => Installed(pass.config)
    /\ Unrecorded /\ UpToDate => "reverted" \in excuse

(* The inductive invariant behind NeverStranded.                           *)
IdentityInv == CallersWait /\ PodsInOrder /\ HeldLive /\ TokensInOrder /\ PassKnows

(* Run's promise to reconnect on any drop: an agent that stays wanted ends *)
(* up connected for good.                                                  *)
StaysConnected ==
    \A c \in Configs : <>[](want = c /\ excuse = {}) => <>[](\E p \in Pods : pods[p].pc = "online")

-----------------------------------------------------------------------------
(* Statements of comments that the code does not live up to.               *)

AtRest == pass.at = "idle" /\ UpToDate /\ calls = {}
          /\ \A p \in Pods : pods[p].pc \in {"none", "load", "run", "online"}

(* The comment in reconcileAgent: an agent installed has its identity      *)
(* saved on the target cluster.                                            *)
InstalledHasIdentity ==
    AtRest /\ want # Off /\ deploy # 0 /\ deploy \notin live => secret # 0

(* AppliedAgent: what hyve believes is installed, is.                      *)
AppliedIsInstalled ==
    AtRest /\ want # Off => deploy # 0 /\ config[deploy] = applied

(* The comment in reconcileAgent: the new token replaces an identity       *)
(* issued for the wrong namespace.                                         *)
IdentityOfNamespace ==
    AtRest /\ want # Off /\ secret # 0 => config[secret].ns = want.ns
=============================================================================
