---------------------- MODULE TunnelAndHandoverProofs -----------------------
(***************************************************************************)
(* What AgentTunnel keeps of its registry and of the reported status, and  *)
(* what ControllerHandover keeps of an organization that changes its       *)
(* reconciling cluster: for every number of pods, connections, clusters,   *)
(* organizations, moves and faults.  One invariant carries each, TunnelInv *)
(* and HandoverInv, shown inductive action by action.                      *)
(***************************************************************************)
EXTENDS AgentTunnel, ControllerHandover, TLAPS

(* Connections are numbered from 1: no connection is the empty entry.      *)
LEMMA NoConnIsZero ==
    0 \notin Conns /\ 0 \in 0..MaxConns /\ Conns \subseteq 0..MaxConns
BY TunnelAssumption DEF Conns

LEMMA FaultCounts == faults \in Nat /\ Fault => faults' \in Nat
BY DEF Fault

LEMMA InitInv == Init => TunnelInv
<1> SUFFICES ASSUME Init PROVE TunnelInv
  OBVIOUS
<1> USE DEF Init
<1>1. TypeOK
  <2>1. 1 \in Versions /\ 0 \in 0..MaxVersion
    BY TunnelAssumption DEF Versions
  <2>2. conn \in [Conns -> [agent : Agents, version : Versions, heard : Heard]]
    <3>1. {1} \subseteq Versions /\ {"nothing"} \subseteq Heard
      BY <2>1 DEF Heard
    <3> QED
      BY <3>1
  <2> QED
    BY <2>1, <2>2, NoConnIsZero DEF TypeOK, Handlers
<1>2. RegistryHoldsLatest
  BY NoConnIsZero DEF RegistryHoldsLatest, Serving
<1>3. SupersededStaysSilent /\ StatusTrueUnlessExcused
  BY DEF SupersededStaysSilent, StatusTrueUnlessExcused
<1>4. OneAtATime /\ SupersededServed /\ ClosingStillShown
  BY DEF OneAtATime, SupersededServed, ClosingStillShown, Active
<1> QED
  BY <1>1, <1>2, <1>3, <1>4 DEF TunnelInv

(* Types: one step for the agents' side, one per action of the handlers.   *)
LEMMA StepTypes == TypeOK /\ [Next]_vars => TypeOK'
<1> SUFFICES ASSUME TypeOK, [Next]_vars PROVE TypeOK'
  OBVIOUS
<1> USE TunnelAssumption, NoConnIsZero, FaultCounts DEF TypeOK, Heard, Handlers
<1> USE DEF agentVars, networkVars, serverVars, history
<1>1. ASSUME NEW a \in Agents, AgentStart(a) PROVE TypeOK'
  BY <1>1 DEF AgentStart
<1>2. ASSUME NEW a \in Agents, AgentStop(a) PROVE TypeOK'
  <2>1. session' \in [Agents -> 0..MaxConns]
    BY <1>2 DEF AgentStop
  <2> QED
    BY <1>2, <2>1 DEF AgentStop
<1>3. ASSUME NEW a \in Agents, Dial(a) PROVE TypeOK'
  BY <1>3 DEF Dial
<1>4. ASSUME NEW a \in Agents, AgentNotices(a) PROVE TypeOK'
  BY <1>4 DEF AgentNotices
<1>5. CASE Drop
  BY <1>5 DEF Drop
<1>6. ASSUME NEW c \in Conns, HeartbeatWithToken(c) \/ HeartbeatWithoutToken(c)
      PROVE TypeOK'
  <2>1. ASSUME NEW heard \in Heard, Heartbeat(c, heard)
        PROVE conn' \in [Conns -> [agent : Agents, version : Versions, heard : Heard]]
    BY <2>1 DEF Heartbeat
  <2>2. CASE HeartbeatWithToken(c)
    BY <2>1, <2>2 DEF HeartbeatWithToken, Heartbeat
  <2>3. CASE HeartbeatWithoutToken(c)
    BY <2>1, <2>3 DEF HeartbeatWithoutToken, Heartbeat
  <2> QED
    BY <1>6, <2>2, <2>3
<1>7. ASSUME NEW c \in Conns, HandshakeFails(c) PROVE TypeOK'
  BY <1>7 DEF HandshakeFails
<1>8. ASSUME NEW c \in Conns, Register(c) PROVE TypeOK'
  <2>1. registry' \in [Pods -> 0..MaxConns] /\ handler' \in [Conns -> Handlers]
    BY <1>8 DEF Register, Latest
  <2>2. patch' \in [Conns -> 0..MaxVersion]
    BY <1>8 DEF Register, ReportedVersion, Versions
  <2>3. superseded' \subseteq Conns /\ overlap' \in BOOLEAN
    BY <1>8 DEF Register
  <2> QED
    BY <1>8, <2>1, <2>2, <2>3 DEF Register
<1>9. ASSUME NEW c \in Conns, NEW connected \in BOOLEAN, WriteStatus(c, connected)
      PROVE /\ status' \in [connected : BOOLEAN, version : 0..MaxVersion]
            /\ lost' \in BOOLEAN /\ faults' \in Nat
  <2>1. Merged(connected, patch[c]) \in [connected : BOOLEAN, version : 0..MaxVersion]
    BY DEF Merged
  <2> QED
    BY <1>9, <2>1 DEF WriteStatus
<1>10. ASSUME NEW c \in Conns, WriteConnected(c) PROVE TypeOK'
  BY <1>9, <1>10 DEF WriteConnected
<1>11. ASSUME NEW c \in Conns, Disconnect(c) PROVE TypeOK'
  <2>1. registry' \in [Pods -> 0..MaxConns] /\ handler' \in [Conns -> Handlers]
    BY <1>11 DEF Disconnect, RemoveIfCurrent, AfterWait
  <2>2. patch' \in [Conns -> 0..MaxVersion]
    BY <1>11 DEF Disconnect, ReportedVersion, Versions
  <2> QED
    BY <1>11, <2>1, <2>2 DEF Disconnect
<1>12. ASSUME NEW c \in Conns, WriteDisconnected(c) PROVE TypeOK'
  BY <1>9, <1>12 DEF WriteDisconnected
<1>13. ASSUME NEW p \in Pods, Crash(p) PROVE TypeOK'
  <2>1. registry' \in [Pods -> 0..MaxConns] /\ handler' \in [Conns -> Handlers]
    BY <1>13 DEF Crash
  <2> QED
    BY <1>13, <2>1 DEF Crash
<1>14. CASE UNCHANGED vars
  BY <1>14 DEF vars
<1> QED
  BY <1>1, <1>2, <1>3, <1>4, <1>5, <1>6, <1>7, <1>8, <1>10, <1>11, <1>12, <1>13, <1>14
     DEF Next, Agent, Handler
(* The steps that leave the handlers, the registry and the status alone.   *)
LEMMA IdleKeepsInv ==
    ASSUME TunnelInv, TypeOK',
           UNCHANGED <<handler, home, registry, status, superseded, overlap, lost>>
    PROVE  TunnelInv'
BY DEF TunnelInv, RegistryHoldsLatest, SupersededStaysSilent, StatusTrueUnlessExcused,
       OneAtATime, SupersededServed, ClosingStillShown, Serving, Active

(* Every step of a handler preserves the invariant.                        *)
LEMMA HandlerKeepsInv ==
    ASSUME TunnelInv, TypeOK', NEW c \in Conns, Handler(c)
    PROVE  TunnelInv'
<1> USE NoConnIsZero DEF TunnelInv, TypeOK
<1>1. CASE HandshakeFails(c)
  <2>1. /\ handler' = [handler EXCEPT ![c] = "done"] /\ handler[c] = "handshake"
        /\ UNCHANGED <<home, registry, status, superseded, overlap, lost>>
    BY <1>1 DEF HandshakeFails, serverVars, history
  <2> QED
    BY <2>1 DEF RegistryHoldsLatest, SupersededStaysSilent, StatusTrueUnlessExcused,
                OneAtATime, SupersededServed, ClosingStillShown, Serving, Active
<1>2. CASE Register(c)
  <2>1. /\ handler' = [handler EXCEPT ![c] = "opening"] /\ handler[c] = "handshake"
        /\ registry' = [registry EXCEPT ![home[c]] = c]
        /\ superseded' = superseded \cup {d \in Conns : Serving(d) /\ home[d] = home[c]}
        /\ overlap' = (overlap \/ \E d \in Conns : Active(d))
        /\ UNCHANGED <<home, status, lost>>
    BY <1>2 DEF Register, Latest
  <2>2. c \notin superseded' /\ Serving(c)'
    BY <2>1 DEF SupersededServed, Serving
  <2>3. RegistryHoldsLatest'
    <3> SUFFICES ASSUME NEW p \in Pods, NEW d \in Conns
                 PROVE  (registry[p] = d
                         <=> home[d] = p /\ Serving(d) /\ d \notin superseded)'
      BY DEF RegistryHoldsLatest
    <3>1. CASE d = c
      BY <2>1, <2>2, <3>1 DEF RegistryHoldsLatest, Serving
    <3>2. CASE d # c /\ p = home[c]
      BY <2>1, <3>2 DEF Serving
    <3>3. CASE d # c /\ p # home[c]
      BY <2>1, <3>3 DEF RegistryHoldsLatest, Serving
    <3> QED
      BY <3>1, <3>2, <3>3
  <2>4. SupersededStaysSilent' /\ SupersededServed'
    BY <2>1 DEF SupersededStaysSilent, SupersededServed, Serving
  <2>5. ASSUME ~overlap'
        PROVE  /\ \A d \in Conns : ~Active(d)
               /\ superseded' = {}
               /\ \A d \in Conns : Active(d)' => d = c
    BY <2>1, <2>5 DEF OneAtATime, Active, Serving
  <2>6. OneAtATime' /\ ClosingStillShown' /\ StatusTrueUnlessExcused'
    BY <2>1, <2>5 DEF OneAtATime, ClosingStillShown, StatusTrueUnlessExcused, Active
  <2> QED
    BY <2>3, <2>4, <2>6
<1>3. CASE WriteConnected(c)
  <2>1. /\ handler' = [handler EXCEPT ![c] = "serving"] /\ handler[c] = "opening"
        /\ UNCHANGED <<home, registry, superseded, overlap>>
        /\ ~lost' => status'.connected = TRUE /\ ~lost
    BY <1>3 DEF WriteConnected, WriteStatus, Merged
  <2>2. RegistryHoldsLatest' /\ SupersededStaysSilent' /\ SupersededServed' /\ OneAtATime'
    BY <2>1 DEF RegistryHoldsLatest, SupersededStaysSilent, SupersededServed, OneAtATime,
                Serving, Active
  <2>3. ClosingStillShown' /\ StatusTrueUnlessExcused'
    BY <2>1 DEF ClosingStillShown, StatusTrueUnlessExcused
  <2> QED
    BY <2>2, <2>3
<1>4. CASE Disconnect(c)
  <2>1. /\ handler' = [handler EXCEPT ![c] = AfterWait(c)] /\ handler[c] = "serving"
        /\ registry' = [registry EXCEPT ![home[c]] = IF @ = c THEN 0 ELSE @]
        /\ UNCHANGED <<home, status, superseded, overlap, lost>>
    BY <1>4 DEF Disconnect, RemoveIfCurrent, history
  <2>2. /\ AfterWait(c) \in {"closing", "done"}
        /\ AfterWait(c) = "closing" <=> registry[home[c]] = c
    BY DEF AfterWait
  <2>3. RegistryHoldsLatest'
    <3> SUFFICES ASSUME NEW p \in Pods, NEW d \in Conns
                 PROVE  (registry[p] = d
                         <=> home[d] = p /\ Serving(d) /\ d \notin superseded)'
      BY DEF RegistryHoldsLatest
    <3>1. CASE d = c
      BY <2>1, <2>2, <3>1 DEF RegistryHoldsLatest, Serving
    <3>2. CASE d # c
      BY <2>1, <2>2, <3>2 DEF RegistryHoldsLatest, Serving
    <3> QED
      BY <3>1, <3>2
  <2>4. registry[home[c]] = c <=> c \notin superseded
    BY <2>1 DEF RegistryHoldsLatest, Serving
  <2>5. SupersededStaysSilent' /\ SupersededServed' /\ OneAtATime'
    BY <2>1, <2>2, <2>4 DEF SupersededStaysSilent, SupersededServed, OneAtATime, Active
  <2>6. ClosingStillShown' /\ StatusTrueUnlessExcused'
    BY <2>1, <2>2, <2>4 DEF ClosingStillShown, StatusTrueUnlessExcused, OneAtATime, Active
  <2> QED
    BY <2>3, <2>5, <2>6
<1>5. CASE WriteDisconnected(c)
  <2>1. /\ handler' = [handler EXCEPT ![c] = "done"] /\ handler[c] = "closing"
        /\ UNCHANGED <<home, registry, superseded, overlap>>
        /\ ~lost' => status'.connected = FALSE /\ ~lost
    BY <1>5 DEF WriteDisconnected, WriteStatus, Merged
  <2>2. RegistryHoldsLatest' /\ SupersededStaysSilent' /\ SupersededServed' /\ OneAtATime'
    BY <2>1 DEF RegistryHoldsLatest, SupersededStaysSilent, SupersededServed, OneAtATime,
                Serving, Active
  <2>3. ClosingStillShown' /\ StatusTrueUnlessExcused'
    BY <2>1 DEF ClosingStillShown, StatusTrueUnlessExcused, OneAtATime, Active
  <2> QED
    BY <2>2, <2>3
<1> QED
  BY <1>1, <1>2, <1>3, <1>4, <1>5 DEF Handler

(* A pod that dies takes its entry and every handler it ran with it.       *)
LEMMA CrashKeepsInv ==
    ASSUME TunnelInv, TypeOK', NEW p \in Pods, Crash(p)
    PROVE  TunnelInv'
<1> USE NoConnIsZero DEF TunnelInv, TypeOK
<1>1. /\ registry' = [registry EXCEPT ![p] = 0]
      /\ handler' = [c \in Conns |-> IF home[c] = p /\ handler[c] # "none"
                                     THEN "done" ELSE handler[c]]
      /\ lost' = TRUE
      /\ UNCHANGED <<home, superseded, overlap>>
  BY DEF Crash
<1>2. RegistryHoldsLatest'
  BY <1>1 DEF RegistryHoldsLatest, Serving
<1>3. SupersededStaysSilent' /\ SupersededServed' /\ OneAtATime'
  BY <1>1 DEF SupersededStaysSilent, SupersededServed, OneAtATime, Active
<1>4. ClosingStillShown' /\ StatusTrueUnlessExcused'
  BY <1>1 DEF ClosingStillShown, StatusTrueUnlessExcused
<1> QED
  BY <1>2, <1>3, <1>4

LEMMA DialKeepsInv ==
    ASSUME TunnelInv, TypeOK', NEW a \in Agents, Dial(a)
    PROVE  TunnelInv'
<1> USE DEF TunnelInv, TypeOK
<1>1. PICK c \in Conns : handler[c] = "none"
                         /\ handler' = [handler EXCEPT ![c] = "handshake"]
  BY DEF Dial
<1>2. UNCHANGED <<home, registry, status, superseded, overlap, lost>>
  BY DEF Dial, history
<1> QED
  BY <1>1, <1>2 DEF RegistryHoldsLatest, SupersededStaysSilent, StatusTrueUnlessExcused,
                    OneAtATime, SupersededServed, ClosingStillShown, Serving, Active

-----------------------------------------------------------------------------
LEMMA StepInv == TunnelInv /\ [Next]_vars => TunnelInv'
<1> SUFFICES ASSUME TunnelInv, [Next]_vars PROVE TunnelInv'
  OBVIOUS
<1>1. TypeOK'
  BY StepTypes DEF TunnelInv
<1>2. ASSUME NEW a \in Agents, Agent(a) PROVE TunnelInv'
  <2>1. CASE Dial(a)
    BY <1>1, <2>1, DialKeepsInv
  <2>2. CASE AgentStart(a) \/ AgentStop(a) \/ AgentNotices(a)
    BY <1>1, <2>2, IdleKeepsInv
       DEF AgentStart, AgentStop, AgentNotices, serverVars, history
  <2> QED
    BY <1>2, <2>1, <2>2 DEF Agent
<1>3. CASE Drop
  BY <1>1, <1>3, IdleKeepsInv DEF Drop, serverVars, history
<1>4. ASSUME NEW c \in Conns, HeartbeatWithToken(c) \/ HeartbeatWithoutToken(c)
      PROVE  TunnelInv'
  BY <1>1, <1>4, IdleKeepsInv
     DEF HeartbeatWithToken, HeartbeatWithoutToken, Heartbeat, serverVars, history
<1>5. ASSUME NEW c \in Conns, Handler(c) PROVE TunnelInv'
  BY <1>1, <1>5, HandlerKeepsInv
<1>6. ASSUME NEW p \in Pods, Crash(p) PROVE TunnelInv'
  BY <1>1, <1>6, CrashKeepsInv
<1>7. CASE UNCHANGED vars
  BY <1>1, <1>7, IdleKeepsInv DEF vars, serverVars, history
<1> QED
  BY <1>2, <1>3, <1>4, <1>5, <1>6, <1>7 DEF Next

(* handleAgentConnection and AgentRegistry: the registry, the silence of   *)
(* superseded connections and the reported status, all at once.            *)
THEOREM TunnelInvariant == Spec => []TunnelInv
BY InitInv, StepInv, PTL DEF Spec

(* AgentRegistry: each pod's entry is its latest connection, while served. *)
THEOREM RegistryLatest == Spec => []RegistryHoldsLatest
<1>1. TunnelInv => RegistryHoldsLatest
  BY DEF TunnelInv
<1> QED
  BY <1>1, TunnelInvariant, PTL

(* handleAgentConnection: no superseded connection reports a disconnect.   *)
THEOREM SupersededSilent == Spec => []SupersededStaysSilent
<1>1. TunnelInv => SupersededStaysSilent
  BY DEF TunnelInv
<1> QED
  BY <1>1, TunnelInvariant, PTL

(* writeAgentStatus: status.agent.connected is right unless excused.       *)
THEOREM StatusTrue == Spec => []StatusTrueUnlessExcused
<1>1. TunnelInv => StatusTrueUnlessExcused
  BY DEF TunnelInv
<1> QED
  BY <1>1, TunnelInvariant, PTL

-----------------------------------------------------------------------------
(* ControllerHandover: types *)

LEMMA WantsAre ==
    \A X : X \in Wants \cup {{}} <=> X = {} \/ (Base \in X /\ X \ {Base} \subseteq Extras)
<1>1. ASSUME NEW X \in Wants PROVE Base \in X /\ X \ {Base} \subseteq Extras
  BY <1>1 DEF Wants
<1>2. ASSUME NEW X, Base \in X, X \ {Base} \subseteq Extras PROVE X \in Wants
  <2>1. X = {Base} \cup (X \ {Base})
    BY <1>2
  <2> QED
    BY <1>2, <2>1 DEF Wants
<1> QED
  BY <1>1, <1>2

LEMMA HandoverBasics ==
    /\ Home \in Clusters /\ Org \in Orgs /\ Base \notin Extras
    /\ MaxMoves \in Nat /\ MaxEdits \in Nat /\ MaxFailures \in Nat
    /\ {} \in Wants \cup {{}} /\ Wants \subseteq Wants \cup {{}}
    /\ Nothing \in Defs /\ ~Nothing.exists /\ Nothing.want = {} /\ Nothing.known = {} /\ ~Nothing.dt
    /\ Idle \in Passes /\ Idle.at = "idle"
BY HandoverAssumption DEF Clusters, Nothing, Defs, Idle, Passes

(* Whatever a step makes of a definition is one.                           *)
LEMMA DefsMade ==
    ASSUME NEW d \in Defs, NEW want \in Wants \cup {{}}, NEW known \in SUBSET Extras
    PROVE  /\ [d EXCEPT !.fin = TRUE] \in Defs /\ [d EXCEPT !.dt = TRUE] \in Defs
           /\ [d EXCEPT !.known = known] \in Defs
           /\ [d EXCEPT !.exists = TRUE, !.want = want] \in Defs
           /\ [exists |-> TRUE, dt |-> FALSE, fin |-> TRUE, want |-> want, known |-> known] \in Defs
<1>1. [d EXCEPT !.fin = TRUE] \in Defs /\ [d EXCEPT !.dt = TRUE] \in Defs
  BY DEF Defs
<1>2. [d EXCEPT !.known = known] \in Defs
  BY DEF Defs
<1>3. [d EXCEPT !.exists = TRUE, !.want = want] \in Defs
  BY DEF Defs
<1>4. [exists |-> TRUE, dt |-> FALSE, fin |-> TRUE, want |-> want, known |-> known] \in Defs
  BY DEF Defs
<1> QED
  BY <1>1, <1>2, <1>3, <1>4

Moves == [at : {"idle", "load", "put", "status", "finalize"}, from : Clusters,
          to : Clusters, byHand : BOOLEAN, force : BOOLEAN, def : Defs]
Requests == [at : Clusters, want : Wants \cup {{}}, late : BOOLEAN]
Counts == [moves : 0 .. MaxMoves, edits : 0 .. MaxEdits, faults : 0 .. MaxFailures]

LEMMA CountsGrow ==
    ASSUME count \in Counts
    PROVE  /\ Count("moves", MaxMoves) => count' \in Counts
           /\ Count("edits", MaxEdits) => count' \in Counts
           /\ Failure => count' \in Counts
BY HandoverBasics DEF Count, Failure, Counts

(* The windows are noted down, and never forgotten.                        *)
LEMMA ExcusesGrow ==
    /\ \A hits : Record(hits) => excuse' = excuse \cup hits
    /\ \A cond \in BOOLEAN : \A w : (Hit(cond, w) = {} <=> ~cond) /\ Hit(cond, w) \subseteq {w}
    /\ {"overtaken", "early", "leftover", "late", "undeleted", "unguarded", "saveLost", "byHand"} \subseteq Windows
BY DEF Record, Hit, Windows

HandoverTypes ==
    /\ rc \in [Orgs -> Clusters] /\ locked \in BOOLEAN
    /\ watched \in [Clusters -> [up : BOOLEAN, set : SUBSET Orgs]]
    /\ def \in [Clusters -> Defs] /\ pass \in [Clusters -> Passes]
    /\ live \in Wants \cup {{}} /\ asked \in Wants \cup {{}}
    /\ move \in Moves /\ requests \subseteq Requests
    /\ excuse \subseteq Windows /\ count \in Counts

LEMMA HandoverTyped == HandoverTypeOK <=> HandoverTypes
BY DEF HandoverTypeOK, HandoverTypes, Moves, Requests, Counts

LEMMA ExitTypes ==
    ASSUME HandoverTypes, NEW c \in Clusters, Recheck(c) \/ Dies(c) PROVE HandoverTypes'
<1>1. Exit(c) /\ count' \in Counts
  BY CountsGrow DEF Recheck, Dies, HandoverTypes
<1>2. watched' \in [Clusters -> [up : BOOLEAN, set : SUBSET Orgs]] /\ pass' \in [Clusters -> Passes]
  BY <1>1, HandoverBasics DEF Exit, HandoverTypes
<1>3. excuse' \subseteq Windows
  BY <1>1 DEF Exit, Record, Hit, Windows, HandoverTypes
<1> QED
  BY <1>1, <1>2, <1>3 DEF Exit, HandoverTypes

LEMMA BeginTypes ==
    ASSUME HandoverTypes, NEW c \in Clusters, Begin(c) PROVE HandoverTypes'
<1>1. [at |-> "apply", want |-> def[c].want, known |-> def[c].known, dt |-> def[c].dt] \in Passes
  BY DEF HandoverTypes, Defs, Passes
<1>2. pass' \in [Clusters -> Passes]
  BY <1>1 DEF Begin, HandoverTypes
<1>3. def' \in [Clusters -> Defs]
  <2>1. [def[c] EXCEPT !.fin = TRUE] \in Defs
    BY HandoverBasics, DefsMade DEF HandoverTypes
  <2> QED
    BY <2>1 DEF Begin, HandoverTypes
<1> QED
  BY <1>2, <1>3 DEF Begin, HandoverTypes

LEMMA ApplyTypes ==
    ASSUME HandoverTypes, NEW c \in Clusters, Apply(c) PROVE HandoverTypes'
<1>1. live' \in Wants \cup {{}}
  <2>1. pass[c].want \in Wants \cup {{}} /\ pass[c].known \subseteq Extras /\ live \in Wants \cup {{}}
    BY DEF HandoverTypes, Passes
  <2>2. /\ live = {} \/ (Base \in live /\ live \ {Base} \subseteq Extras)
        /\ pass[c].want = {} \/ (Base \in pass[c].want /\ pass[c].want \ {Base} \subseteq Extras)
    BY <2>1, WantsAre
  <2>3. live' = {} \/ (Base \in live' /\ live' \ {Base} \subseteq Extras)
    BY <2>1, <2>2, HandoverBasics DEF Apply
  <2> QED
    BY <2>3, WantsAre
<1>2. pass' \in [Clusters -> Passes]
  BY DEF Apply, HandoverTypes, Passes
<1>3. excuse' \subseteq Windows
  BY DEF Apply, Record, Hit, Windows, HandoverTypes
<1> QED
  BY <1>1, <1>2, <1>3 DEF Apply, HandoverTypes

LEMMA SaveTypes ==
    ASSUME HandoverTypes, NEW c \in Clusters, Save(c) PROVE HandoverTypes'
<1>1. def' \in [Clusters -> Defs]
  <2>1. pass[c].want \ {Base} \subseteq Extras
    BY WantsAre DEF HandoverTypes, Passes
  <2>2. [def[c] EXCEPT !.known = pass[c].want \ {Base}] \in Defs
    BY <2>1, HandoverBasics, DefsMade DEF HandoverTypes
  <2>3. PICK d \in Defs : def' = [def EXCEPT ![c] = d] \/ def' = def
    BY <2>2, HandoverBasics DEF Save
  <2> QED
    BY <2>3 DEF HandoverTypes
<1>2. pass' \in [Clusters -> Passes]
  BY HandoverBasics DEF Save, HandoverTypes
<1>3. excuse' \subseteq Windows
  BY DEF Save, Record, Hit, Windows, HandoverTypes
<1>4. count' \in Counts
  BY CountsGrow DEF Save, HandoverTypes
<1> QED
  BY <1>1, <1>2, <1>3, <1>4 DEF Save, HandoverTypes

LEMMA WriteTypes ==
    ASSUME HandoverTypes, NEW r \in requests, NEW d \in Defs, Write(r, d)
    PROVE  HandoverTypes'
<1>1. r.at \in Clusters /\ r.want \in Wants \cup {{}}
  BY DEF HandoverTypes, Requests
<1>2. def' \in [Clusters -> Defs]
  BY <1>1 DEF Write, HandoverTypes
<1>3. requests' \subseteq Requests
  BY DEF Write, HandoverTypes
<1>4. excuse' \subseteq Windows
  BY DEF Write, Record, Hit, Windows, HandoverTypes
<1> QED
  BY <1>1, <1>2, <1>3, <1>4 DEF Write, HandoverTypes

LEMMA UserTypes ==
    ASSUME HandoverTypes,
           \/ \E want \in Wants \cup {{}} : Accept(want)
           \/ \E r \in requests : Edit(r) \/ Delete(r)
    PROVE  HandoverTypes'
<1>1. ASSUME NEW want \in Wants \cup {{}}, Accept(want) PROVE HandoverTypes'
  <2>1. [at |-> rc[Org], want |-> want, late |-> FALSE] \in Requests
    BY HandoverBasics DEF HandoverTypes, Requests
  <2>2. requests' \subseteq Requests
    BY <1>1, <2>1 DEF Accept, HandoverTypes
  <2> QED
    BY <1>1, <2>2, CountsGrow DEF Accept, HandoverTypes
<1>2. ASSUME NEW r \in requests, Edit(r) \/ Delete(r) PROVE HandoverTypes'
  <2>1. def[r.at] \in Defs /\ r.want \in Wants \cup {{}}
    BY DEF HandoverTypes, Requests
  <2>2. /\ [def[r.at] EXCEPT !.exists = TRUE, !.want = r.want] \in Defs
        /\ [def[r.at] EXCEPT !.dt = TRUE] \in Defs
    BY <2>1, HandoverBasics, DefsMade
  <2> QED
    BY <1>2, <2>2, HandoverBasics, WriteTypes DEF Edit, Delete
<1> QED
  BY <1>1, <1>2

LEMMA MoveTypes ==
    ASSUME HandoverTypes,
           \/ \E c \in Clusters : MoveStart(c) \/ \E force \in BOOLEAN : CopyByHand(c, force)
           \/ Moving
    PROVE  HandoverTypes'
<1>1. Still \in Moves
  BY HandoverBasics DEF Still, Moves
<1>2. rc[Org] \in Clusters /\ move \in Moves /\ move.from \in Clusters /\ move.to \in Clusters
  BY HandoverBasics DEF HandoverTypes, Moves
<1>3. ASSUME NEW c \in Clusters, MoveStart(c) PROVE HandoverTypes'
  <2>1. requests' \subseteq Requests
    <3>1. \A r \in requests : [r EXCEPT !.late = TRUE] \in Requests
      BY DEF HandoverTypes, Requests
    <3>2. requests' = {[r EXCEPT !.late = TRUE] : r \in requests}
      BY <1>3 DEF MoveStart
    <3> QED
      BY <3>1, <3>2
  <2> QED
    BY <1>1, <1>2, <1>3, <2>1, CountsGrow DEF MoveStart, HandoverTypes, Moves
<1>4. ASSUME NEW c \in Clusters, NEW force \in BOOLEAN, CopyByHand(c, force) PROVE HandoverTypes'
  BY <1>1, <1>4, CountsGrow DEF CopyByHand, HandoverTypes, Moves
<1>5. CASE Load
  <2>1. def[move.from] \in Defs
    BY <1>2 DEF HandoverTypes
  <2>2. move' \in Moves
    BY <1>2, <1>5, <2>1 DEF Load, Moves
  <2>3. excuse' \subseteq Windows
    BY <1>5 DEF Load, Record, Hit, Windows, HandoverTypes
  <2> QED
    BY <1>5, <2>2, <2>3 DEF Load, HandoverTypes
<1>6. CASE Put
  <2>1. [def[move.to] EXCEPT !.exists = TRUE, !.want = move.def.want] \in Defs
    <3>1. def[move.to] \in Defs /\ move.def.want \in Wants \cup {{}}
      BY <1>2 DEF HandoverTypes, Moves, Defs
    <3> QED
      BY <3>1, DefsMade
  <2>2. def' \in [Clusters -> Defs]
    BY <1>2, <1>6, <2>1 DEF Put, HandoverTypes
  <2>3. move' \in Moves
    BY <1>2, <1>6 DEF Put, Step, Moves
  <2>4. excuse' \subseteq Windows
    BY <1>6 DEF Put, Record, Hit, Windows, HandoverTypes
  <2> QED
    BY <1>6, <2>2, <2>3, <2>4 DEF Put, HandoverTypes
<1>7. CASE CopyStatus
  <2>1. def' \in [Clusters -> Defs]
    <3>1. def[move.to] \in Defs /\ move.def.known \in SUBSET Extras
      BY <1>2 DEF HandoverTypes, Moves, Defs
    <3>2. [def[move.to] EXCEPT !.known = move.def.known] \in Defs
      BY <3>1, HandoverBasics, DefsMade
    <3> QED
      BY <1>7, <3>2 DEF CopyStatus, HandoverTypes
  <2>2. move' \in Moves
    BY <1>2, <1>7 DEF CopyStatus, Step, Moves
  <2>3. excuse' \subseteq Windows
    BY <1>7 DEF CopyStatus, Record, Hit, Windows, HandoverTypes
  <2> QED
    BY <1>7, <2>1, <2>2, <2>3 DEF CopyStatus, HandoverTypes
<1>8. CASE MoveFails
  BY <1>1, <1>8, CountsGrow DEF MoveFails, HandoverTypes
<1>9. CASE Finalize
  <2>1. excuse' \subseteq Windows
    BY <1>9 DEF Finalize, Record, Hit, Windows, HandoverTypes
  <2> QED
    BY <1>1, <1>2, <1>9, <2>1 DEF Finalize, HandoverTypes
<1> QED
  BY <1>3, <1>4, <1>5, <1>6, <1>7, <1>8, <1>9 DEF Moving

-----------------------------------------------------------------------------
(* ControllerHandover: the order of a pass and of a move *)

(* What Orderly says of one cluster.                                       *)
OrderlyAt(c) ==
    /\ ~def[c].exists => def[c] = Nothing
    /\ pass[c].at # "idle" => def[c].exists /\ def[c].fin
    /\ pass[c].at # "idle" /\ pass[c].dt => def[c].dt
MoveHolds ==
    move.at # "idle" /\ ~move.byHand =>
        locked /\ move.from = rc[Org] /\ move.to # rc[Org] /\ ~move.force
RequestsHold ==
    \A r \in requests : r.late \/ (r.at = rc[Org] /\ (move.at = "idle" \/ move.byHand))
LockHeld == MoveHolds /\ RequestsHold

LEMMA OrderlyIs == Orderly <=> (\A c \in Clusters : OrderlyAt(c)) /\ LockHeld
BY DEF Orderly, OrderlyAt, LockHeld, MoveHolds, RequestsHold

(* A step that disturbs one cluster's definition and pass at most.         *)
LEMMA OrderlyStep ==
    ASSUME Orderly, NEW c \in Clusters, OrderlyAt(c)', LockHeld',
           \A x \in Clusters \ {c} : def'[x] = def[x] /\ pass'[x] = pass[x]
    PROVE  Orderly'
<1>1. ASSUME NEW x \in Clusters \ {c} PROVE OrderlyAt(x)'
  BY OrderlyIs DEF OrderlyAt
<1> QED
  BY <1>1, OrderlyIs DEF Orderly, OrderlyAt, LockHeld, MoveHolds, RequestsHold

LEMMA PassOrderly ==
    ASSUME HandoverTypes, Orderly, NEW c \in Clusters,
           Recheck(c) \/ Dies(c) \/ Start(c) \/ Begin(c) \/ Apply(c) \/ Save(c)
    PROVE  Orderly'
<1>1. OrderlyAt(c) /\ LockHeld /\ def[c] \in Defs /\ pass[c] \in Passes
  BY OrderlyIs DEF HandoverTypes
<1>2. LockHeld'
  BY <1>1 DEF LockHeld, MoveHolds, RequestsHold, Recheck, Dies, Exit, Start, Begin, Apply, Save
<1>3. \A x \in Clusters \ {c} : def'[x] = def[x] /\ pass'[x] = pass[x]
  BY DEF HandoverTypes, Recheck, Dies, Exit, Start, Begin, Apply, Save
<1>4. OrderlyAt(c)'
  <2> USE DEF HandoverTypes
  <2>1. CASE Recheck(c) \/ Dies(c)
    BY <1>1, <2>1, HandoverBasics DEF Recheck, Dies, Exit, OrderlyAt
  <2>2. CASE Start(c)
    BY <1>1, <2>2 DEF Start, OrderlyAt
  <2>3. CASE Begin(c)
    <3>1. CASE def[c].fin
      BY <1>1, <2>3, <3>1 DEF Begin, OrderlyAt
    <3>2. CASE ~def[c].fin
      <4>1. def'[c] = [def[c] EXCEPT !.fin = TRUE] /\ pass'[c] = pass[c] /\ pass[c].at = "idle"
        BY <2>3, <3>2, HandoverBasics DEF Begin
      <4>2. def'[c].exists
        BY <1>1, <2>3, <4>1 DEF Begin, Defs
      <4> QED
        BY <4>1, <4>2 DEF OrderlyAt
    <3> QED
      BY <3>1, <3>2
  <2>4. CASE Apply(c)
    <3>1. def' = def /\ pass'[c] = [pass[c] EXCEPT !.at = "save"] /\ pass[c].at = "apply"
      BY <2>4 DEF Apply
    <3>2. pass'[c].dt = pass[c].dt
      BY <1>1, <3>1 DEF Passes
    <3> QED
      BY <1>1, <3>1, <3>2 DEF OrderlyAt
  <2>5. CASE Save(c)
    <3>1. pass'[c] = Idle /\ (def'[c] = def[c] \/ def'[c] = Nothing
                              \/ (def[c].exists /\ def'[c] = [def[c] EXCEPT !.known = pass[c].want \ {Base}]))
      BY <2>5 DEF Save
    <3>2. def'[c].exists \/ def'[c] = Nothing
      BY <1>1, <3>1 DEF OrderlyAt, Defs
    <3> QED
      BY <3>1, <3>2, HandoverBasics DEF OrderlyAt
  <2> QED
    BY <2>1, <2>2, <2>3, <2>4, <2>5
<1> QED
  BY <1>2, <1>3, <1>4, OrderlyStep

LEMMA AcceptOrderly ==
    ASSUME HandoverTypes, Orderly, NEW want, Accept(want) PROVE Orderly'
<1>1. LockHeld /\ (move.at # "idle" => move.byHand)
  BY OrderlyIs DEF LockHeld, MoveHolds, Accept, HandoverTypes, Moves
<1>2. LockHeld'
  BY <1>1 DEF Accept, LockHeld, MoveHolds, RequestsHold
<1> QED
  BY <1>2, HandoverBasics, OrderlyIs, OrderlyStep DEF Accept, OrderlyAt

LEMMA UserOrderly ==
    ASSUME HandoverTypes, Orderly, NEW r \in requests, Edit(r) \/ Delete(r) PROVE Orderly'
<1>1. PICK c \in Clusters : c = r.at
  BY DEF HandoverTypes, Requests
<1>2. OrderlyAt(c) /\ LockHeld /\ def[c] \in Defs
  BY OrderlyIs DEF HandoverTypes
<1>3. /\ UNCHANGED <<pass, locked, move, rc>> /\ LockHeld'
      /\ \A x \in Clusters \ {c} : def'[x] = def[x] /\ pass'[x] = pass[x]
  <2>1. UNCHANGED <<pass, locked, move, rc>> /\ requests' \subseteq requests
    BY DEF Edit, Delete, Write
  <2>2. \A x \in Clusters \ {c} : def'[x] = def[x]
    BY <1>1 DEF HandoverTypes, Edit, Delete, Write
  <2> QED
    BY <1>2, <2>1, <2>2 DEF LockHeld, MoveHolds, RequestsHold
<1>4. OrderlyAt(c)'
  <2>1. CASE Edit(r)
    <3>1. /\ def'[c] = [def[c] EXCEPT !.exists = TRUE, !.want = r.want]
          /\ def[c].exists => ~def[c].dt
      BY <1>1, <2>1 DEF Edit, Write, HandoverTypes
    <3>2. def'[c].exists /\ def'[c].fin = def[c].fin /\ def'[c].dt = def[c].dt
      BY <1>2, <3>1 DEF Defs
    <3> QED
      BY <1>2, <1>3, <3>2 DEF OrderlyAt
  <2>2. CASE Delete(r)
    <3>1. def'[c] = IF def[c].fin THEN [def[c] EXCEPT !.dt = TRUE] ELSE Nothing
      BY <1>1, <2>2 DEF Delete, Write, HandoverTypes
    <3>2. CASE def[c].fin
      <4>1. def'[c].exists /\ def'[c].fin /\ def'[c].dt
        BY <1>1, <1>2, <2>2, <3>1, <3>2 DEF Defs, Delete
      <4> QED
        BY <4>1 DEF OrderlyAt
    <3>3. CASE ~def[c].fin
      BY <1>2, <1>3, <3>1, <3>3 DEF OrderlyAt
    <3> QED
      BY <3>2, <3>3
  <2> QED
    BY <2>1, <2>2
<1> QED
  BY <1>3, <1>4, OrderlyStep

LEMMA MoveOrderly ==
    ASSUME HandoverTypes, Orderly,
           \/ \E c \in Clusters : MoveStart(c) \/ \E force \in BOOLEAN : CopyByHand(c, force)
           \/ Moving
    PROVE  Orderly'
<1>1. /\ move \in Moves /\ LockHeld /\ rc[Org] \in Clusters
      /\ Still.at = "idle" /\ Still \in Moves
  BY OrderlyIs, HandoverBasics DEF HandoverTypes, Still, Moves
<1>2. PICK c \in Clusters : c = move.to
  BY <1>1 DEF Moves
<1>3. OrderlyAt(c) /\ def[c] \in Defs /\ pass' = pass
  BY OrderlyIs DEF HandoverTypes, MoveStart, CopyByHand, Moving, Load, Put, CopyStatus,
     MoveFails, Finalize
<1>4. \A x \in Clusters \ {c} : def'[x] = def[x] /\ pass'[x] = pass[x]
  BY <1>2 DEF HandoverTypes, MoveStart, CopyByHand, Moving, Load, Put, CopyStatus,
     MoveFails, Finalize
<1>5. OrderlyAt(c)'
  <2>1. CASE def'[c] = def[c]
    BY <1>3, <2>1 DEF OrderlyAt
  <2>2. CASE Put /\ def'[c] # def[c]
    <3>1. def'[c] = [def[c] EXCEPT !.exists = TRUE, !.want = move.def.want]
      BY <1>2, <2>2 DEF Put, HandoverTypes
    <3>2. def'[c].exists /\ def'[c].fin = def[c].fin /\ def'[c].dt = def[c].dt
      BY <1>3, <3>1 DEF Defs
    <3> QED
      BY <1>3, <3>2 DEF OrderlyAt
  <2>3. CASE CopyStatus
    <3>1. def'[c] = [def[c] EXCEPT !.known = move.def.known] /\ def[c].exists
      BY <1>2, <2>3 DEF CopyStatus, HandoverTypes
    <3>2. def'[c].exists /\ def'[c].fin = def[c].fin /\ def'[c].dt = def[c].dt
      BY <1>3, <3>1 DEF Defs
    <3> QED
      BY <1>3, <3>2 DEF OrderlyAt
  <2> QED
    BY <2>1, <2>2, <2>3 DEF MoveStart, CopyByHand, Moving, Load, MoveFails, Finalize
<1>6. LockHeld'
  <2>1. ASSUME NEW to \in Clusters, MoveStart(to) PROVE LockHeld'
    <3>1. /\ move'.at = "load" /\ move'.from = rc[Org] /\ move'.to # rc[Org]
          /\ ~move'.force /\ locked' /\ rc' = rc
      BY <2>1 DEF MoveStart, Still
    <3>2. \A r \in requests' : r.late
      <4>1. requests' = {[r EXCEPT !.late = TRUE] : r \in requests}
        BY <2>1 DEF MoveStart
      <4>2. \A r \in requests : [r EXCEPT !.late = TRUE].late
        BY DEF HandoverTypes, Requests
      <4> QED
        BY <4>1, <4>2
    <3> QED
      BY <3>1, <3>2 DEF LockHeld, MoveHolds, RequestsHold
  <2>2. ASSUME NEW to \in Clusters, NEW force \in BOOLEAN, CopyByHand(to, force) PROVE LockHeld'
    BY <1>1, <2>2 DEF CopyByHand, LockHeld, MoveHolds, RequestsHold, Still
  <2>3. CASE Load \/ Put \/ CopyStatus
    <3>1. /\ move.at # "idle" /\ move'.at # "idle" /\ locked' = locked /\ rc' = rc
          /\ requests' = requests
          /\ move'.byHand = move.byHand /\ move'.from = move.from /\ move'.to = move.to
          /\ move'.force = move.force
      BY <1>1, <2>3 DEF Load, Put, CopyStatus, Step, Moves
    <3> QED
      BY <1>1, <3>1 DEF LockHeld, MoveHolds, RequestsHold
  <2>4. CASE MoveFails \/ Finalize
    <3>1. move'.at = "idle" /\ requests' = requests
      BY <1>1, <2>4 DEF MoveFails, Finalize
    <3>2. CASE rc' = rc
      BY <1>1, <3>1, <3>2 DEF LockHeld, MoveHolds, RequestsHold
    <3>3. CASE Finalize /\ ~move.byHand
      BY <1>1, <3>1, <3>3 DEF Finalize, LockHeld, MoveHolds, RequestsHold
    <3> QED
      BY <2>4, <3>2, <3>3 DEF MoveFails, Finalize
  <2> QED
    BY <2>1, <2>2, <2>3, <2>4 DEF Moving
<1> QED
  BY <1>4, <1>5, <1>6, OrderlyStep

-----------------------------------------------------------------------------
(* ControllerHandover: what runs, what is recorded, what was asked for.    *)
(* Until a window is hit, that is: the steps that are shown here hit none. *)

Asked ==
    LET d == def[rc[Org]] IN
    IF asked = {} THEN ~d.exists \/ d.dt ELSE d.exists /\ ~d.dt /\ d.want = asked
Clean == Asked /\ Recorded /\ Carried

HandoverRuns == HandoverTypes /\ Orderly /\ (excuse = {} => Clean)

LEMMA HandoverInvIs == HandoverInv <=> HandoverRuns
<1>1. Recorded => (IF def[rc[Org]].exists THEN live \subseteq {Base} \cup Told(rc[Org]) ELSE live = {})
  BY DEF Recorded, Told
<1> QED
  BY <1>1, HandoverTyped DEF HandoverInv, HandoverRuns, Clean, Asked, AsAsked, Accounted

(* The cluster in the row, its definition and the pass of its controller.  *)
LEMMA Here ==
    ASSUME HandoverTypes, Orderly
    PROVE  /\ rc[Org] \in Clusters /\ def[rc[Org]] \in Defs /\ pass[rc[Org]] \in Passes
           /\ move \in Moves /\ move.to \in Clusters /\ def[move.to] \in Defs
           /\ OrderlyAt(rc[Org]) /\ OrderlyAt(move.to) /\ LockHeld
BY OrderlyIs, HandoverBasics DEF HandoverTypes, Moves

(* A step of a controller elsewhere, which changes neither what runs nor   *)
(* any definition but for its finalizer.                                   *)
LEMMA CleanElsewhere ==
    ASSUME HandoverTypes, Orderly, Clean, NEW c \in Clusters, c # rc[Org],
           UNCHANGED <<locked, live, move, asked>>, rc'[Org] = rc[Org],
           \A x \in Clusters : /\ def'[x].exists = def[x].exists /\ def'[x].dt = def[x].dt
                               /\ def'[x].want = def[x].want /\ def'[x].known = def[x].known,
           \A x \in Clusters \ {c} : pass'[x] = pass[x]
    PROVE  Clean'
<1>1. pass'[rc[Org]] = pass[rc[Org]]
  BY Here
<1>2. Asked'
  BY Here DEF Clean, Asked
<1>3. Recorded'
  BY Here, <1>1 DEF Clean, Recorded
<1>4. Carried'
  BY Here DEF Clean, Carried
<1> QED
  BY <1>2, <1>3, <1>4 DEF Clean

(* A process ends, or the pass of the organization's controller goes on.   *)
LEMMA ExitClean ==
    ASSUME HandoverTypes, Orderly, Clean, NEW c \in Clusters, Recheck(c) \/ Dies(c),
           excuse' = {}
    PROVE  Clean'
<1>1. Exit(c) /\ ~Unsaved(c)
  BY DEF Recheck, Dies, Exit, Record, Hit
<1>2. /\ UNCHANGED <<rc, locked, def, live, move, asked>>
      /\ pass'[c].at = "idle" /\ \A x \in Clusters \ {c} : pass'[x] = pass[x]
  BY <1>1, HandoverBasics DEF Exit, HandoverTypes
<1>3. Asked' /\ Carried'
  BY <1>2 DEF Clean, Asked, Carried
<1>4. CASE c = rc[Org]
  <2>1. live \subseteq {Base} \cup def[c].known
    BY <1>1, <1>4 DEF Unsaved, Clean, Recorded
  <2>2. Recorded'
    BY <1>2, <1>4, <2>1 DEF Clean, Recorded
  <2> QED
    BY <1>3, <2>2 DEF Clean
<1>5. CASE c # rc[Org]
  BY <1>2, <1>5, CleanElsewhere
<1> QED
  BY <1>4, <1>5

LEMMA BeginClean ==
    ASSUME HandoverTypes, Orderly, Clean, NEW c \in Clusters, Begin(c)
    PROVE  Clean'
<1>1. /\ UNCHANGED <<rc, locked, live, move, asked>>
      /\ \A x \in Clusters \ {c} : pass'[x] = pass[x]
      /\ pass'[c] = [at |-> "apply", want |-> def[c].want, known |-> def[c].known, dt |-> def[c].dt]
         \/ pass'[c] = pass[c]
  BY DEF Begin, HandoverTypes
<1>2. \A x \in Clusters : /\ def'[x].exists = def[x].exists /\ def'[x].dt = def[x].dt
                         /\ def'[x].want = def[x].want /\ def'[x].known = def[x].known
  BY DEF Begin, HandoverTypes, Defs
<1>3. CASE c = rc[Org]
  <2>1. Asked' /\ Carried'
    BY Here, <1>1, <1>2 DEF Clean, Asked, Carried
  <2>2. /\ pass'[c].at # "idle" => pass'[c].known = def[c].known
        /\ pass'[c].at = "save" => pass'[c] = pass[c]
        /\ pass[c].at = "save" => pass'[c] = pass[c]
    <3>1. pass[c] = Idle
      BY DEF Begin
    <3> QED
      BY <1>1, <3>1, HandoverBasics
  <2>3. Recorded'
    BY Here, <1>1, <1>2, <1>3, <2>2 DEF Clean, Recorded
  <2> QED
    BY <2>1, <2>3 DEF Clean
<1>4. CASE c # rc[Org]
  BY <1>1, <1>2, <1>4, CleanElsewhere
<1> QED
  BY <1>3, <1>4

LEMMA ApplyClean ==
    ASSUME HandoverTypes, Orderly, Clean, NEW c \in Clusters, Apply(c), excuse' = {}
    PROVE  Clean'
<1>1. /\ UNCHANGED <<rc, locked, def, move, asked>> /\ pass[c].at = "apply"
      /\ pass'[c] = [pass[c] EXCEPT !.at = "save"]
      /\ \A x \in Clusters \ {c} : pass'[x] = pass[x]
      /\ live' = IF pass[c].dt THEN {} ELSE (live \ (pass[c].known \ pass[c].want)) \cup pass[c].want
  BY DEF Apply, HandoverTypes
<1>2. Detached(c) => live' = live
  BY DEF Apply, Record, Hit
<1>3. CASE c = rc[Org]
  <2>1. pass'[c].at = "save" /\ pass'[c].want = pass[c].want
        /\ pass'[c].known = pass[c].known /\ pass'[c].dt = pass[c].dt
    BY <1>1 DEF HandoverTypes, Passes
  <2>2. pass[c].known = def[c].known /\ live \subseteq {Base} \cup def[c].known /\ def[c].exists
    BY Here, <1>1, <1>3 DEF Clean, Recorded, OrderlyAt
  <2>3. live' \subseteq (IF pass[c].dt THEN {} ELSE {Base} \cup pass[c].want)
    BY <1>1, <2>2
  <2>4. Recorded'
    BY <1>1, <1>3, <2>1, <2>2, <2>3 DEF Recorded
  <2>5. move.at \in {"put", "status", "finalize"} /\ ~move.byHand => live' = live
    BY Here, <1>2, <1>3 DEF Detached, LockHeld, MoveHolds
  <2>6. Asked' /\ Carried'
    BY <1>1, <2>5 DEF Clean, Asked, Carried
  <2> QED
    BY <2>4, <2>6 DEF Clean
<1>4. CASE c # rc[Org]
  BY <1>1, <1>2, <1>4, CleanElsewhere DEF Detached
<1> QED
  BY <1>3, <1>4

LEMMA SaveClean ==
    ASSUME HandoverTypes, Orderly, Clean, NEW c \in Clusters, Save(c), excuse' = {}
    PROVE  Clean'
<1>1. /\ UNCHANGED <<rc, locked, live, move, asked>> /\ pass[c].at = "save"
      /\ pass'[c].at = "idle" /\ \A x \in Clusters \ {c} : pass'[x] = pass[x]
  BY HandoverBasics DEF Save, HandoverTypes
<1>2. /\ \A x \in Clusters \ {c} : def'[x] = def[x]
      /\ \/ def' = def /\ ~Unsaved(c)
         \/ /\ Detached(c) => def' = def
            /\ def'[c] = IF pass[c].dt \/ ~def[c].exists THEN Nothing
                         ELSE [def[c] EXCEPT !.known = pass[c].want \ {Base}]
  BY DEF Save, HandoverTypes, Record, Hit
<1>3. CASE c = rc[Org]
  <2>1. /\ live \subseteq (IF pass[c].dt THEN {} ELSE {Base} \cup pass[c].want)
        /\ def[c].exists /\ (pass[c].dt => def[c].dt)
        /\ def[c] \in Defs
    BY Here, <1>1, <1>3 DEF Clean, Recorded, OrderlyAt
  <2>2. CASE def' = def /\ ~Unsaved(c)
    <3>1. live \subseteq {Base} \cup def[c].known
      BY <1>1, <2>1, <2>2 DEF Unsaved
    <3>2. Recorded'
      BY <1>1, <1>3, <2>1, <2>2, <3>1 DEF Recorded
    <3> QED
      BY <1>1, <2>2, <3>2 DEF Clean, Asked, Carried
  <2>3. CASE /\ Detached(c) => def' = def
             /\ def'[c] = IF pass[c].dt \/ ~def[c].exists THEN Nothing
                          ELSE [def[c] EXCEPT !.known = pass[c].want \ {Base}]
    <3>1. CASE pass[c].dt
      <4>1. def'[c] = Nothing /\ live = {} /\ asked = {}
        BY <1>3, <2>1, <2>3, <3>1 DEF Clean, Asked
      <4>2. Asked' /\ Recorded'
        BY <1>1, <1>3, <4>1, HandoverBasics DEF Asked, Recorded
      <4>3. ~(move.at \in {"put", "status", "finalize"} /\ ~move.byHand)
        BY Here, <1>3, <2>1, <2>3, <4>1, HandoverBasics DEF Detached, LockHeld, MoveHolds
      <4> QED
        BY <1>1, <4>2, <4>3 DEF Clean, Carried
    <3>2. CASE ~pass[c].dt
      <4>1. /\ def'[c].exists /\ def'[c].dt = def[c].dt /\ def'[c].want = def[c].want
            /\ def'[c].known = pass[c].want \ {Base}
        BY <2>1, <2>3, <3>2 DEF Defs
      <4>2. Asked'
        BY <1>1, <1>3, <2>1, <4>1 DEF Clean, Asked
      <4>3. Recorded'
        BY <1>1, <1>3, <2>1, <3>2, <4>1 DEF Recorded
      <4>4. move.at \in {"put", "status", "finalize"} /\ ~move.byHand => def' = def
        BY Here, <1>3, <2>3 DEF Detached, LockHeld, MoveHolds
      <4>5. Carried'
        BY <1>1, <4>4 DEF Clean, Carried
      <4> QED
        BY <4>2, <4>3, <4>5 DEF Clean
    <3> QED
      BY <3>1, <3>2
  <2> QED
    BY <1>2, <2>2, <2>3
<1>4. CASE c # rc[Org]
  <2>1. def' = def
    BY <1>2, <1>4 DEF Detached
  <2> QED
    BY <1>1, <1>4, <2>1, CleanElsewhere
<1> QED
  BY <1>3, <1>4

LEMMA UserClean ==
    ASSUME HandoverTypes, Orderly, Clean, NEW r \in requests, Edit(r) \/ Delete(r),
           excuse' = {}
    PROVE  Clean'
<1>1. PICK c \in Clusters : c = r.at
  BY DEF HandoverTypes, Requests
<1>2. /\ UNCHANGED <<rc, locked, live, pass, move>> /\ asked' = r.want
      /\ r.late => ~Detached(c)
  BY <1>1 DEF Edit, Delete, Write, Record, Hit
<1>3. c = rc[Org] /\ ~(move.at \in {"put", "status", "finalize"} /\ ~move.byHand)
  <2>1. LockHeld
    BY Here
  <2>2. CASE r.late
    BY <1>2, <2>1, <2>2 DEF Detached, LockHeld, MoveHolds
  <2>3. CASE ~r.late
    BY <1>1, <2>1, <2>3 DEF LockHeld, RequestsHold
  <2> QED
    BY <2>2, <2>3
<1>4. OrderlyAt(c) /\ def[c] \in Defs
  BY Here, <1>3
<1>5. Carried'
  BY <1>2, <1>3 DEF Carried
<1>6. CASE Edit(r)
  <2>1. /\ def'[c] = [def[c] EXCEPT !.exists = TRUE, !.want = r.want] /\ r.want # {}
        /\ def[c].exists => ~def[c].dt
    BY <1>1, <1>6 DEF Edit, Write, HandoverTypes
  <2>2. /\ def'[c].exists /\ def'[c].dt = def[c].dt /\ def'[c].want = r.want
        /\ def'[c].known = def[c].known /\ ~def[c].dt
    BY <1>4, <2>1, HandoverBasics DEF Defs, OrderlyAt
  <2>3. Asked'
    BY <1>2, <1>3, <2>1, <2>2 DEF Asked
  <2>4. Recorded'
    BY <1>2, <1>3, <2>2 DEF Clean, Recorded
  <2> QED
    BY <1>5, <2>3, <2>4 DEF Clean
<1>7. CASE Delete(r)
  <2>1. /\ def'[c] = IF def[c].fin THEN [def[c] EXCEPT !.dt = TRUE] ELSE Nothing
        /\ asked' = {} /\ def[c].exists
    BY <1>1, <1>7 DEF Delete, Write, HandoverTypes
  <2>2. CASE def[c].fin
    <3>1. /\ def'[c].exists /\ def'[c].dt /\ def'[c].known = def[c].known
      BY <1>4, <2>1, <2>2 DEF Defs
    <3> QED
      BY <1>2, <1>3, <1>5, <2>1, <3>1 DEF Clean, Asked, Recorded
  <2>3. CASE ~def[c].fin
    <3>1. live = {}
      BY <1>1, <1>7, <2>3, HandoverBasics DEF Delete, Write, Record, Hit
    <3>2. def'[c] = Nothing /\ pass[c].at = "idle"
      BY <1>4, <2>1, <2>3 DEF OrderlyAt
    <3> QED
      BY <1>2, <1>3, <1>5, <2>1, <3>1, <3>2, HandoverBasics DEF Clean, Asked, Recorded
  <2> QED
    BY <2>2, <2>3
<1> QED
  BY <1>6, <1>7

(* The move, up to its end: what it carries is what was asked for.         *)
LEMMA CopyClean ==
    ASSUME HandoverTypes, Orderly, Clean, Load \/ Put \/ CopyStatus, excuse' = {}
    PROVE  Clean'
<1>1. PICK c \in Clusters, to \in Clusters : c = rc[Org] /\ to = move.to
  BY Here
<1>2. /\ UNCHANGED <<rc, locked, live, pass, asked>>
      /\ move'.byHand = move.byHand /\ move'.from = move.from /\ move'.to = to
      /\ move.at # "idle" /\ (move'.def = move.def \/ Load)
  BY Here, <1>1 DEF Load, Put, CopyStatus, Step, Moves
<1>3. /\ \A x \in Clusters \ {to} : def'[x] = def[x]
      /\ to = c => def' = def
  BY <1>1 DEF HandoverTypes, Load, Put, CopyStatus, Record, Hit
<1>4. Asked' /\ Recorded'
  BY <1>1, <1>2, <1>3 DEF Clean, Asked, Recorded
<1>5. CASE move.byHand
  BY <1>2, <1>4, <1>5 DEF Clean, Carried
<1>6. CASE ~move.byHand
  <2>1. /\ ~move.byHand /\ move.from = c /\ to # c /\ ~move.force
        /\ OrderlyAt(c) /\ OrderlyAt(to) /\ def[c] \in Defs /\ def[to] \in Defs
        /\ move.def \in Defs
    BY Here, <1>1, <1>2, <1>6 DEF LockHeld, MoveHolds, Moves
  <2>2. def'[c] = def[c]
    BY <1>3, <2>1
  <2>3. CASE Load
    <3>1. /\ move'.def = def[c] /\ move'.at = (IF def[c].exists THEN "put" ELSE "finalize")
          /\ def' = def /\ ~(def[c].exists /\ def[c].dt) /\ ~Unsaved(c)
          /\ ~(~def[c].exists /\ def[to].exists)
      BY Here, <1>1, <2>1, <2>3 DEF Load, Record, Hit, Moves
    <3>2. live \subseteq {Base} \cup def[c].known
      BY <1>1, <3>1 DEF Unsaved, Clean, Recorded
    <3>3. ~def[c].dt
      BY <2>1, <3>1, HandoverBasics DEF OrderlyAt
    <3>4. Carried'
      BY <1>1, <1>2, <3>1, <3>2, <3>3 DEF Carried
    <3> QED
      BY <1>4, <3>4 DEF Clean
  <2>4. CASE Put
    <3>1. /\ move.at = "put" /\ move'.def = move.def
          /\ move'.at = (IF def[to].exists THEN "finalize" ELSE "status")
          /\ def'[to] = IF def[to].exists THEN def[to]
                        ELSE [def[to] EXCEPT !.exists = TRUE, !.want = move.def.want]
          /\ def[to].exists => /\ def[to].want = move.def.want
                               /\ def[to].known = move.def.known /\ ~def[to].dt
      BY Here, <1>1, <2>1, <2>4 DEF Put, Step, Record, Hit, Moves, HandoverTypes
    <3>2. /\ def'[to].exists /\ def'[to].want = move.def.want /\ ~def'[to].dt
          /\ def[to].exists => def'[to].known = move.def.known
      BY <2>1, <3>1, HandoverBasics DEF Defs, OrderlyAt
    <3>3. Carried'
      BY <1>1, <1>2, <1>6, <2>2, <3>1, <3>2 DEF Clean, Carried
    <3> QED
      BY <1>4, <3>3 DEF Clean
  <2>5. CASE CopyStatus
    <3>1. /\ move.at = "status" /\ move'.def = move.def /\ move'.at = "finalize"
          /\ def'[to] = [def[to] EXCEPT !.known = move.def.known]
      BY Here, <1>1, <2>5 DEF CopyStatus, Step, Moves, HandoverTypes
    <3>2. /\ def'[to].exists = def[to].exists /\ def'[to].want = def[to].want
          /\ def'[to].dt = def[to].dt /\ def'[to].known = move.def.known
      BY <2>1, <3>1 DEF Defs
    <3>3. Carried'
      BY <1>1, <1>2, <1>6, <2>2, <3>1, <3>2 DEF Clean, Carried
    <3> QED
      BY <1>4, <3>3 DEF Clean
  <2> QED
    BY <2>3, <2>4, <2>5
<1> QED
  BY <1>5, <1>6

LEMMA MoveClean ==
    ASSUME HandoverTypes, Orderly, Clean,
           \/ \E c \in Clusters : MoveStart(c) \/ \E force \in BOOLEAN : CopyByHand(c, force)
           \/ Moving,
           excuse' = {}
    PROVE  Clean'
<1>1. Still.at = "idle"
  BY DEF Still
<1>2. CASE move'.at \in {"idle", "load"} /\ UNCHANGED <<rc, def, live, pass, asked>>
  BY <1>2 DEF Clean, Asked, Recorded, Carried
<1>3. CASE Finalize /\ ~move.byHand
  <2>1. PICK c \in Clusters, to \in Clusters : c = rc[Org] /\ to = move.to
    BY Here
  <2>2. /\ move.at = "finalize" /\ move'.at = "idle" /\ rc'[Org] = to
        /\ UNCHANGED <<def, live, pass, asked>> /\ pass[to].at = "idle"
    BY <1>1, <1>3, <2>1, HandoverBasics DEF Finalize, HandoverTypes, Record, Hit
  <2>3. ~move.byHand /\ def[to] \in Defs /\ OrderlyAt(to)
    BY Here, <1>3, <2>1
  <2>4. Carried' /\ Asked'
    BY <2>1, <2>2, <2>3 DEF Clean, Carried, Asked
  <2>5. Recorded'
    BY <2>1, <2>2, <2>3 DEF Clean, Carried, Recorded
  <2> QED
    BY <2>4, <2>5 DEF Clean
<1>4. CASE Load \/ Put \/ CopyStatus
  BY <1>4, CopyClean
<1> QED
  <2>1. ASSUME NEW c \in Clusters, MoveStart(c) \/ \E force \in BOOLEAN : CopyByHand(c, force)
        PROVE  move'.at = "load" /\ UNCHANGED <<rc, def, live, pass, asked>>
    BY <2>1 DEF MoveStart, CopyByHand, Still
  <2>2. CASE MoveFails \/ (Finalize /\ move.byHand)
    BY <1>1, <1>2, <2>2 DEF MoveFails, Finalize
  <2> QED
    BY <1>2, <1>3, <1>4, <2>1, <2>2 DEF Moving

-----------------------------------------------------------------------------
LEMMA HandoverStep == HandoverRuns /\ [HandoverNext]_handoverVars => HandoverRuns'
<1> SUFFICES ASSUME HandoverTypes, Orderly, excuse = {} => Clean, [HandoverNext]_handoverVars
             PROVE  HandoverTypes' /\ Orderly' /\ (excuse' = {} => Clean')
  BY DEF HandoverRuns
<1>1. excuse' = {} => excuse = {}
  BY DEF HandoverNext, handoverVars, Control, Moving, Recheck, Dies, Exit, Start, Begin, Apply,
     Save, Elsewhere, MoveStart, CopyByHand, Accept, Edit, Delete, Write, Load, Put, CopyStatus, MoveFails,
     Finalize, Record
<1>2. CASE UNCHANGED <<rc, locked, def, live, pass, move, requests, asked>> /\ HandoverTypes'
  BY <1>1, <1>2 DEF Orderly, Clean, Asked, Recorded, Carried
<1>3. CASE UNCHANGED handoverVars
  BY <1>2, <1>3 DEF handoverVars, HandoverTypes
<1>4. ASSUME NEW c \in Clusters, Recheck(c) \/ Dies(c)
      PROVE  HandoverTypes' /\ Orderly' /\ (excuse' = {} => Clean')
  BY <1>1, <1>4, ExitTypes, PassOrderly, ExitClean
<1>5. ASSUME NEW c \in Clusters, Start(c) PROVE HandoverTypes'
  BY <1>5 DEF Start, Resolve, OrganizationsOf, HandoverTypes
<1>6. ASSUME NEW c \in Clusters, Begin(c) \/ Apply(c) \/ Save(c)
      PROVE  HandoverTypes' /\ Orderly' /\ (excuse' = {} => Clean')
  BY <1>1, <1>6, BeginTypes, ApplyTypes, SaveTypes, PassOrderly, BeginClean, ApplyClean, SaveClean
<1>7. ASSUME NEW o \in Orgs, NEW c \in Clusters, Elsewhere(o, c)
      PROVE  HandoverTypes' /\ Orderly' /\ (excuse' = {} => Clean')
  <2>1. /\ UNCHANGED <<locked, watched, def, live, pass, move, requests, asked, excuse>>
        /\ rc'[Org] = rc[Org]
    BY <1>7, HandoverBasics DEF Elsewhere, HandoverTypes
  <2>2. HandoverTypes'
    BY <1>7, CountsGrow DEF Elsewhere, HandoverTypes
  <2>3. Orderly'
    BY <2>1 DEF Orderly
  <2> QED
    BY <1>1, <2>1, <2>2, <2>3 DEF Clean, Asked, Recorded, Carried
<1>8. ASSUME NEW want \in Wants \cup {{}}, Accept(want)
      PROVE  HandoverTypes' /\ Orderly' /\ (excuse' = {} => Clean')
  <2>1. UNCHANGED <<rc, def, live, pass, move, asked>>
    BY <1>8 DEF Accept
  <2>2. excuse' = {} => Clean'
    BY <1>1, <2>1 DEF Clean, Asked, Recorded, Carried
  <2> QED
    BY <1>8, <2>2, UserTypes, AcceptOrderly
<1>10. ASSUME NEW r \in requests, Edit(r) \/ Delete(r)
       PROVE  HandoverTypes' /\ Orderly' /\ (excuse' = {} => Clean')
  BY <1>1, <1>10, UserTypes, UserOrderly, UserClean
<1>9. CASE \/ \E c \in Clusters : MoveStart(c) \/ \E force \in BOOLEAN : CopyByHand(c, force)
           \/ Moving
  BY <1>1, <1>9, MoveTypes, MoveOrderly, MoveClean
<1> QED
  <2>1. ASSUME NEW c \in Clusters, Start(c)
        PROVE  HandoverTypes' /\ Orderly' /\ (excuse' = {} => Clean')
    BY <1>2, <1>5, <2>1 DEF Start
  <2> QED
    BY <1>3, <1>4, <1>6, <1>7, <1>8, <1>9, <1>10, <2>1 DEF HandoverNext, Control

LEMMA HandoverStart == HandoverInit => HandoverRuns
<1> SUFFICES ASSUME HandoverInit PROVE HandoverTypes /\ Orderly /\ Clean
  BY DEF HandoverRuns
<1> DEFINE d == [exists |-> TRUE, dt |-> FALSE, fin |-> TRUE, want |-> asked, known |-> asked \ {Base}]
<1>1. /\ rc \in [Orgs -> Clusters] /\ rc[Org] = Home /\ locked = FALSE
      /\ watched = [c \in Clusters |-> [up |-> TRUE, set |-> {o \in Orgs : rc[o] = c}]]
      /\ asked \in Wants /\ def = [c \in Clusters |-> IF c = Home THEN d ELSE Nothing]
      /\ live = asked /\ pass = [c \in Clusters |-> Idle] /\ move = Still
      /\ requests = {} /\ excuse = {} /\ count = [moves |-> 0, edits |-> 0, faults |-> 0]
  BY DEF HandoverInit
<1>2. asked \ {Base} \subseteq Extras /\ Base \in asked
  BY <1>1 DEF Wants
<1>3. /\ d = [exists |-> TRUE, dt |-> FALSE, fin |-> TRUE, want |-> asked, known |-> asked \ {Base}]
      /\ d \in Defs
  BY <1>1, <1>2, HandoverBasics, DefsMade
<1> HIDE DEF d
<1>4. HandoverTypes
  <2>1. def \in [Clusters -> Defs] /\ pass \in [Clusters -> Passes]
    BY <1>1, <1>3, HandoverBasics
  <2>2. move \in Moves /\ count \in Counts
    BY <1>1, HandoverBasics DEF Still, Moves, Counts
  <2> QED
    BY <1>1, <2>1, <2>2 DEF HandoverTypes
<1>5. def[Home] = d /\ \A c \in Clusters : pass[c].at = "idle" /\ (c # Home => def[c] = Nothing)
  BY <1>1, HandoverBasics
<1>6. Orderly
  <2>1. move.at = "idle" /\ requests = {}
    BY <1>1 DEF Still
  <2> QED
    BY <1>3, <1>5, <2>1, HandoverBasics DEF Orderly
<1>7. Asked /\ Recorded /\ Carried
  <2>1. Carried
    BY <1>1 DEF Carried, Still
  <2>2. Asked /\ Recorded
    BY <1>1, <1>2, <1>3, <1>5, HandoverBasics DEF Asked, Recorded
  <2> QED
    BY <2>1, <2>2
<1> QED
  BY <1>4, <1>6, <1>7 DEF Clean

(* As long as none of the windows is hit, the definition where the         *)
(* organization is says what was asked for last, and tells of all that     *)
(* runs: through passes, restarts, requests that are written long after    *)
(* they were checked, moves that leave their lock behind, moves and moves  *)
(* back, of any number (Reconcile, requireOrganizationNotMigrating,        *)
(* migrateOrganizationToTarget, runMigrateCluster).                        *)
THEOREM HandoverInvariant == HandoverSpec => []HandoverInv
BY HandoverStart, HandoverStep, HandoverInvIs, PTL DEF HandoverSpec

=============================================================================
