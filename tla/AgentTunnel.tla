----------------------------- MODULE AgentTunnel -----------------------------
(***************************************************************************)
(* The tunnel between the hyve-agent of one cluster and the API server's   *)
(* pods: the reconnect loop of each agent pod (internal/agent/connect.go), *)
(* one handler goroutine per accepted connection (internal/api/            *)
(* agent_listener.go), the registry each API pod keeps in memory           *)
(* (internal/api/agentregistry.go), and the handlers' best-effort merge    *)
(* patches of status.agent.  The registry is keyed by the cluster that the *)
(* agent's certificate names, so agents of other clusters do not matter.   *)
(***************************************************************************)
EXTENDS Naturals

CONSTANTS
    Agents,         \* agent pods: two may run side by side during a rollout
    Pods,           \* replicas of the API server
    LateHandshake,  \* TRUE if an agent's next connection may register before this one
    MaxConns,       \* bound on connections the agent dials
    MaxVersion,     \* bound on upgrades of the agent
    MaxFaults       \* bound on drops, restarts, crashes and failed calls

ASSUME TunnelAssumption ==
    /\ LateHandshake \in BOOLEAN /\ Agents # {} /\ Pods # {}
    /\ MaxConns \in Nat /\ MaxFaults \in Nat
    /\ MaxVersion \in Nat \ {0}

VARIABLES
    running,    \* the agent pods that are up
    version,    \* per agent pod: the version of its image
    session,    \* per agent pod: the connection its Run waits on, 0 for none
    link,       \* connections whose transport is up
    conn,       \* per connection: the agent pod that dials it, version, last heartbeat
    handler,    \* per connection: where the goroutine that serves it is
    home,       \* per connection: the API pod it reaches
    patch,      \* per connection: the version in the patch it is sending
    registry,   \* per pod: the current connection, 0 for none
    status,     \* status.agent of the ClusterDefinition
    superseded, \* history: connections overwritten while their handler ran
    overlap,    \* history: a handler registered while another was not done
    lost,       \* history: a patch failed, or a pod died
    faults      \* faults so far

agentVars   == <<running, version, session>>
networkVars == <<link, conn>>
serverVars  == <<handler, home, patch, registry>>
history     == <<superseded, overlap, lost>>
vars == <<agentVars, networkVars, serverVars, status, history, faults>>

Conns    == 1..MaxConns
Versions == 1..MaxVersion
Heard    == {"nothing", "noToken", "token"}
Handlers == {"none", "handshake", "opening", "serving", "closing", "done"}

Active(c)  == handler[c] \in {"opening", "serving", "closing"}
Serving(c) == handler[c] \in {"opening", "serving"}

Fault == faults < MaxFaults /\ faults' = faults + 1

Init ==
    /\ running = {} /\ version = [a \in Agents |-> 1]
    /\ session = [a \in Agents |-> 0]
    /\ link = {}
    /\ conn \in [Conns -> [agent : Agents, version : {1}, heard : {"nothing"}]]
    /\ handler = [c \in Conns |-> "none"]
    /\ home \in [Conns -> Pods]
    /\ patch = [c \in Conns |-> 0]
    /\ registry = [p \in Pods |-> 0]
    /\ status = [connected |-> FALSE, version |-> 0]
    /\ superseded = {} /\ overlap = FALSE /\ lost = FALSE
    /\ faults = 0

-----------------------------------------------------------------------------
(* The agents' side.                                                       *)

(* A pod starts, with the image of its predecessor or an upgrade; it may   *)
(* do so while that predecessor still runs.                                *)
AgentStart(a) ==
    /\ a \notin running
    /\ running' = running \cup {a}
    /\ \E v \in Versions :
         /\ \A b \in Agents : version[b] <= v
         /\ version' = [version EXCEPT ![a] = v]
    /\ UNCHANGED <<session, networkVars, serverVars, status, history, faults>>

(* A cancelled context closes the connection; a killed pod loses it.       *)
AgentStop(a) ==
    /\ a \in running /\ Fault
    /\ running' = running \ {a}
    /\ session' = [session EXCEPT ![a] = 0]
    /\ link' = link \ {session[a]}
    /\ UNCHANGED <<version, conn, serverVars, status, history>>

(* connectOnce succeeded on the agent's side: the server accepted its      *)
(* certificate, and a goroutine there is about to learn so.  An agent pod  *)
(* dials its connections in the order of their numbers.                    *)
Dial(a) ==
    /\ a \in running /\ session[a] = 0
    /\ \E c \in Conns :
         /\ conn[c].agent = a /\ handler[c] = "none"
         /\ \A d \in Conns : conn[d].agent = a /\ handler[d] = "none" => c <= d
         /\ session' = [session EXCEPT ![a] = c]
         /\ link' = link \cup {c}
         /\ conn' = [conn EXCEPT ![c].version = version[a]]
         /\ handler' = [handler EXCEPT ![c] = "handshake"]
    /\ UNCHANGED <<running, version, home, patch, registry, status, history, faults>>

(* conn.Wait returns on the agent's side: back to the top of the loop.     *)
AgentNotices(a) ==
    /\ session[a] # 0 /\ session[a] \notin link
    /\ session' = [session EXCEPT ![a] = 0]
    /\ UNCHANGED <<running, version, networkVars, serverVars, status, history,
                   faults>>

Drop ==
    /\ Fault
    /\ \E c \in link : link' = link \ {c}
    /\ UNCHANGED <<agentVars, conn, serverVars, status, history>>

(* runHeartbeat sends, drainAgentRequests records; the agent may fail to   *)
(* read its ServiceAccount token.                                          *)
Heartbeat(c, heard) ==
    /\ c \in link /\ handler[c] \in {"handshake", "opening", "serving"}
    /\ conn' = [conn EXCEPT ![c].heard = heard]
    /\ UNCHANGED <<agentVars, link, serverVars, status, history>>

HeartbeatWithToken(c)    == Heartbeat(c, "token") /\ UNCHANGED faults
HeartbeatWithoutToken(c) == Heartbeat(c, "noToken") /\ Fault

-----------------------------------------------------------------------------
(* handleAgentConnection on the server's side.                             *)

(* AgentConnection.Version.                                                *)
ReportedVersion(c) == IF conn[c].heard = "nothing" THEN 0 ELSE conn[c].version

HandshakeFails(c) ==
    /\ handler[c] = "handshake" /\ c \notin link
    /\ handler' = [handler EXCEPT ![c] = "done"]
    /\ UNCHANGED <<agentVars, networkVars, home, patch, registry, status, history,
                   faults>>

(* An agent pod dials again only once it has lost this connection.         *)
Overtaken(c) ==
    \E d \in Conns : /\ d > c /\ conn[d].agent = conn[c].agent
                     /\ handler[d] \notin {"none", "handshake"}

(* AgentRegistry.Register overwrites whatever connection was current.      *)
Latest(current, c) == c

Register(c) ==
    /\ handler[c] = "handshake" /\ (Overtaken(c) => LateHandshake)
    /\ registry' = [registry EXCEPT ![home[c]] = Latest(@, c)]
    /\ handler' = [handler EXCEPT ![c] = "opening"]
    /\ patch' = [patch EXCEPT ![c] = ReportedVersion(c)]
    /\ superseded' = superseded \cup {d \in Conns : Serving(d) /\ home[d] = home[c]}
    /\ overlap' = (overlap \/ \E d \in Conns : Active(d))
    /\ UNCHANGED <<agentVars, networkVars, home, status, lost, faults>>

(* Mutant of Merged: connected has omitempty, so a merge drops its FALSE.  *)
MergedOmittingFalse(connected, v) ==
    [connected |-> connected \/ status.connected,
     version |-> IF v = 0 THEN status.version ELSE v]

(* The merge patch: connected always, the version unless it is empty.      *)
Merged(connected, v) ==
    [connected |-> connected, version |-> IF v = 0 THEN status.version ELSE v]

(* writeAgentStatus: one attempt, bounded by a timeout, logged if it fails. *)
WriteStatus(c, connected) ==
    \/ status' = Merged(connected, patch[c]) /\ UNCHANGED <<lost, faults>>
    \/ Fault /\ lost' = TRUE /\ UNCHANGED status

WriteConnected(c) ==
    /\ handler[c] = "opening"
    /\ WriteStatus(c, TRUE)
    /\ handler' = [handler EXCEPT ![c] = "serving"]
    /\ UNCHANGED <<agentVars, networkVars, home, patch, registry, superseded, overlap>>

(* Mutant of RemoveIfCurrent: the entry is deleted by its key alone.       *)
RemoveByKey(current, c) == 0

RemoveIfCurrent(current, c) == IF current = c THEN 0 ELSE current

(* Mutant of AfterWait: every connection reports its end.                  *)
ReportAlways(c) == "closing"

(* Only the connection that was current goes on to report its end.         *)
AfterWait(c) == IF registry[home[c]] = c THEN "closing" ELSE "done"

(* serverConn.Wait returns on the server's side.                           *)
Disconnect(c) ==
    /\ handler[c] = "serving" /\ c \notin link
    /\ registry' = [registry EXCEPT ![home[c]] = RemoveIfCurrent(@, c)]
    /\ handler' = [handler EXCEPT ![c] = AfterWait(c)]
    /\ patch' = [patch EXCEPT ![c] = ReportedVersion(c)]
    /\ UNCHANGED <<agentVars, networkVars, home, status, history, faults>>

WriteDisconnected(c) ==
    /\ handler[c] = "closing"
    /\ WriteStatus(c, FALSE)
    /\ handler' = [handler EXCEPT ![c] = "done"]
    /\ UNCHANGED <<agentVars, networkVars, home, patch, registry, superseded, overlap>>

(* A pod dies with its registry, its connections and their handlers, and   *)
(* is replaced.                                                            *)
Crash(p) ==
    LET hit == {c \in Conns : home[c] = p /\ handler[c] # "none"} IN
    /\ Fault
    /\ registry' = [registry EXCEPT ![p] = 0]
    /\ link' = link \ hit
    /\ handler' = [c \in Conns |-> IF c \in hit THEN "done" ELSE handler[c]]
    /\ lost' = TRUE
    /\ UNCHANGED <<agentVars, conn, home, patch, status, superseded, overlap>>

-----------------------------------------------------------------------------
Agent(a) == AgentStart(a) \/ AgentStop(a) \/ Dial(a) \/ AgentNotices(a)

Handler(c) == HandshakeFails(c) \/ Register(c) \/ WriteConnected(c) \/ Disconnect(c)
              \/ WriteDisconnected(c)

Next == \/ \E a \in Agents : Agent(a)
        \/ Drop
        \/ \E c \in Conns :
             HeartbeatWithToken(c) \/ HeartbeatWithoutToken(c) \/ Handler(c)
        \/ \E p \in Pods : Crash(p)

Spec == Init /\ [][Next]_vars

(* The agent's loop never gives up, its heartbeat ticks, and a handler is  *)
(* never stuck: a dead peer is noticed and a patch ends by its timeout.    *)
FairSpec == /\ Spec
            /\ \A a \in Agents : WF_vars(Dial(a)) /\ WF_vars(AgentNotices(a))
            /\ \A c \in Conns : WF_vars(HeartbeatWithToken(c)) /\ WF_vars(Handler(c))

-----------------------------------------------------------------------------
TypeOK ==
    /\ running \subseteq Agents /\ version \in [Agents -> Versions]
    /\ session \in [Agents -> 0..MaxConns]
    /\ link \subseteq Conns
    /\ conn \in [Conns -> [agent : Agents, version : Versions, heard : Heard]]
    /\ handler \in [Conns -> Handlers] /\ home \in [Conns -> Pods]
    /\ patch \in [Conns -> 0..MaxVersion]
    /\ registry \in [Pods -> 0..MaxConns]
    /\ status \in [connected : BOOLEAN, version : 0..MaxVersion]
    /\ superseded \subseteq Conns /\ overlap \in BOOLEAN /\ lost \in BOOLEAN
    /\ faults \in Nat

(* AgentRegistry: a pod's entry is the connection registered last there,   *)
(* for exactly as long as that connection's handler serves it.             *)
RegistryHoldsLatest ==
    \A p \in Pods, c \in Conns :
        registry[p] = c <=> home[c] = p /\ Serving(c) /\ c \notin superseded

(* The comment in handleAgentConnection: a connection that a newer one has *)
(* superseded never writes Connected: false.                               *)
SupersededStaysSilent ==
    \A c \in Conns : handler[c] = "closing" => c \notin superseded

(* AgentStatus.Connected tells the truth once the handlers are at rest, as *)
(* long as no connection overlapped its predecessor's end, on any pod, and *)
(* no patch or pod was lost.                                               *)
StatusTrueUnlessExcused ==
    ~overlap /\ ~lost =>
        /\ \A c \in Conns : handler[c] = "serving" => status.connected
        /\ status.connected => \E c \in Conns : handler[c] \in {"serving", "closing"}

(* Without overlap at most one handler is active and none is superseded.   *)
OneAtATime ==
    ~overlap => /\ superseded = {}
                /\ \A c, d \in Conns : Active(c) /\ Active(d) => c = d

SupersededServed == \A c \in superseded : handler[c] \notin {"none", "handshake"}

ClosingStillShown ==
    ~overlap /\ ~lost => \A c \in Conns : handler[c] = "closing" => status.connected

(* The inductive invariant behind the theorems.                            *)
TunnelInv ==
    /\ TypeOK
    /\ RegistryHoldsLatest /\ SupersededStaysSilent /\ StatusTrueUnlessExcused
    /\ OneAtATime /\ SupersededServed /\ ClosingStillShown

(* handleAgentProxy finds this agent's connection, with a token to use.    *)
Proxyable(a) ==
    LET c == session[a] IN
    /\ c \in link /\ registry[home[c]] = c
    /\ conn[c].heard = "token"

(* Run never gives up and RemoveIfCurrent never evicts a newer connection: *)
(* an agent left to itself ends up reachable through the proxy for good.   *)
ReachableAgain ==
    \A a \in Agents :
        [](\A c \in Conns : conn[c].agent = a) /\ <>[](running = {a}) => <>[]Proxyable(a)

-----------------------------------------------------------------------------
(* Four statements of comments that the code does not live up to.          *)

AllAtRest == \A c \in Conns : handler[c] \in {"none", "serving", "done"}

(* The comment in handleAgentConnection: the newer connection's Connected: *)
(* true is not stomped by a stale connection's disconnect.                 *)
LiveSessionShown ==
    AllAtRest /\ ~lost /\ (\E a \in Agents : Proxyable(a)) => status.connected

(* The comment on AgentStatus.Connected: true only while a session is held *)
(* in the registry.                                                        *)
ConnectedMeansHeld ==
    AllAtRest /\ ~lost /\ status.connected => \E p \in Pods : registry[p] # 0

(* The comment on AgentStatus.Version: the agent's version at last connect. *)
VersionOfLastConnect ==
    AllAtRest /\ ~lost /\ ~overlap =>
        \A a \in Agents : Proxyable(a) => status.version = version[a]

(* The comment on RemoveIfCurrent: a stale connection's end leaves the     *)
(* valid connection of the agent that is up in the registry.               *)
LiveSessionRegistered ==
    AllAtRest /\ ~lost =>
        \A a \in Agents :
            running = {a} /\ session[a] \in link => registry[home[session[a]]] # 0
=============================================================================
