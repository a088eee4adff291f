------------------------------ MODULE Contexts ------------------------------
(***************************************************************************)
(* What the hyve CLI remembers on one machine: its contexts                *)
(* (internal/repository), the session of its login (internal/session) and  *)
(* how each command decides from them where to act (cmd/shared).  Both     *)
(* live in one SQLite file.  A command is a process of its own and reads   *)
(* and writes the file one statement at a time, so commands that are run   *)
(* side by side interleave and one that is killed, or meets a locked       *)
(* database, stops between two statements.                                 *)
(***************************************************************************)
EXTENDS Naturals, FiniteSets

CONSTANTS
    Procs,        \* commands that may run at a time
    MaxContexts,  \* bound on names: a context is called 1, 2, ... in their order
    Servers,      \* hyve-api servers
    Orgs,         \* organizations; every server has them all
    None,         \* no server, no organization, no environment, no context
    MaxCommands   \* bound on commands

Names == 1..MaxContexts

ASSUME ContextsAssumption ==
    /\ MaxContexts \in Nat /\ MaxCommands \in Nat \ {0}
    /\ None \notin Servers /\ None \notin Orgs /\ None \notin Names

VARIABLES
    rows,     \* repositories, by name
    lastId,   \* the AUTOINCREMENT of their ids
    secrets,  \* environment_secrets: the ids of the contexts that have any
    session,  \* the one row of session
    live,     \* sessions that no logout has revoked
    old,      \* repositories.db of an earlier version: the context in it, and if it was current
    proc,     \* the command of each process
    started,  \* commands so far; numbers their sessions too
    lapses    \* history: the windows that have been hit

contextsVars == <<rows, lastId, secrets, session, live, old, proc, started, lapses>>

Windows == {
    "unknown",  \* a context was asked for that there is none of
    "torn",     \* a command was cut short between unsetting and setting the current context
    "overlap",  \* two commands were choosing the current context
    "imported", \* a context of the old database was taken in beside others, or not current
    "switched", \* contexts or a selection changed under a command that had looked at them
    "relogged", \* a login was saved while another session's token was being refreshed
    "foreign",  \* an environment was selected of an organization named by --org, and not the context's
    "late"      \* a secret was saved on a context that was being removed
    }

(* A selection is known by the server it was made on; an environment also  *)
(* by its organization, None being the one the server picks.               *)
OrgSel == {None} \cup (Servers \X Orgs)
EnvSel == {None} \cup (Servers \X (Orgs \cup {None}))

NoRow     == [id |-> 0, cur |-> FALSE, local |-> FALSE, api |-> None, org |-> None, env |-> None]
NoSession == [sid |-> 0, api |-> None, token |-> 0, fresh |-> FALSE]

(* How a command works: whether it can in cluster mode, whether its        *)
(* requests carry the environment, and how often it looks up the directory *)
(* in local mode: 0 if it cannot work there, 2 for twice or more.          *)
ShowCluster     == [remote |-> TRUE,  scoped |-> TRUE,  lookups |-> 1]
AuthCluster     == [remote |-> TRUE,  scoped |-> TRUE,  lookups |-> 1]
CreateCluster   == [remote |-> TRUE,  scoped |-> TRUE,  lookups |-> 2]
DeleteCluster   == [remote |-> TRUE,  scoped |-> TRUE,  lookups |-> 2]
AdoptCluster    == [remote |-> FALSE, scoped |-> FALSE, lookups |-> 2]
CreateTemplate  == [remote |-> TRUE,  scoped |-> FALSE, lookups |-> 1]
ManageTemplates == [remote |-> TRUE,  scoped |-> FALSE, lookups |-> 1]
CreateWorkflow  == [remote |-> TRUE,  scoped |-> FALSE, lookups |-> 1]
DeleteWorkflow  == [remote |-> TRUE,  scoped |-> FALSE, lookups |-> 1]
ShowWorkflows   == [remote |-> TRUE,  scoped |-> FALSE, lookups |-> 2]
RunWorkflow     == [remote |-> TRUE,  scoped |-> TRUE,  lookups |-> 2]
CreateResource  == [remote |-> TRUE,  scoped |-> FALSE, lookups |-> 1]
ShowResources   == [remote |-> TRUE,  scoped |-> FALSE, lookups |-> 2]
Organizations   == [remote |-> TRUE,  scoped |-> FALSE, lookups |-> 0]
Environments    == [remote |-> TRUE,  scoped |-> FALSE, lookups |-> 0]
Registrations   == [remote |-> TRUE,  scoped |-> FALSE, lookups |-> 0]
Works == {ShowCluster, AuthCluster, CreateCluster, DeleteCluster, AdoptCluster,
          CreateTemplate, ManageTemplates, CreateWorkflow, DeleteWorkflow, ShowWorkflows,
          RunWorkflow, CreateResource, ShowResources, Organizations,
          Environments, Registrations}

(* What a command keeps in memory.                                         *)
Idle == [op |-> "idle", at |-> "idle",
         no |-> 0,                              \* the session that a login is to get
         remote |-> FALSE, scoped |-> FALSE,    \* of one of Works
         name |-> None, local |-> FALSE, api |-> None, pick |-> None,  \* arguments
         forOrg |-> None, forEnv |-> FALSE,     \* --org, and whether --env is given
         first |-> FALSE, had |-> FALSE,        \* no context was there; some were
         sess |-> NoSession,                    \* the session it has loaded
         meant |-> NoRow,                       \* the context it took its mode from
         own |-> 0, id |-> 0,                   \* whose secrets it runs with, and sets
         org |-> None, env |-> None,            \* what its requests carry
         left |-> 0, dirs |-> {}]               \* lookups to go, directories worked in

-----------------------------------------------------------------------------
Exists(n)  == rows[n].id # 0
Registered == {n \in Names : Exists(n)}
Currents   == {n \in Names : rows[n].cur}
With(api)  == {n \in Registered : rows[n].api = api}
Oldest(S)  == CHOOSE n \in S : \A m \in S : rows[n].id <= rows[m].id

(* GetCurrentRepository, with LIMIT 1: the first by rowid that is marked.  *)
Current == IF Currents = {} THEN NoRow ELSE rows[Oldest(Currents)]

(* filepath.Join(LocalPath, "clusters"): without a local path, clusters in *)
(* whatever directory the command was run.                                 *)
Dir(r) == IF r.local THEN r.id ELSE 0

At(p, step)   == proc[p].at = step
Goto(p, step) == proc' = [proc EXCEPT ![p].at = step]
End(p)        == proc' = [proc EXCEPT ![p] = Idle]
Become(p, c)  == proc' = [proc EXCEPT ![p] = c]
Hit(cond, window) == IF cond THEN {window} ELSE {}
Record(hits)  == lapses' = lapses \cup hits

(* Commands on their way to choosing the current context, and commands     *)
(* that have looked at it and will act on what they saw.                   *)
Choosing(q) == \/ proc[q].at \in {"clear", "insert", "unset", "set"}
               \/ proc[q].op = "remove" /\ proc[q].at \in {"forget", "drop"}
Looking(q)  == /\ proc[q].op \in {"work", "secret", "useOrg", "useEnv", "deleteEnv"}
               /\ proc[q].at \in {"mode", "load", "token", "env", "org", "send", "pick",
                                  "select", "target", "keep", "dir"}

(* A write to rows, as the commands beside p see it.                       *)
Moved(p) == Hit(\E q \in Procs \ {p} : Choosing(q), "overlap")
            \cup Hit(\E q \in Procs \ {p} : Looking(q), "switched")

(* A machine that has not been used, but perhaps an earlier version has, or*)
(* one with two contexts, one of them for a server, where an organization  *)
(* and an environment are selected and somebody may be logged in.          *)
NoOld == [name |-> None, cur |-> FALSE]

Unused ==
    /\ rows = [n \in Names |-> NoRow] /\ lastId = 0 /\ session = NoSession
    /\ old \in [name : Names, cur : BOOLEAN] \cup {NoOld}

InUse ==
    /\ \E s \in Servers, t \in Servers \cup {None}, c \in {1, 2} \cap Names, o \in Orgs :
         /\ rows = [n \in Names |->
               CASE n = 1 -> [NoRow EXCEPT !.id = 1, !.cur = (c = 1), !.local = (t = None), !.api = t]
                 [] n = 2 -> [NoRow EXCEPT !.id = 2, !.cur = (c = 2), !.api = s,
                                           !.org = <<s, o>>, !.env = <<s, o>>]
                 [] OTHER -> NoRow]
         /\ session \in {NoSession, [sid |-> 1, api |-> s, token |-> 1, fresh |-> TRUE]}
         /\ old \in {NoOld} \cup (IF t = None /\ c = 2 THEN {[name |-> 1, cur |-> TRUE]} ELSE {})
    /\ lastId = 2

ContextsInit ==
    /\ Unused \/ InUse
    /\ live = {session.sid} \ {0}
    /\ secrets = {}
    /\ proc = [p \in Procs |-> Idle]
    /\ started = 1
    /\ lapses = {}

-----------------------------------------------------------------------------
(* A command is run. Every command takes --org and --env; they are here    *)
(* where a request, or what the command does after it, depends on them.    *)
Begin(p, c) ==
    /\ proc[p] = Idle /\ started < MaxCommands
    /\ started' = started + 1
    /\ Become(p, [c EXCEPT !.at = IF old.name = None THEN "prelude" ELSE "open",
                         !.no = IF c.op = "login" THEN started' ELSE 0])
    /\ UNCHANGED <<rows, lastId, secrets, session, live, old, lapses>>

CreateContext(p, n, local, api) ==
    /\ local \/ api # None
    /\ Begin(p, [Idle EXCEPT !.op = "create", !.name = n, !.local = local, !.api = api])
Use(p, n)      == Begin(p, [Idle EXCEPT !.op = "use", !.name = n])
RemoveContext(p, n)   == Begin(p, [Idle EXCEPT !.op = "remove", !.name = n])
Login(p, s, o) == Begin(p, [Idle EXCEPT !.op = "login", !.api = s, !.pick = o])
Logout(p)      == Begin(p, [Idle EXCEPT !.op = "logout"])
UseOrg(p, o)   == Begin(p, [Idle EXCEPT !.op = "useOrg", !.pick = o])
UseEnv(p, o)   == Begin(p, [Idle EXCEPT !.op = "useEnv", !.forOrg = o])
UnsetEnv(p)    == Begin(p, [Idle EXCEPT !.op = "unsetEnv"])
DeleteEnv(p, o, e) == Begin(p, [Idle EXCEPT !.op = "deleteEnv", !.forOrg = o, !.forEnv = e])
Secret(p, o)   == Begin(p, [Idle EXCEPT !.op = "secret", !.forOrg = o])
Work(p, w, o, e) ==
    /\ o # None => w.remote
    /\ e => w.scoped
    /\ Begin(p, [Idle EXCEPT !.op = "work", !.remote = w.remote, !.scoped = w.scoped,
                             !.left = w.lookups, !.forOrg = o, !.forEnv = e])

(* migrateFromRepositoriesDB, whenever the database is opened: a context   *)
(* of the old one that there is none of is taken in, current if it was.    *)
Open(p) ==
    /\ At(p, "open")
    /\ Goto(p, "prelude")
    /\ IF old.name # None /\ ~Exists(old.name)
       THEN /\ rows' = [rows EXCEPT ![old.name] =
                  [NoRow EXCEPT !.id = lastId + 1, !.cur = old.cur, !.local = TRUE]]
            /\ lastId' = lastId + 1
            /\ Record(Moved(p) \cup Hit(Registered # {} \/ ~old.cur, "imported"))
       ELSE UNCHANGED <<rows, lastId, lapses>>
    /\ UNCHANGED <<secrets, session, live, old, started>>

(* EnsureValidSession: the session as it is, or with a new token for it    *)
(* from the server, which is then still to be saved.  The server may refuse*)
(* or not be reached.                                                      *)
Ensure(good, save, bad) ==
    \/ session.fresh /\ good
    \/ ~session.fresh /\ session.sid \in live /\ save
    \/ ~session.fresh /\ bad

(* SaveAccessToken: on the row of session, whose ever that is by now.      *)
SaveAccessToken(p) ==
    session' = IF session.sid = 0 THEN session
               ELSE [session EXCEPT !.token = proc[p].sess.sid, !.fresh = TRUE]

First(op) == CASE op = "create" -> "exists" [] op = "use" -> "unset" [] op = "remove" -> "lookup"
               [] op = "login" -> "login" [] op = "logout" -> "logout" [] op = "unsetEnv" -> "pick"
               [] OTHER -> "mode"

(* loadLocalEnvironmentSecrets: those of the current context.              *)
LoadOwn(p) == Become(p, [proc[p] EXCEPT !.at = First(proc[p].op), !.own = Current.id])

(* LoadEnvironmentSecrets, before every command: the session is refreshed  *)
(* if it can be; whatever comes of that, the command goes on.              *)
Prelude(p) ==
    /\ At(p, "prelude")
    /\ Ensure(LoadOwn(p), Become(p, [proc[p] EXCEPT !.at = "early", !.sess = session]), LoadOwn(p))
    /\ UNCHANGED <<rows, lastId, secrets, session, live, old, started, lapses>>

EarlyToken(p) ==
    /\ At(p, "early")
    /\ SaveAccessToken(p)
    /\ Become(p, [proc[p] EXCEPT !.at = "own", !.sess = NoSession])
    /\ UNCHANGED <<rows, lastId, secrets, live, old, started, lapses>>

OwnSecrets(p) ==
    /\ At(p, "own")
    /\ LoadOwn(p)
    /\ UNCHANGED <<rows, lastId, secrets, session, live, old, started, lapses>>

-----------------------------------------------------------------------------
(* hyve context create, use and remove, and what logging in shares with    *)
(* them.  Every step is one statement of internal/repository.              *)

Clear == rows' = [n \in Names |-> [rows[n] EXCEPT !.cur = FALSE]]

(* AddRepository: the first context of all becomes the current one.        *)
AddFailed(p) == IF proc[p].op = "login" THEN Goto(p, "remember") ELSE End(p)

CheckName(p) ==
    /\ At(p, "exists")
    /\ IF Exists(proc[p].name) THEN AddFailed(p)
       ELSE Become(p, [proc[p] EXCEPT !.first = (Registered = {}),
                                      !.at = IF Registered = {} THEN "clear" ELSE "insert"])
    /\ UNCHANGED <<rows, lastId, secrets, session, live, old, started, lapses>>

ClearFirst(p) ==
    /\ At(p, "clear")
    /\ Clear
    /\ Goto(p, "insert")
    /\ Record(Moved(p))
    /\ UNCHANGED <<lastId, secrets, session, live, old, started>>

Insert(p) ==
    /\ At(p, "insert")
    /\ LET c == proc[p]
       IN  IF Exists(c.name)   \* name is UNIQUE
           THEN /\ AddFailed(p)
                /\ UNCHANGED <<rows, lastId, lapses>>
           ELSE /\ rows' = [rows EXCEPT ![c.name] = [NoRow EXCEPT
                      !.id = lastId + 1, !.cur = c.first, !.local = c.local, !.api = c.api]]
                /\ lastId' = lastId + 1
                /\ Goto(p, IF c.op = "login" /\ c.had THEN "remember" ELSE "unset")
                /\ Record(Moved(p))
    /\ UNCHANGED <<secrets, session, live, old, started>>

(* SetCurrentRepository: unsetCurrentRepository, then the one.             *)
Unset(p) ==
    /\ At(p, "unset")
    /\ Clear
    /\ Goto(p, "set")
    /\ Record(Moved(p))
    /\ UNCHANGED <<lastId, secrets, session, live, old, started>>

Set(p) ==
    /\ At(p, "set")
    /\ LET c == proc[p]
           n == IF c.op = "remove" THEN c.pick ELSE c.name
       IN  /\ rows' = IF Exists(n) THEN [rows EXCEPT ![n].cur = TRUE] ELSE rows
           /\ IF c.op = "login" THEN Goto(p, "remember")
              ELSE IF c.op = "remove" /\ Exists(n) THEN Goto(p, "forget")
              ELSE End(p)
           /\ Record(Moved(p) \cup Hit(~Exists(n), "unknown"))
    /\ UNCHANGED <<lastId, secrets, session, live, old, started>>

(* removeContext: of the current one, another one takes the place, the     *)
(* first of ListRepositories.                                              *)
Others(n) == Registered \ {n}
Listed(n) ==
    LET marked == Others(n) \cap Currents
    IN  CHOOSE m \in Others(n) :
          /\ marked # {} => m \in marked
          /\ \A k \in Others(n) : (marked = {} \/ k \in marked) => m <= k

(* Mutant of Lookup: nothing takes its place.                              *)
LookupWithoutHeir(p) ==
    /\ At(p, "lookup")
    /\ IF Exists(proc[p].name) THEN Goto(p, "forget") ELSE End(p)
    /\ UNCHANGED <<rows, lastId, secrets, session, live, old, started, lapses>>

Lookup(p) ==
    /\ At(p, "lookup")
    /\ LET n == proc[p].name
       IN  IF ~Exists(n) THEN End(p)
           ELSE IF Current = rows[n] /\ Others(n) # {}
           THEN Become(p, [proc[p] EXCEPT !.at = "unset", !.pick = Listed(n)])
           ELSE Goto(p, "forget")
    /\ UNCHANGED <<rows, lastId, secrets, session, live, old, started, lapses>>

(* DeleteRepository: no foreign key takes its secrets along.               *)
Forget(p) ==
    /\ At(p, "forget")
    /\ secrets' = secrets \ {rows[proc[p].name].id}
    /\ Goto(p, "drop")
    /\ UNCHANGED <<rows, lastId, session, live, old, started, lapses>>

Drop(p) ==
    /\ At(p, "drop")
    /\ rows' = [rows EXCEPT ![proc[p].name] = NoRow]
    /\ End(p)
    /\ Record(Moved(p) \cup Hit(\E q \in Procs : At(q, "keep"), "late"))
    /\ UNCHANGED <<lastId, secrets, session, live, old, started>>

-----------------------------------------------------------------------------
(* hyve context login and logout.                                          *)

(* The server is the one asked for, or that of the current context.        *)
PerformLogin(p) ==
    /\ At(p, "login")
    /\ LET api == IF proc[p].api # None THEN proc[p].api ELSE Current.api
       IN  \/ /\ End(p)   \* no server, or it refuses
              /\ UNCHANGED live
           \/ /\ api # None
              /\ live' = live \cup {proc[p].no}
              /\ Become(p, [proc[p] EXCEPT !.at = "save", !.api = api,
                     !.sess = [sid |-> proc[p].no, api |-> api, token |-> proc[p].no, fresh |-> TRUE]])
    /\ UNCHANGED <<rows, lastId, secrets, session, old, started, lapses>>

(* session.Save: in the place of whatever was there.                       *)
SaveSession(p) ==
    /\ At(p, "save")
    /\ session' = proc[p].sess
    /\ Goto(p, "register")
    /\ Record(Hit(\E q \in Procs : proc[q].at \in {"early", "token"}, "relogged"))
    /\ UNCHANGED <<rows, lastId, secrets, live, old, started>>

(* ensureClusterContextRegistered: under a name that is free.              *)
Register(p) ==
    /\ At(p, "register")
    /\ IF With(proc[p].api) # {} \/ Registered = Names THEN Goto(p, "remember")
       ELSE \E n \in Names \ Registered :
              Become(p, [proc[p] EXCEPT !.at = "exists", !.name = n, !.had = (Registered # {})])
    /\ UNCHANGED <<rows, lastId, secrets, session, live, old, started, lapses>>

(* SetServerOrganization: an environment belongs to an organization, so    *)
(* the selected one goes.                                                  *)
SetServerOrganization(n, sel) == rows' = [rows EXCEPT ![n].org = sel, ![n].env = None]
SetServerEnvironment(n, sel)  == rows' = [rows EXCEPT ![n].env = sel]

(* rememberOrganization: of --org, on the first context for the server.    *)
Remember(p) ==
    /\ At(p, "remember")
    /\ LET c == proc[p]
       IN  IF c.pick = None \/ With(c.api) = {} THEN UNCHANGED <<rows, lapses>>
           ELSE /\ SetServerOrganization(Oldest(With(c.api)), <<c.api, c.pick>>)
                /\ Record(Moved(p))
    /\ End(p)
    /\ UNCHANGED <<lastId, secrets, session, live, old, started>>

(* runLogout, whether the server can be told or not.                       *)
StartLogout(p) ==
    /\ At(p, "logout")
    /\ IF session.sid = 0 THEN End(p)
       ELSE Become(p, [proc[p] EXCEPT !.at = "revoke", !.sess = session])
    /\ UNCHANGED <<rows, lastId, secrets, session, live, old, started, lapses>>

RevokeSession(p) ==
    /\ At(p, "revoke")
    /\ live' \in {live, live \ {proc[p].sess.sid}}
    /\ Goto(p, "clearSession")
    /\ UNCHANGED <<rows, lastId, secrets, session, old, started, lapses>>

ClearSession(p) ==
    /\ At(p, "clearSession")
    /\ session' = NoSession
    /\ End(p)
    /\ UNCHANGED <<rows, lastId, secrets, live, old, started, lapses>>

-----------------------------------------------------------------------------
(* UseClusterMode: the current context decides.  With a server it is the   *)
(* server or nothing, and only with a session for that server.             *)
LocalStep(c) == IF c.op = "secret" THEN "target"
                ELSE IF c.op = "work" /\ c.left > 0 THEN "dir" ELSE "refused"

UseClusterMode(p) ==
    /\ At(p, "mode")
    /\ LET c == [proc[p] EXCEPT !.meant = Current]
       IN  IF Current.api # None THEN Become(p, [c EXCEPT !.at = "load"])
           ELSE IF LocalStep(c) = "refused" THEN End(p)
           ELSE Become(p, [c EXCEPT !.at = LocalStep(c)])
    /\ UNCHANGED <<rows, lastId, secrets, session, live, old, started, lapses>>

(* Mutant of Authorized: without a session for the server, work on files.  *)
SilentFallback(p, s) ==
    LET c == proc[p]
    IN  IF s.sid = 0 \/ s.api # c.meant.api \/ (c.op = "work" /\ ~c.remote)
        THEN IF LocalStep(c) = "refused" THEN End(p)
             ELSE Become(p, [c EXCEPT !.at = LocalStep(c)])
        ELSE Become(p, [c EXCEPT !.at = "env", !.sess = s])

(* What the mode comes to with session s; AdoptCluster is refused. There   *)
(* is nothing to look up for a command that works on a server.             *)
Authorized(p, s) ==
    LET c == proc[p]
    IN  IF s.sid = 0 \/ s.api # c.meant.api \/ (c.op = "work" /\ ~c.remote) THEN End(p)
        ELSE Become(p, [c EXCEPT !.at = "env", !.sess = s, !.left = 0])

LoadSession(p) ==
    /\ At(p, "load")
    /\ Ensure(Authorized(p, session),
                 Become(p, [proc[p] EXCEPT !.at = "token", !.sess = session]),
                 End(p))
    /\ UNCHANGED <<rows, lastId, secrets, session, live, old, started, lapses>>

Token(p) ==
    /\ At(p, "token")
    /\ SaveAccessToken(p)
    /\ IF session.sid = 0 THEN End(p)
       ELSE Authorized(p, [proc[p].sess EXCEPT !.token = proc[p].sess.sid, !.fresh = TRUE])
    /\ UNCHANGED <<rows, lastId, secrets, live, old, started, lapses>>

(* NewAPIClient: the environment, then the organization, each as the       *)
(* command names it, or else from the current context if that is one of    *)
(* this server. An environment that is named is no selection: None here.   *)
SelectedServerEnvironment(p) ==
    /\ At(p, "env")
    /\ Become(p, [proc[p] EXCEPT !.at = "org",
           !.env = IF ~proc[p].forEnv /\ Current.api = proc[p].sess.api
                   THEN Current.env ELSE None])
    /\ UNCHANGED <<rows, lastId, secrets, session, live, old, started, lapses>>

SelectedServerOrganization(p) ==
    /\ At(p, "org")
    /\ Become(p, [proc[p] EXCEPT !.at = "send",
           !.org = IF proc[p].forOrg # None THEN <<proc[p].sess.api, proc[p].forOrg>>
                   ELSE IF Current.api = proc[p].sess.api THEN Current.org ELSE None])
    /\ UNCHANGED <<rows, lastId, secrets, session, live, old, started, lapses>>

(* envPath: calls about clusters carry the environment as well.            *)
EnvPath(c) == IF c.op = "work" /\ c.scoped THEN c.env ELSE None

(* The request, which may be refused, and what the command does then.      *)
(* hyve environment delete clears the selection if that was its name, and  *)
(* it was not only named for this command.                                 *)
Send(p) ==
    /\ At(p, "send")
    /\ LET c == proc[p]
       IN  \/ End(p)
           \/ /\ c.op \in {"work", "secret"}
              /\ Become(p, [c EXCEPT !.at = "done", !.env = EnvPath(c)])
           \/ /\ c.op \in {"useOrg", "useEnv"} \/ (c.op = "deleteEnv" /\ c.env # None)
              /\ Goto(p, "pick")
    /\ UNCHANGED <<rows, lastId, secrets, session, live, old, started, lapses>>

(* setSelectedOrganization, useEnvironment, clearSelection: on the context *)
(* that is current by now. An environment is of the organization that the  *)
(* request went to; only its name is kept.                                 *)
Pick(p) ==
    /\ At(p, "pick")
    /\ IF Current.api = None THEN End(p)
       ELSE Become(p, [proc[p] EXCEPT !.at = "select", !.name = Oldest(Currents)])
    /\ UNCHANGED <<rows, lastId, secrets, session, live, old, started, lapses>>

Foreign(c) == c.op = "useEnv" /\ c.forOrg # None /\ rows[c.name].org # c.org

Select(p) ==
    /\ At(p, "select")
    /\ LET c == proc[p]
       IN  IF ~Exists(c.name) THEN UNCHANGED rows
           ELSE \/ /\ c.op = "useOrg"
                   /\ SetServerOrganization(c.name, <<c.sess.api, c.pick>>)
                \/ /\ c.op = "useEnv"
                   /\ SetServerEnvironment(c.name, IF c.org = None THEN <<c.sess.api, None>> ELSE c.org)
                \/ /\ c.op \in {"unsetEnv", "deleteEnv"}
                   /\ SetServerEnvironment(c.name, None)
    /\ End(p)
    /\ Record(Moved(p) \cup Hit(Foreign(proc[p]), "foreign"))
    /\ UNCHANGED <<lastId, secrets, session, live, old, started>>

(* hyve context secrets, in local mode: of the context current by now, and *)
(* kept under its id.                                                      *)
Target(p) ==
    /\ At(p, "target")
    /\ IF Currents = {} THEN End(p)
       ELSE Become(p, [proc[p] EXCEPT !.at = "keep", !.id = Current.id])
    /\ UNCHANGED <<rows, lastId, secrets, session, live, old, started, lapses>>

Keep(p) ==
    /\ At(p, "keep")
    /\ secrets' \in {secrets \cup {proc[p].id}, secrets \ {proc[p].id}}
    /\ End(p)
    /\ Record(Hit(\E q \in Procs : At(q, "drop"), "late"))
    /\ UNCHANGED <<rows, lastId, session, live, old, started>>

(* CreateStateManager: the directory to write to, then, for a command that *)
(* also reconciles, that of RunReconciliation.                             *)
LookupDir(p) ==
    /\ At(p, "dir")
    /\ IF Currents = {} THEN End(p)
       ELSE Become(p, [proc[p] EXCEPT !.dirs = @ \cup {Dir(Current)}, !.left = @ - 1,
                                      !.at = IF proc[p].left = 1 THEN "done" ELSE "dir"])
    /\ UNCHANGED <<rows, lastId, secrets, session, live, old, started, lapses>>

Done(p) ==
    /\ At(p, "done")
    /\ End(p)
    /\ UNCHANGED <<rows, lastId, secrets, session, live, old, started, lapses>>

-----------------------------------------------------------------------------
(* A command is killed, or meets a database that another has locked.       *)
Stop(p) ==
    /\ proc[p].at # "idle"
    /\ End(p)
    /\ Record(Hit(At(p, "set"), "torn"))
    /\ UNCHANGED <<rows, lastId, secrets, session, live, old, started>>

(* An access token runs out. A session that runs out, or that a server     *)
(* revokes, shows in a refused refresh, which Ensure has at any time.      *)
TokenExpires ==
    /\ session.fresh
    /\ session' = [session EXCEPT !.fresh = FALSE]
    /\ UNCHANGED <<rows, lastId, secrets, live, old, proc, started, lapses>>

Start(p) ==
    /\ proc[p] = Idle /\ started < MaxCommands
    /\ \/ \E n \in Names, local \in BOOLEAN, api \in Servers \cup {None} : CreateContext(p, n, local, api)
       \/ \E n \in Names : Use(p, n) \/ RemoveContext(p, n)
       \/ \E s \in Servers \cup {None}, o \in Orgs \cup {None} : Login(p, s, o)
       \/ \E o \in Orgs : UseOrg(p, o)
       \/ \E o \in Orgs \cup {None}, e \in BOOLEAN :
             DeleteEnv(p, o, e) \/ \E w \in Works : Work(p, w, o, e)
       \/ \E o \in Orgs \cup {None} : UseEnv(p, o) \/ Secret(p, o)
       \/ Logout(p) \/ UnsetEnv(p)

Step(p) ==
    \/ Open(p) \/ Prelude(p) \/ EarlyToken(p) \/ OwnSecrets(p)
    \/ CheckName(p) \/ ClearFirst(p) \/ Insert(p) \/ Unset(p) \/ Set(p)
    \/ Lookup(p) \/ Forget(p) \/ Drop(p)
    \/ PerformLogin(p) \/ SaveSession(p) \/ Register(p) \/ Remember(p)
    \/ StartLogout(p) \/ RevokeSession(p) \/ ClearSession(p)
    \/ UseClusterMode(p) \/ LoadSession(p) \/ Token(p)
    \/ SelectedServerEnvironment(p) \/ SelectedServerOrganization(p) \/ Send(p)
    \/ Pick(p) \/ Select(p) \/ Target(p) \/ Keep(p) \/ LookupDir(p) \/ Done(p)
    \/ Stop(p)

ContextsNext == TokenExpires \/ \E p \in Procs : Start(p) \/ Step(p)

ContextsSpec == ContextsInit /\ [][ContextsNext]_contextsVars

-----------------------------------------------------------------------------
Unexcused(windows) == lapses \cap windows = {}

Rows == [id : Nat, cur : BOOLEAN, local : BOOLEAN, api : Servers \cup {None}, org : OrgSel, env : EnvSel]
Sessions == [sid : Nat, api : Servers \cup {None}, token : Nat, fresh : BOOLEAN]

Looks == {"work", "secret", "useOrg", "useEnv", "deleteEnv"}
Ops   == Looks \cup {"idle", "create", "use", "remove", "login", "logout", "unsetEnv"}
Steps == {"idle", "open", "prelude", "early", "own", "exists", "clear", "insert", "unset", "set",
          "lookup", "forget", "drop", "login", "save", "register", "remember", "logout", "revoke",
          "clearSession", "mode", "load", "token", "env", "org", "send", "pick", "select", "target",
          "keep", "dir", "done"}
Commands == [op : Ops, at : Steps, no : Nat, remote : BOOLEAN, scoped : BOOLEAN, name : Names \cup {None},
             local : BOOLEAN, api : Servers \cup {None}, pick : Names \cup Orgs \cup {None},
             forOrg : Orgs \cup {None}, forEnv : BOOLEAN, first : BOOLEAN, had : BOOLEAN, sess : Sessions, meant : Rows, own : Nat, id : Nat,
             org : OrgSel, env : EnvSel, left : Nat, dirs : SUBSET Nat]

ContextsTypeOK ==
    /\ rows \in [Names -> Rows] /\ lastId \in Nat /\ secrets \subseteq 1..lastId
    /\ session \in Sessions /\ live \subseteq 1..started
    /\ old \in [name : Names \cup {None}, cur : BOOLEAN] /\ proc \in [Procs -> Commands]
    /\ started \in 1..MaxCommands /\ lapses \subseteq Windows
    /\ \A p \in Procs : proc[p].dirs \subseteq 0..lastId

(* Of the contexts there are, exactly one is current, except while a       *)
(* command is between unsetting one and setting the next.                  *)
OneCurrent ==
    /\ Unexcused({"overlap", "imported"}) => Cardinality(Currents) <= 1
    /\ (Unexcused({"overlap", "imported", "unknown", "torn"}) /\ \A p \in Procs : ~At(p, "set"))
         => (Registered # {} => Currents # {})

(* The access token that is kept was given for the session beside it.      *)
TokenIsOwn == Unexcused({"relogged"}) => session.token = session.sid

(* No secrets are left behind by a context that was removed.               *)
SecretsHaveContext == Unexcused({"late"}) => secrets \subseteq {rows[n].id : n \in Names}

(* A selection is of the server that the context is one of, an environment *)
(* of the selected organization, if the windows hit are not of another.    *)
Scoped(r, hit) ==
    /\ r.org # None => r.org[1] = r.api
    /\ r.env # None =>
         /\ r.env[1] = r.api
         /\ "foreign" \notin hit => r.env = IF r.org = None THEN <<r.api, None>> ELSE r.org

RowsInv == \A n \in Names : /\ rows[n].id =< lastId
                            /\ ~Exists(n) => rows[n] = NoRow
                            /\ Unexcused({"switched"}) => Scoped(rows[n], lapses)

(* Which command gets where, and what it has by then.                      *)
Numbered(c) == IF c.at = "idle" THEN c = Idle ELSE c.op # "idle" /\ (c.op = "login" => c.no \in 1..started)

Routed(c) ==
    /\ c.op \in {"create", "use", "remove"} => c.name \in Names
    /\ c.op \in {"login", "useOrg"} => c.pick \in Orgs \cup (IF c.op = "login" THEN {None} ELSE {})
    /\ c.at \in {"exists", "clear", "insert"} => c.op \in {"create", "login"} /\ c.name \in Names
    /\ c.at = "clear" => c.first
    /\ c.at \in {"unset", "set"} => /\ c.op \in {"create", "use", "remove", "login"} /\ c.name \in Names
                                    /\ c.op = "remove" => c.pick \in Names \ {c.name}
    /\ c.at \in {"lookup", "forget", "drop"} => c.op = "remove"
    /\ c.at \in {"login", "save", "register", "remember"} => c.op = "login"
    /\ c.op = "login" /\ c.at \in {"save", "register", "exists", "clear", "insert", "unset", "set",
                                   "remember"} => c.api \in Servers
    /\ c.at = "save" => c.sess.token = c.sess.sid
    /\ c.at \in {"mode", "load", "token", "env", "org", "send", "target", "keep", "dir", "done"}
         => c.op \in Looks
    /\ c.at \in {"pick", "select"} => c.op \in {"useOrg", "useEnv", "unsetEnv", "deleteEnv"}
    /\ c.at = "select" => c.name \in Names
    /\ c.at = "dir" => c.left > 0
    /\ c.at \notin {"dir", "done"} => c.dirs = {}

(* A command for a server has a session there, and the token of that.      *)
Authorizing(c) == c.at \in {"load", "token"}
Scoping(c)     == c.at \in {"env", "org", "send"} \/ (c.at \in {"pick", "select"} /\ c.op # "unsetEnv")
Sent(c)        == c.at = "done" /\ c.dirs = {}
Worked(c)      == c.at = "done" /\ c.dirs # {}

Aimed(c) ==
    /\ Authorizing(c) => c.meant.api \in Servers
    /\ Scoping(c) \/ Sent(c) => /\ c.meant.api \in Servers /\ c.sess.api = c.meant.api
                                /\ Unexcused({"relogged"}) => c.sess.token = c.sess.sid
    /\ c.at = "dir" \/ Worked(c) => c.meant.api = None

(* What a command goes to: what it names, or else what is selected.        *)
OrgFor(c) == IF c.forOrg # None THEN <<c.sess.api, c.forOrg>> ELSE c.meant.org
EnvFor(c) == IF c.forEnv THEN None ELSE c.meant.env

(* While nobody switches the context that a command has looked at, what it *)
(* has got of it is right.                                                 *)
AsSeen(c) == Unexcused({"switched"}) =>
    /\ Scoped(c.meant, lapses)
    /\ c.at = "mode" => c.own = Current.id
    /\ Authorizing(c) \/ Scoping(c) \/ c.at = "dir" => c.meant = Current /\ c.own = Current.id
    /\ c.at = "dir" => c.dirs \subseteq {Dir(c.meant)}
    /\ c.at # "env" /\ Scoping(c) => c.env = EnvFor(c)
    /\ c.at \notin {"env", "org"} /\ Scoping(c) => c.org = OrgFor(c)
    /\ c.at = "select" /\ Scoping(c) => rows[c.name] = c.meant
    /\ Sent(c) => c.org = OrgFor(c) /\ c.env = EnvPath([c EXCEPT !.env = EnvFor(c)])
    /\ Worked(c) => c.dirs = {Dir(c.meant)} /\ c.own = c.meant.id

(* What the commands that choose the current context rely on: of those     *)
(* that there is none yet, or one, or none that is current; and of a       *)
(* removal, that another one is.                                           *)
Chooses(c) == Unexcused({"overlap"}) =>
    /\ c.at = "clear" \/ (c.at = "insert" /\ c.first) => Registered = {}
    /\ c.at = "insert" /\ ~c.first => Registered # {}
    /\ c.at = "set" => Currents = {}

Leaves(c) ==
    /\ Unexcused({"overlap", "imported", "unknown", "torn"}) /\ \A q \in Procs : ~At(q, "set")
    /\ c.at \in {"forget", "drop"}
    => Others(c.name) = {} \/ \E m \in Currents : m # c.name

(* A token is being refreshed for the session that is kept, and a secret   *)
(* is set on a context that is there, and none on one that goes.           *)
Refreshes(c) == c.at \in {"early", "token"} /\ Unexcused({"relogged"}) => session.sid \in {0, c.sess.sid}
Keeps(c) ==
    /\ c.at = "keep" => /\ c.id \in 1..lastId
                        /\ Unexcused({"late"}) => c.id \in {rows[n].id : n \in Names}
    /\ c.at = "drop" /\ Unexcused({"late"}) => rows[c.name].id \notin secrets

CommandsInv == \A p \in Procs :
    /\ Numbered(proc[p]) /\ Routed(proc[p]) /\ Aimed(proc[p]) /\ AsSeen(proc[p])
    /\ Chooses(proc[p]) /\ Leaves(proc[p]) /\ Refreshes(proc[p]) /\ Keeps(proc[p])

ContextsInv == ContextsTypeOK /\ OneCurrent /\ TokenIsOwn /\ SecretsHaveContext /\ RowsInv /\ CommandsInv

(* A command that worked on files did so because its context is not one of *)
(* a server, and worked in the directory of that context only, with the    *)
(* secrets of that context.                                                *)
LocalStaysLocal(c) ==
    /\ c.meant.api = None
    /\ Unexcused({"switched"}) => c.dirs = {Dir(c.meant)} /\ c.own = c.meant.id

(* A request went to the server of the context, with the token of a        *)
(* session there; to the organization that the command names, or else the  *)
(* one selected on the context; and, if it is about an environment, to the *)
(* one that it names, or else the selected one. Without --org that is one  *)
(* of that organization, unless it was itself selected with --org; with    *)
(* --org alone it may be of another organization than the request goes to. *)
SentInScope(c) ==
    /\ c.sess.api = c.meant.api
    /\ Unexcused({"relogged"}) => c.sess.token = c.sess.sid
    /\ Unexcused({"switched"}) =>
         /\ c.org = OrgFor(c)
         /\ c.op = "work" /\ c.scoped => c.env = EnvFor(c)
         /\ c.org # None => c.org[1] = c.sess.api
         /\ c.env # None => c.env[1] = c.sess.api
         /\ c.env # None /\ c.forOrg = None /\ Unexcused({"foreign"})
              => c.env = IF c.org = None THEN <<c.sess.api, None>> ELSE c.org

ActsWhereMeant ==
    \A p \in Procs : At(p, "done") =>
        IF proc[p].dirs # {} THEN LocalStaysLocal(proc[p]) ELSE SentInScope(proc[p])
=============================================================================
