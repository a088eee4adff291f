------------------------------ MODULE Accounts ------------------------------
(***************************************************************************)
(* Users, their memberships of organizations, their sessions and password  *)
(* reset tokens: rows of the API server's SQL database that its handlers   *)
(* read and write one statement at a time, without a transaction, so that  *)
(* requests interleave and may stop half-way.                              *)
(***************************************************************************)
EXTENDS Naturals, FiniteSets

CONSTANTS
    Names,        \* usernames, unique in an install
    Boot,         \* the username of --bootstrap-admin
    Founders,     \* superadmins at first
    Orgs,         \* namespaces of organizations, of one environment each
    ControlPlane, \* s.Namespace, where superadmins are bound
    Slots,        \* requests that may be in flight at a time
    NoName, NoSpace,
    MaxRequests,  \* bound on requests
    MaxFaults     \* bound on failed statements, lost requests and restarts

Spaces == Orgs \cup {ControlPlane}
Roles  == {"read-only", "admin", "superadmin"}

ASSUME AccountsAssumption ==
    /\ Boot \in Founders /\ Founders \subseteq Names /\ NoName \notin Names
    /\ ControlPlane \notin Orgs /\ NoSpace \notin Spaces
    /\ MaxRequests \in Nat /\ MaxFaults \in Nat

VARIABLES
    user,     \* row of users: is there one, its id, is there a password, its number
    member,   \* row of bindings of each user and namespace: its id (0: none) and role
    sessions, \* rows of sessions: subject, and the number of the password it was opened with
    resets,   \* rows of user_password_reset_tokens of each user
    req,      \* the request in each slot
    served,   \* requests so far; also numbers the rows of bindings
    floor,    \* history: passwords below this number were revoked
    excuse,   \* history: what befell each user's rows
    faults    \* number of faults so far

vars == <<user, member, sessions, resets, req, served, floor, excuse, faults>>

Ops     == {"idle", "login", "forgot", "reset", "create", "update", "delete", "password", "cmd"}
Stages  == {"idle", "issue", "clear", "insert", "set", "consume", "revoke", "make", "bind",
            "move", "unbind", "count", "forget", "drop", "ensure"}
Excuses == {"lateLogin", "revokeLost", "halfDeleted", "crossed", "orphaned", "demoted", "replaced"}

None == [row |-> 0, role |-> "none"]
Idle == [op |-> "idle", at |-> "idle", by |-> NoName, who |-> NoName, to |-> NoSpace,
         role |-> "none", num |-> 0, row |-> 0, id |-> 0, pw |-> 0]

Seeded(m, row) == [m EXCEPT ![Boot][ControlPlane] = [row |-> row, role |-> "superadmin"]]

(* An install with its superadmins: the one of the bootstrap and those it  *)
(* has made.                                                               *)
Init ==
    /\ user = [n \in Names |-> [there |-> n \in Founders, id |-> 1, pass |-> TRUE, pw |-> 1]]
    /\ member = [n \in Names |-> [s \in Spaces |->
           IF n \in Founders /\ s = ControlPlane THEN [row |-> 1, role |-> "superadmin"]
           ELSE None]]
    /\ sessions = {}
    /\ resets = [n \in Names |-> {}]
    /\ req = [q \in Slots |-> Idle]
    /\ served = 1
    /\ floor = [n \in Names |-> 0]
    /\ excuse = [n \in Names |-> {}]
    /\ faults = 0

-----------------------------------------------------------------------------
Super(n)     == member[n][ControlPlane].role = "superadmin"
Bound(n, s)  == member[n][s].row # 0
Members(n)   == {s \in Spaces : Bound(n, s)}
Fault        == faults < MaxFaults /\ faults' = faults + 1
Excuse(n, es) == excuse' = [excuse EXCEPT ![n] = @ \cup es]
Doing(n, ops, stages) ==
    \E q \in Slots : req[q].who = n /\ req[q].op \in ops /\ req[q].at \in stages

(* resolveAccess: a superadmin is one in every namespace, anyone else what *)
(* the membership there says.                                              *)
RoleIn(c, s) == IF Super(c) THEN "superadmin" ELSE member[c][s].role

(* requireRole and RequireRole(admin). A token says who the caller is, for *)
(* longer than its session lasts: what it may do is looked up each time.   *)
Manages(c, s) == RoleIn(c, s) \in {"admin", "superadmin"}

(* The account a handler finds: a superadmin's only for another.           *)
Sees(c, n, s) == Bound(n, s) /\ (member[n][s].role = "superadmin" => Super(c))

(* requireSoleOrganization.                                                *)
MayShare(c, n, s) == Super(c) \/ Members(n) \subseteq {s}

(* A request arrives, and has read what its first write rests on.          *)
Arrive(q, r) ==
    /\ req[q].op = "idle" /\ served < MaxRequests
    /\ req' = [req EXCEPT ![q] = r]
    /\ served' = served + 1

Only(op, at, by, who) ==
    [Idle EXCEPT !.op = op, !.at = at, !.by = by, !.who = who, !.id = user[who].id]

Rows == <<user, member, sessions, resets, floor, excuse, faults>>

-----------------------------------------------------------------------------
(* Handlers, up to their first write.                                      *)

(* handleLogin: the password is right and there is some membership.        *)
Login(q, n) ==
    /\ user[n].there /\ user[n].pass /\ Members(n) # {}
    /\ Arrive(q, [Only("login", "issue", n, n) EXCEPT !.pw = user[n].pw])
    /\ UNCHANGED Rows

(* handleRequestPasswordReset.                                             *)
Forgot(q, n) ==
    /\ user[n].there
    /\ Arrive(q, Only("forgot", "clear", NoName, n))
    /\ UNCHANGED Rows

(* handleResetPassword with the token of a row; it is found by its user.   *)
Reset(q, n) ==
    /\ user[n].there
    /\ resets[n] # {}
    /\ Arrive(q, Only("reset", "set", NoName, n))
    /\ UNCHANGED Rows

(* handleCreateAccount.                                                    *)
Create(q, c, n, s, role) ==
    /\ Manages(c, s)
    /\ role = "superadmin" => Super(c) /\ s = ControlPlane
    /\ ~Bound(n, s)
    /\ Arrive(q, [Only("create", IF user[n].there THEN "bind" ELSE "make", NoName, n)
                  EXCEPT !.to = s, !.role = role, !.num = served + 1])
    /\ UNCHANGED Rows

(* Mutant of NotOwn: nothing keeps a caller from changing itself.          *)
NotOwnAnything(c, n) == TRUE

(* "cannot delete your own account", "cannot change your own role".        *)
NotOwn(c, n) == c # n

(* handleUpdateAccount: a role, and where the row goes with it. An e-mail  *)
(* address is left out, but a request for it alone writes the row as well. *)
Update(q, c, n, s, role, to) ==
    LET old == member[n][s] IN
    /\ Manages(c, s) /\ Sees(c, n, s) /\ user[n].there
    /\ role # old.role => NotOwn(c, n)
    /\ role # old.role /\ "superadmin" \in {role, old.role} => Super(c)
    /\ to \in IF role = "superadmin" THEN {ControlPlane}
              ELSE IF old.role = "superadmin" THEN Spaces ELSE {s}
    /\ to # s => ~Bound(n, to)
    /\ Arrive(q, [Only("update", "move", c, n) EXCEPT
                  !.to = to, !.role = role, !.row = old.row])
    /\ UNCHANGED Rows

(* handleDeleteAccount.                                                    *)
Delete(q, c, n, s) ==
    /\ Manages(c, s) /\ Sees(c, n, s) /\ NotOwn(c, n)
    /\ Arrive(q, [Only("delete", "unbind", c, n) EXCEPT !.row = member[n][s].row])
    /\ UNCHANGED Rows

(* handleUpdateAccountPassword: of oneself, or by an admin.                *)
Password(q, c, n, s) ==
    /\ RoleIn(c, s) # "none" /\ user[n].there
    /\ \/ c = n /\ user[n].pass /\ Bound(n, IF Super(c) THEN ControlPlane ELSE s)
       \/ c # n /\ Manages(c, s) /\ Sees(c, n, s) /\ MayShare(c, n, s)
    /\ Arrive(q, Only("password", "set", NoName, n))
    /\ UNCHANGED Rows

(* create-user writes the same rows from outside of the API server.        *)
CreateUser(q, n, s, role) ==
    /\ role = "superadmin" => s = ControlPlane
    /\ Arrive(q, [Only("cmd", IF Bound(n, s) THEN "unbind" ELSE "ensure", NoName, n)
                  EXCEPT !.to = s, !.role = role, !.num = served + 1,
                         !.row = member[n][s].row])
    /\ UNCHANGED Rows

-----------------------------------------------------------------------------
(* Their writes.                                                           *)

At(q, stage)   == req[q].at = stage
Goto(q, stage) == req' = [req EXCEPT ![q].at = stage]
End(q)         == req' = [req EXCEPT ![q] = Idle]

(* An UPDATE or DELETE by id finds no row of a user that was deleted.      *)
SameUser(q)    == user[req[q].who].there /\ user[req[q].who].id = req[q].id

(* issueSession.                                                           *)
Issue(q) ==
    LET r == req[q] IN
    /\ At(q, "issue") /\ End(q)
    /\ sessions' = sessions \cup {[who |-> r.who, pw |-> r.pw]}
    /\ UNCHANGED <<user, member, resets, served, floor, excuse, faults>>

(* CreatePasswordResetToken: a DELETE, then an INSERT.                     *)
ClearReset(q) ==
    /\ At(q, "clear") /\ Goto(q, "insert")
    /\ resets' = [resets EXCEPT ![req[q].who] = {}]
    /\ UNCHANGED <<user, member, sessions, served, floor, excuse, faults>>

InsertReset(q) ==
    /\ At(q, "insert") /\ End(q)
    /\ resets' = [resets EXCEPT ![req[q].who] = IF SameUser(q) THEN @ \cup {q} ELSE @]
    /\ UNCHANGED <<user, member, sessions, served, floor, excuse, faults>>

(* EnsureUser: create the user, or replace its password.                   *)
Ensured(u) == [u EXCEPT !.id = IF u.there THEN @ ELSE @ + 1, !.there = TRUE, !.pass = TRUE,
                          !.pw = @ + 1]

(* SetUserPassword. A reset is to end every session opened before it.      *)
SetPassword(q) ==
    LET r == req[q] IN
    /\ At(q, "set")
    /\ user' = [user EXCEPT ![r.who] = IF SameUser(q) THEN Ensured(@) ELSE @]
    /\ IF r.op = "reset"
       THEN Goto(q, "consume") /\ floor' = [floor EXCEPT ![r.who] = user'[r.who].pw]
       ELSE End(q) /\ UNCHANGED floor
    /\ UNCHANGED <<member, sessions, resets, served, excuse, faults>>

(* DeletePasswordResetTokensForUser, whose failure is logged.              *)
Consume(q) ==
    /\ At(q, "consume") /\ Goto(q, "revoke")
    /\ \/ resets' = [resets EXCEPT ![req[q].who] = {}] /\ UNCHANGED faults
       \/ Fault /\ UNCHANGED resets
    /\ UNCHANGED <<user, member, sessions, served, floor, excuse>>

(* Mutant of Revoked: the sessions opened by the latest password stay.     *)
RevokedButLatest(n) == {s \in sessions : s.who = n /\ s.pw < user[n].pw}

(* DeleteSessionsBySubject.                                                *)
Revoked(n) == {s \in sessions : s.who = n}

(* Every session goes, after a reset or with the user; a failure is logged.*)
(* A login that has checked the old password opens its session later.      *)
Revoke(q) ==
    LET r == req[q] n == r.who
        late == IF Doing(n, {"login"}, {"issue"}) THEN {"lateLogin"} ELSE {} IN
    /\ At(q, "revoke")
    /\ \/ /\ sessions' = sessions \ Revoked(n) /\ UNCHANGED faults
          /\ excuse' = [excuse EXCEPT ![n] = @ \cup late]
       \/ /\ Fault /\ UNCHANGED sessions
          /\ excuse' = [excuse EXCEPT ![n] = @ \cup late \cup {"revokeLost"}]
    /\ IF r.op = "reset"
       THEN End(q) /\ UNCHANGED floor
       ELSE Goto(q, "forget") /\ floor' = [floor EXCEPT ![n] = user[n].pw + 1]
    /\ UNCHANGED <<user, member, resets, served>>

(* CreateUser: the username is unique.                                     *)
Make(q) ==
    LET n == req[q].who IN
    /\ At(q, "make")
    /\ IF user[n].there
       THEN End(q) /\ UNCHANGED user
       ELSE /\ user' = [user EXCEPT ![n] = Ensured(@)]
            /\ Goto(q, "bind")
    /\ UNCHANGED <<member, sessions, resets, served, floor, excuse, faults>>

(* A membership appears while its user is on the way out.                  *)
Crossing(n) == Doing(n, {"delete"}, {"revoke", "forget", "drop"})

(* CreateBinding: one row per user, namespace and environment.             *)
Bind(q) ==
    LET r == req[q] n == r.who IN
    /\ At(q, "bind") /\ End(q)
    /\ IF Bound(n, r.to)
       THEN UNCHANGED <<member, excuse>>
       ELSE /\ member' = [member EXCEPT ![n][r.to] = [row |-> r.num, role |-> r.role]]
            /\ IF Crossing(n) THEN Excuse(n, {"crossed", "orphaned"}) ELSE UNCHANGED excuse
    /\ UNCHANGED <<user, sessions, resets, served, floor, faults>>

(* The row of a given id, wherever an update has taken it.                 *)
RowAt(n, row) == {s \in Spaces : member[n][s].row = row}

(* A superadmin removed by one who has ceased to be one, or by its own     *)
(* update: the row it writes back was read before it became one.           *)
Demoting(q) ==
    LET r == req[q] IN
    \E s \in RowAt(r.who, r.row) :
        /\ member[r.who][s].role = "superadmin"
        /\ r.op = "cmd" \/ (r.op = "update" /\ r.by = r.who) \/ ~Super(r.by)
Unseated(q) == IF req[q].op = "cmd" THEN "replaced" ELSE "demoted"

(* UpdateBinding.                                                          *)
Move(q) ==
    LET r == req[q] n == r.who IN
    /\ At(q, "move") /\ End(q)
    /\ IF RowAt(n, r.row) # {} /\ \A s \in RowAt(n, r.row) : s = r.to \/ ~Bound(n, r.to)
       THEN /\ member' = [member EXCEPT ![n] = [s \in Spaces |->
                   IF s = r.to THEN [row |-> r.row, role |-> r.role]
                   ELSE IF @[s].row = r.row THEN None ELSE @[s]]]
            /\ IF r.role # "superadmin" /\ Demoting(q)
               THEN Excuse(n, {"demoted"}) ELSE UNCHANGED excuse
       ELSE UNCHANGED <<member, excuse>>
    /\ UNCHANGED <<user, sessions, resets, served, floor, faults>>

(* DeleteBinding, by id.                                                   *)
Unbind(q) ==
    LET r == req[q] n == r.who IN
    /\ At(q, "unbind")
    /\ member' = [member EXCEPT ![n] = [s \in Spaces |-> IF @[s].row = r.row THEN None ELSE @[s]]]
    /\ IF Demoting(q) THEN Excuse(n, {Unseated(q)}) ELSE UNCHANGED excuse
    /\ Goto(q, IF r.op = "delete" THEN "count" ELSE "ensure")
    /\ UNCHANGED <<user, sessions, resets, served, floor, faults>>

(* Mutant of Last: a user goes with any of its memberships.                *)
LastOrNot(n) == TRUE

(* "Only once they belong nowhere else does the user itself go too."       *)
Last(n) == Members(n) = {}

Count(q) ==
    /\ At(q, "count")
    /\ IF Last(req[q].who) THEN Goto(q, "revoke") ELSE End(q)
    /\ UNCHANGED <<user, member, sessions, resets, served, floor, excuse, faults>>

(* DeleteUser: the reset tokens, then the row.                             *)
Forget(q) ==
    LET n == req[q].who IN
    /\ At(q, "forget")
    /\ IF user[n].there
       THEN req' = [req EXCEPT ![q].at = "drop", ![q].id = user[n].id]
       ELSE End(q)
    /\ resets' = [resets EXCEPT ![n] = {}]
    /\ UNCHANGED <<user, member, sessions, served, floor, excuse, faults>>

Drop(q) ==
    LET n == req[q].who IN
    /\ At(q, "drop") /\ End(q)
    /\ IF SameUser(q)
       THEN /\ user' = [user EXCEPT ![n].there = FALSE]
            /\ IF Doing(n, {"create", "cmd"}, {"bind"}) THEN Excuse(n, {"crossed", "orphaned"}) ELSE UNCHANGED excuse
       ELSE UNCHANGED <<user, excuse>>
    /\ UNCHANGED <<member, sessions, resets, served, floor, faults>>

(* EnsureUser of create-user.                                              *)
Ensure(q) ==
    /\ At(q, "ensure") /\ Goto(q, "bind")
    /\ user' = [user EXCEPT ![req[q].who] = Ensured(@)]
    /\ UNCHANGED <<member, sessions, resets, served, floor, excuse, faults>>

-----------------------------------------------------------------------------
(* handleLogout. (handleRefresh changes no row.)                           *)
Logout(s) ==
    /\ s \in sessions /\ sessions' = sessions \ {s}
    /\ UNCHANGED <<user, member, resets, req, served, floor, excuse, faults>>

(* What the request in a slot leaves behind when it stops half-way.        *)
Halved(q, n) ==
    IF req[q].who # n THEN {}
    ELSE IF req[q].op = "reset" /\ req[q].at # "set" THEN {"revokeLost"}
    ELSE IF req[q].at \in {"revoke", "forget", "drop"} THEN {"halfDeleted"} ELSE {}

(* A statement fails, or its context ends with the client's connection: an *)
(* error is answered and what was done stays.                              *)
Fail(q) ==
    /\ req[q].op # "idle" /\ Fault /\ End(q)
    /\ req[q].at \notin {"consume", "revoke"}
    /\ excuse' = [excuse EXCEPT ![req[q].who] = @ \cup Halved(q, req[q].who)]
    /\ UNCHANGED <<user, member, sessions, resets, served, floor>>

(* EnsureUsersFromBindings: a member without a user gets one, which nobody *)
(* can log in as until it is given a password.                             *)
Housed == [n \in Names |-> IF user[n].there \/ Members(n) = {} THEN user[n]
                           ELSE [user[n] EXCEPT !.there = TRUE, !.id = @ + 1, !.pass = FALSE]]

(* The API server dies and starts again: EnsureUsersFromBindings, then     *)
(* SeedBootstrapAdmin. Where its user has a lesser row in the control      *)
(* plane already, the server never comes up.                               *)
Restart ==
    /\ Fault
    /\ req' = [q \in Slots |-> Idle]
    /\ excuse' = [n \in Names |->
           (excuse[n] \ {"orphaned"}) \cup UNION {Halved(q, n) : q \in Slots}]
    /\ IF \E n \in Names : Super(n)
       THEN user' = Housed /\ UNCHANGED <<member, served>>
       ELSE /\ ~Bound(Boot, ControlPlane)
            /\ user' = [Housed EXCEPT ![Boot] = Ensured(@)]
            /\ member' = Seeded(member, served + 1) /\ served' = served + 1
    /\ UNCHANGED <<sessions, resets, floor>>

-----------------------------------------------------------------------------
Handle(q) ==
    /\ req[q].op = "idle" /\ served < MaxRequests
    /\ \/ \E n \in Names : Login(q, n) \/ Forgot(q, n) \/ Reset(q, n)
       \/ \E c, n \in Names, s \in Spaces : Delete(q, c, n, s) \/ Password(q, c, n, s)
       \/ \E c, n \in Names, s \in Spaces, role \in Roles : Create(q, c, n, s, role)
       \/ \E c, n \in Names, s, to \in Spaces, role \in Roles : Update(q, c, n, s, role, to)
       \/ \E n \in Names, s \in Spaces, role \in Roles : CreateUser(q, n, s, role)

Proceed(q) ==
    \/ Issue(q) \/ ClearReset(q) \/ InsertReset(q) \/ SetPassword(q) \/ Consume(q)
    \/ Revoke(q) \/ Make(q) \/ Bind(q) \/ Move(q) \/ Unbind(q) \/ Count(q)
    \/ Forget(q) \/ Drop(q) \/ Ensure(q)

Next ==
    \/ \E q \in Slots : Handle(q) \/ Proceed(q) \/ Fail(q)
    \/ \E s \in sessions : Logout(s)
    \/ Restart

Spec == Init /\ [][Next]_vars

-----------------------------------------------------------------------------
(* Properties.                                                             *)

Row == [row : Nat, role : Roles \cup {"none"}]

TypeOK ==
    /\ user \in [Names -> [there : BOOLEAN, id : Nat, pass : BOOLEAN, pw : Nat]]
    /\ member \in [Names -> [Spaces -> Row]]
    /\ sessions \subseteq [who : Names, pw : Nat]
    /\ resets \in [Names -> SUBSET Slots]
    /\ req \in [Slots -> [op : Ops, at : Stages, by : Names \cup {NoName},
                          who : Names \cup {NoName}, to : Spaces \cup {NoSpace},
                          role : Roles \cup {"none"}, num : Nat, row : Nat, id : Nat,
                          pw : Nat]]
    /\ served \in Nat /\ faults \in 0 .. MaxFaults
    /\ floor \in [Names -> Nat]
    /\ excuse \in [Names -> SUBSET Excuses]

(* A membership names a user that exists, and so does every request about  *)
(* to write one, although user and membership are written and deleted row  *)
(* by row: a deletion takes the user only after its last membership. The   *)
(* exception, until the server starts again, is one that was bound while   *)
(* the same user was being deleted.                                        *)
HasUser(n) ==
    \/ user[n].there \/ "orphaned" \in excuse[n]
    \/ Members(n) = {} /\ ~Doing(n, {"create", "cmd"}, {"bind"})

MembersHaveUsers == \A n \in Names : HasUser(n)

AccountsInv == TypeOK /\ MembersHaveUsers

(* An install keeps a superadmin through any sequence of updates and       *)
(* deletions, for nobody removes itself. The exceptions are a removal that *)
(* was authorized before its caller was removed, one by a row read too     *)
(* early, and create-user's replacement of the only one.                   *)
SuperadminRemains ==
    \/ \E n \in Names : Super(n)
    \/ \E n \in Names : excuse[n] \cap {"demoted", "replaced"} # {}

(* Whoever held a session before the password was reset, or the account    *)
(* deleted, holds none afterwards, even if an account of that name is made *)
(* again. The exceptions are a login that had checked the old password by  *)
(* then, a lost revocation, a deletion that stopped half-way, and one that *)
(* was crossed by a new membership.                                        *)
Excused(n) == excuse[n] \cap {"lateLogin", "revokeLost", "halfDeleted", "crossed"} # {}

Resetting(n) == Doing(n, {"reset"}, {"consume", "revoke"})

Outdated(n, pw) == pw < floor[n] /\ ~Resetting(n) /\ ~Excused(n)

RevokedStaysOut == \A s \in sessions : ~Outdated(s.who, s.pw)

(* What a request is about, by the stage that it has reached.              *)
RequestInv(q) ==
    LET r == req[q] IN
    /\ r.op = "idle" <=> r.who \notin Names
    /\ r.op = "idle" => r.at = "idle"
    /\ r.at = "issue" <=> r.op = "login"
    /\ r.at \in {"bind", "ensure", "make"} => r.op \in {"create", "cmd"}
    /\ r.op \in {"create", "cmd"} => r.to \in Spaces /\ r.num # 0
    /\ r.at = "move" <=> r.op = "update"
    /\ r.op = "update" => r.to \in Spaces /\ r.row # 0 /\ r.by \in Names
    /\ r.op = "update" /\ r.role = "superadmin" => r.to = ControlPlane
    /\ r.op = "delete" => r.by \in Names \ {r.who}
    /\ r.at = "unbind" => r.op \in {"delete", "cmd"}
    /\ r.at \in {"count", "forget", "drop"} => r.op = "delete"
    /\ r.at = "revoke" => r.op \in {"reset", "delete"}
    /\ r.at = "consume" => r.op = "reset"

(* A row of bindings has a role as long as it has an id.                   *)
RowsWhole(n) == \A s \in Spaces : ~Bound(n, s) => member[n][s].role = "none"

(* A deletion goes on to the user only when no membership is left, unless  *)
(* one has been made since.                                                *)
Going(q, n) == req[q].who = n /\ req[q].op = "delete" /\ req[q].at \in {"revoke", "forget", "drop"}

GoesBare(n) ==
    (\E q \in Slots : Going(q, n)) => Members(n) = {} \/ {"crossed", "orphaned"} \subseteq excuse[n]

(* A user that may log in with a password older than the last revocation   *)
(* is one that is about to be dropped.                                     *)
Dooming(q, n) ==
    /\ Going(q, n)
    /\ req[q].at = "forget" \/ (req[q].at = "drop" /\ req[q].id = user[n].id)

RevokedAhead(n) ==
    /\ floor[n] <= user[n].pw + 1
    /\ user[n].there /\ user[n].pass /\ floor[n] > user[n].pw =>
         Excused(n) \/ \E q \in Slots : Dooming(q, n)

(* Neither a session nor a login that is about to open one is outdated.    *)
NoneOutdated(n) ==
    /\ \A q \in Slots : req[q].who = n /\ req[q].at = "issue" => ~Outdated(n, req[q].pw)
    /\ \A s \in sessions : s.who = n => ~Outdated(n, s.pw)

AccountInv(n) == HasUser(n) /\ RowsWhole(n) /\ GoesBare(n) /\ RevokedAhead(n) /\ NoneOutdated(n)

(* The inductive invariant of all three.                                   *)
RowsInv ==
    /\ TypeOK /\ SuperadminRemains
    /\ \A q \in Slots : RequestInv(q)
    /\ \A n \in Names : AccountInv(n)
=============================================================================
