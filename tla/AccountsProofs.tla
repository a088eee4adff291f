--------------------------- MODULE AccountsProofs ---------------------------
(***************************************************************************)
(* For every number of users, organizations, requests in flight and        *)
(* faults: memberships keep their users, a superadmin remains, and whoever *)
(* was revoked stays out, each but for the excuses that the module names.  *)
(***************************************************************************)
EXTENDS Accounts, TLAPS

Users    == [there : BOOLEAN, id : Nat, pass : BOOLEAN, pw : Nat]
Sessions == [who : Names, pw : Nat]
Requests == [op : Ops, at : Stages, by : Names \cup {NoName}, who : Names \cup {NoName},
             to : Spaces \cup {NoSpace}, role : Roles \cup {"none"}, num : Nat, row : Nat,
             id : Nat, pw : Nat]

LEMMA IdleTyped ==
    /\ Idle \in Requests /\ Idle.op = "idle" /\ Idle.at = "idle" /\ Idle.who = NoName
    /\ NoName \notin Names
BY AccountsAssumption DEF Idle, Requests, Ops, Stages

(* What each variable holds.                                               *)
LEMMA Typed ==
    ASSUME TypeOK
    PROVE  /\ user \in [Names -> Users] /\ member \in [Names -> [Spaces -> Row]]
           /\ sessions \subseteq Sessions /\ resets \in [Names -> SUBSET Slots]
           /\ req \in [Slots -> Requests] /\ served \in Nat /\ faults \in Nat
           /\ floor \in [Names -> Nat] /\ excuse \in [Names -> SUBSET Excuses]
BY AccountsAssumption DEF TypeOK, Users, Sessions, Requests

LEMMA InitInv == Init => RowsInv
<1> SUFFICES ASSUME Init PROVE RowsInv
  OBVIOUS
<1> USE DEF Init
<1>1. TypeOK
  <2>1. user \in [Names -> Users] /\ resets \in [Names -> SUBSET Slots]
    BY DEF Users
  <2>2. member \in [Names -> [Spaces -> Row]]
    BY DEF Row, Roles, None
  <2>3. req \in [Slots -> Requests]
    BY IdleTyped
  <2>4. /\ sessions \subseteq Sessions /\ served \in Nat /\ faults \in 0..MaxFaults
        /\ floor \in [Names -> Nat] /\ excuse \in [Names -> SUBSET Excuses]
    BY AccountsAssumption
  <2> QED
    BY <2>1, <2>2, <2>3, <2>4 DEF TypeOK, Users, Sessions, Requests
<1>2. \A q \in Slots : req[q] = Idle
  OBVIOUS
<1>3. SuperadminRemains
  <2>1. Boot \in Names /\ ControlPlane \in Spaces
    BY AccountsAssumption DEF Spaces
  <2>2. member[Boot][ControlPlane].role = "superadmin"
    BY <2>1, AccountsAssumption
  <2> QED
    BY <2>1, <2>2 DEF SuperadminRemains, Super
<1>4. ASSUME NEW q \in Slots PROVE RequestInv(q)
  BY <1>2, IdleTyped DEF RequestInv
<1>5. ASSUME NEW n \in Names PROVE AccountInv(n)
  <2>1. \A q \in Slots : req[q].who # n
    BY <1>2, IdleTyped
  <2>2. HasUser(n)
    <3>1. CASE n \in Founders
      BY <3>1 DEF HasUser
    <3>2. CASE n \notin Founders
      <4>1. \A s \in Spaces : member[n][s] = None
        BY <3>2
      <4> QED
        BY <2>1, <4>1 DEF HasUser, Members, Bound, None, Doing
    <3> QED
      BY <3>1, <3>2
  <2>3. RowsWhole(n)
    BY DEF RowsWhole, Bound, None
  <2>4. GoesBare(n)
    BY <2>1 DEF GoesBare, Going
  <2>5. RevokedAhead(n)
    BY DEF RevokedAhead
  <2>6. NoneOutdated(n)
    BY <2>1 DEF NoneOutdated
  <2> QED
    BY <2>2, <2>3, <2>4, <2>5, <2>6 DEF AccountInv
<1> QED
  BY <1>1, <1>3, <1>4, <1>5 DEF RowsInv

-----------------------------------------------------------------------------
(* The rows of a username stay as they are when nothing touches them and   *)
(* no request about them moves.                                            *)
LEMMA NameFrame ==
    ASSUME NEW n \in Names, AccountInv(n), user'[n] = user[n], member'[n] = member[n],
           floor'[n] = floor[n], excuse'[n] = excuse[n],
           \A x \in Slots : req[x].who = n \/ req'[x].who = n => req'[x] = req[x],
           \A s \in sessions' : s.who = n => s \in sessions
    PROVE  AccountInv(n)'
<1> USE DEF AccountInv
<1>1. HasUser(n)'
  BY DEF HasUser, Members, Bound, Doing
<1>2. RowsWhole(n)'
  BY DEF RowsWhole, Bound
<1>3. GoesBare(n)'
  BY DEF GoesBare, Members, Bound, Going
<1>4. RevokedAhead(n)'
  BY DEF RevokedAhead, Excused, Dooming, Going
<1>5. NoneOutdated(n)'
  BY DEF NoneOutdated, Outdated, Resetting, Doing, Excused
<1> QED
  BY <1>1, <1>2, <1>3, <1>4, <1>5

(* A step of the request in slot q, about the name n alone.                *)
LEMMA Step ==
    ASSUME RowsInv, TypeOK', NEW q \in Slots, NEW n \in Names,
           req[q].who \in {n, NoName}, req'[q].who \in {n, NoName},
           \A x \in Slots \ {q} : req'[x] = req[x],
           \A m \in Names \ {n} : /\ user'[m] = user[m] /\ member'[m] = member[m]
                                /\ floor'[m] = floor[m] /\ excuse'[m] = excuse[m],
           \A s \in sessions' : s.who # n => s \in sessions,
           SuperadminRemains', RequestInv(q)', AccountInv(n)'
    PROVE  RowsInv'
<1> USE DEF RowsInv
<1>1. ASSUME NEW m \in Names PROVE AccountInv(m)'
  <2>1. CASE m = n
    BY <2>1
  <2>2. CASE m # n
    <3>1. \A x \in Slots : req[x].who = m \/ req'[x].who = m => req'[x] = req[x]
      BY <2>2, IdleTyped
    <3> QED
      BY <2>2, <3>1, NameFrame
  <2> QED
    BY <2>1, <2>2
<1>2. ASSUME NEW x \in Slots PROVE RequestInv(x)'
  <2>1. CASE x = q
    BY <2>1
  <2>2. CASE x # q
    BY <2>2 DEF RequestInv
  <2> QED
    BY <2>1, <2>2
<1> QED
  BY <1>1, <1>2

LEMMA SuperFrame ==
    ASSUME SuperadminRemains, NEW n \in Names,
           \A m \in Names \ {n} : member'[m] = member[m] /\ excuse'[m] = excuse[m],
           excuse[n] \subseteq excuse'[n], Super(n) => Super(n)'
    PROVE  SuperadminRemains'
BY DEF SuperadminRemains, Super

-----------------------------------------------------------------------------
(* A request arrives: what it has read was so when it read it.             *)
LEMMA ArriveKeeps ==
    ASSUME RowsInv, NEW q \in Slots, NEW n \in Names, NEW r \in Requests, r.who = n,
           Arrive(q, r), UNCHANGED Rows, RequestInv(q)',
           r.at = "bind" => user[n].there,
           r.at \notin {"revoke", "consume", "forget", "drop"},
           r.at = "issue" => ~Outdated(n, r.pw)
    PROVE  RowsInv'
<1> USE Typed DEF RowsInv
<1>1. /\ req[q].op = "idle" /\ req' = [req EXCEPT ![q] = r] /\ served' = served + 1
      /\ UNCHANGED <<user, member, sessions, resets, floor, excuse, faults>>
  BY DEF Arrive, Rows
<1>2. /\ req'[q] = r /\ \A x \in Slots \ {q} : req'[x] = req[x]
      /\ req[q].who = NoName /\ req[q].at = "idle"
  BY <1>1, IdleTyped DEF RequestInv, Requests
<1>3. TypeOK'
  <2>1. req' \in [Slots -> Requests]
    BY <1>1
  <2> QED
    BY <1>1, <2>1 DEF TypeOK, Requests
<1>4. AccountInv(n)'
  <2> USE DEF AccountInv
  <2>1. HasUser(n)'
    BY <1>1, <1>2 DEF HasUser, Members, Bound, Doing
  <2>2. RowsWhole(n)'
    BY <1>1 DEF RowsWhole, Bound
  <2>3. \A x \in Slots : (Going(x, n)' <=> Going(x, n)) /\ (Dooming(x, n)' <=> Dooming(x, n))
    BY <1>1, <1>2 DEF Going, Dooming
  <2>4. GoesBare(n)'
    BY <1>1, <2>3 DEF GoesBare, Members, Bound
  <2>5. RevokedAhead(n)'
    BY <1>1, <2>3 DEF RevokedAhead, Excused
  <2>6. Resetting(n)' <=> Resetting(n)
    BY <1>2 DEF Resetting, Doing
  <2>7. NoneOutdated(n)'
    BY <1>1, <1>2, <2>6 DEF NoneOutdated, Outdated, Excused
  <2> QED
    BY <2>1, <2>2, <2>4, <2>5, <2>7
<1>5. SuperadminRemains'
  BY <1>1 DEF SuperadminRemains, Super
<1> QED
  BY <1>1, <1>2, <1>3, <1>4, <1>5, Step

LEMMA LoginKeeps ==
    ASSUME RowsInv, NEW q \in Slots, NEW n \in Names, Login(q, n)
    PROVE  RowsInv'
<1> USE Typed DEF RowsInv
<1> DEFINE r == [Only("login", "issue", n, n) EXCEPT !.pw = user[n].pw]
<1>1. /\ user[n].there /\ user[n].pass /\ Members(n) # {} /\ Arrive(q, r) /\ UNCHANGED Rows
  BY DEF Login
<1>2. user[n].pw \in Nat /\ user[n].id \in Nat /\ floor[n] \in Nat
  BY DEF Users
<1>3. /\ r \in Requests /\ r.op = "login" /\ r.at = "issue" /\ r.who = n /\ r.pw = user[n].pw
  BY <1>2, IdleTyped DEF Only, Idle, Requests, Ops, Stages
<1>4. ~Outdated(n, r.pw)
  <2>1. CASE floor[n] <= user[n].pw
    BY <1>2, <1>3, <2>1 DEF Outdated
  <2>2. CASE \E x \in Slots : Dooming(x, n)
    BY <1>1, <2>2 DEF AccountInv, GoesBare, Dooming, Outdated, Excused
  <2>3. CASE Excused(n)
    BY <2>3 DEF Outdated
  <2> QED
    BY <1>1, <1>2, <2>1, <2>2, <2>3 DEF AccountInv, RevokedAhead
<1>5. req'[q] = r
  BY <1>1 DEF Arrive
<1>6. RequestInv(q)'
  BY <1>3, <1>5 DEF RequestInv
<1> QED
  BY <1>1, <1>3, <1>4, <1>6, ArriveKeeps

(* The other requests have yet to write anything.                          *)
LEMMA RequestKeeps ==
    ASSUME RowsInv, NEW q \in Slots, NEW n \in Names, NEW r \in Requests, r.who = n,
           Arrive(q, r), UNCHANGED Rows, RequestInv(q)',
           r.at \in {"clear", "set", "make", "move", "unbind", "ensure"}
    PROVE  RowsInv'
BY ArriveKeeps

LEMMA SmallKeeps ==
    ASSUME RowsInv, NEW q \in Slots, NEW n \in Names,
           \/ Forgot(q, n) \/ Reset(q, n)
           \/ \E c \in Names, s \in Spaces : Password(q, c, n, s)
    PROVE  RowsInv'
<1> USE Typed DEF RowsInv
<1>1. PICK op \in {"forgot", "reset", "password"}, at \in {"clear", "set"} :
        /\ Arrive(q, Only(op, at, NoName, n)) /\ UNCHANGED Rows
        /\ op \in {"reset", "password"} => at = "set"
  BY DEF Forgot, Reset, Password
<1> DEFINE r == Only(op, at, NoName, n)
<1>2. user[n].id \in Nat
  BY DEF Users
<1>3. r \in Requests /\ r.op = op /\ r.at = at /\ r.who = n
  BY <1>1, <1>2, IdleTyped DEF Only, Idle, Requests, Ops, Stages
<1>4. req'[q] = r
  BY <1>1 DEF Arrive
<1>5. RequestInv(q)'
  BY <1>1, <1>3, <1>4 DEF RequestInv
<1> HIDE DEF r
<1> QED
  BY <1>1, <1>3, <1>5, RequestKeeps DEF r

LEMMA CreateKeeps ==
    ASSUME RowsInv, NEW q \in Slots, NEW c \in Names, NEW n \in Names, NEW s \in Spaces,
           NEW role \in Roles, Create(q, c, n, s, role)
    PROVE  RowsInv'
<1> USE Typed DEF RowsInv
<1> DEFINE at == IF user[n].there THEN "bind" ELSE "make"
           r == [Only("create", at, NoName, n) EXCEPT !.to = s, !.role = role, !.num = served + 1]
<1>1. Arrive(q, r) /\ UNCHANGED Rows
  BY DEF Create
<1>2. user[n].id \in Nat /\ served + 1 \in Nat /\ served + 1 # 0
  BY DEF Users
<1>3. r \in Requests
  BY <1>2, IdleTyped DEF Only, Idle, Requests, Ops, Stages, Roles
<1>4. /\ r.op = "create" /\ r.at = at /\ r.who = n /\ r.to = s /\ r.num # 0
  BY <1>2, IdleTyped DEF Only, Idle
<1>5. req'[q] = r
  BY <1>1 DEF Arrive
<1>6. RequestInv(q)'
  BY <1>4, <1>5 DEF RequestInv
<1> HIDE DEF r
<1> QED
  BY <1>1, <1>3, <1>4, <1>6, ArriveKeeps

LEMMA CreateUserKeeps ==
    ASSUME RowsInv, NEW q \in Slots, NEW n \in Names, NEW s \in Spaces, NEW role \in Roles,
           CreateUser(q, n, s, role)
    PROVE  RowsInv'
<1> USE Typed DEF RowsInv
<1> DEFINE at == IF Bound(n, s) THEN "unbind" ELSE "ensure"
           r == [Only("cmd", at, NoName, n) EXCEPT !.to = s, !.role = role, !.num = served + 1,
                                                   !.row = member[n][s].row]
<1>1. Arrive(q, r) /\ UNCHANGED Rows
  BY DEF CreateUser
<1>2. /\ user[n].id \in Nat /\ served + 1 \in Nat /\ served + 1 # 0
      /\ member[n][s].row \in Nat
  BY DEF Users, Row
<1>3. r \in Requests
  <2>1. at \in Stages
    BY DEF Stages
  <2>2. Only("cmd", at, NoName, n) \in Requests
    BY <1>2, <2>1, IdleTyped DEF Only, Requests, Ops
  <2>3. role \in Roles \cup {"none"} /\ s \in Spaces \cup {NoSpace}
    OBVIOUS
  <2> HIDE DEF at
  <2> QED
    BY <1>2, <2>2, <2>3 DEF Requests
<1>4. /\ r.op = "cmd" /\ r.at = at /\ r.who = n /\ r.to = s /\ r.num # 0
  BY <1>2, IdleTyped DEF Only, Idle
<1>5. req'[q] = r
  BY <1>1 DEF Arrive
<1>6. RequestInv(q)'
  BY <1>4, <1>5 DEF RequestInv
<1> HIDE DEF r
<1> QED
  BY <1>1, <1>3, <1>4, <1>6, RequestKeeps

LEMMA DeleteKeeps ==
    ASSUME RowsInv, NEW q \in Slots, NEW c \in Names, NEW n \in Names, NEW s \in Spaces,
           Delete(q, c, n, s)
    PROVE  RowsInv'
<1> USE Typed DEF RowsInv
<1> DEFINE r == [Only("delete", "unbind", c, n) EXCEPT !.row = member[n][s].row]
<1>1. Arrive(q, r) /\ UNCHANGED Rows /\ c # n
  BY DEF Delete, NotOwn
<1>2. user[n].id \in Nat /\ member[n][s].row \in Nat
  BY DEF Users, Row
<1>3. r \in Requests
  BY <1>2, IdleTyped DEF Only, Idle, Requests, Ops, Stages
<1>4. r.op = "delete" /\ r.at = "unbind" /\ r.who = n /\ r.by = c
  BY <1>2, IdleTyped DEF Only, Idle
<1>5. req'[q] = r
  BY <1>1 DEF Arrive
<1>6. RequestInv(q)'
  BY <1>1, <1>4, <1>5 DEF RequestInv
<1> HIDE DEF r
<1> QED
  BY <1>1, <1>3, <1>4, <1>6, RequestKeeps

LEMMA UpdateKeeps ==
    ASSUME RowsInv, NEW q \in Slots, NEW c \in Names, NEW n \in Names, NEW s \in Spaces,
           NEW role \in Roles, NEW to \in Spaces, Update(q, c, n, s, role, to)
    PROVE  RowsInv'
<1> USE Typed DEF RowsInv
<1> DEFINE r == [Only("update", "move", c, n) EXCEPT !.to = to, !.role = role,
                                                     !.row = member[n][s].row]
<1>1. /\ Arrive(q, r) /\ UNCHANGED Rows /\ member[n][s].row # 0
      /\ role = "superadmin" => to = ControlPlane
  BY DEF Update, Sees, Bound
<1>2. user[n].id \in Nat /\ member[n][s].row \in Nat
  BY DEF Users, Row
<1>3. r \in Requests
  BY <1>2, IdleTyped DEF Only, Idle, Requests, Ops, Stages, Roles
<1>4. /\ r.op = "update" /\ r.at = "move" /\ r.who = n /\ r.by = c /\ r.to = to
      /\ r.role = role /\ r.row = member[n][s].row
  BY <1>2, IdleTyped DEF Only, Idle
<1>5. req'[q] = r
  BY <1>1 DEF Arrive
<1>6. RequestInv(q)'
  BY <1>1, <1>4, <1>5 DEF RequestInv
<1> HIDE DEF r
<1> QED
  BY <1>1, <1>3, <1>4, <1>6, RequestKeeps

-----------------------------------------------------------------------------
(* What a step of the request in slot q leaves true of the name n.         *)
LEMMA HasUserFrame ==
    ASSUME NEW q \in Slots, NEW n \in Names, HasUser(n), member'[n] = member[n],
           user[n].there => user'[n].there, excuse[n] \subseteq excuse'[n],
           \A x \in Slots \ {q} : req'[x] = req[x], req'[q].at # "bind"
    PROVE  HasUser(n)'
<1>1. Doing(n, {"create", "cmd"}, {"bind"})' => Doing(n, {"create", "cmd"}, {"bind"})
  BY DEF Doing
<1> QED
  BY <1>1 DEF HasUser, Members, Bound

LEMMA BareFrame ==
    ASSUME NEW q \in Slots, NEW n \in Names, GoesBare(n), excuse[n] \subseteq excuse'[n],
           \A s \in Spaces : Bound(n, s)' => Bound(n, s),
           \A x \in Slots \ {q} : req'[x] = req[x],
           Going(q, n)' => Going(q, n) \/ Members(n) = {}
    PROVE  GoesBare(n)'
<1>1. \A x \in Slots \ {q} : Going(x, n)' <=> Going(x, n)
  BY DEF Going
<1>2. Members(n) = {} => (Members(n) = {})'
  BY DEF Members
<1> QED
  BY <1>1, <1>2 DEF GoesBare

LEMMA AheadFrame ==
    ASSUME NEW q \in Slots, NEW n \in Names, RevokedAhead(n), user'[n] = user[n],
           floor'[n] = floor[n], excuse[n] \subseteq excuse'[n],
           \A x \in Slots \ {q} : req'[x] = req[x],
           Dooming(q, n) => Dooming(q, n)' \/ ~user[n].there \/ Excused(n)'
    PROVE  RevokedAhead(n)'
<1>1. \A x \in Slots \ {q} : Dooming(x, n)' <=> Dooming(x, n)
  BY DEF Going, Dooming
<1>2. Excused(n) => Excused(n)'
  BY DEF Excused
<1> QED
  BY <1>1, <1>2 DEF RevokedAhead

LEMMA OutdatedFrame ==
    ASSUME NEW q \in Slots, NEW n \in Names, NoneOutdated(n), floor'[n] = floor[n],
           excuse[n] \subseteq excuse'[n],
           \A x \in Slots \ {q} : req'[x] = req[x], req'[q].at # "issue",
           \A s \in sessions' : s.who = n => s \in sessions,
           req[q].op = "reset" /\ req[q].at \in {"consume", "revoke"} =>
             Resetting(n)' \/ Excused(n)'
    PROVE  NoneOutdated(n)'
<1>1. Excused(n) => Excused(n)'
  BY DEF Excused
<1>2. Resetting(n) => Resetting(n)' \/ Excused(n)'
  BY DEF Resetting, Doing
<1>3. \A pw : Outdated(n, pw)' => Outdated(n, pw)
  BY <1>1, <1>2 DEF Outdated
<1> QED
  BY <1>3 DEF NoneOutdated

(* A request moves on, or ends, without a write to user or membership.     *)
LEMMA QuietStep ==
    ASSUME RowsInv, TypeOK', NEW q \in Slots, NEW n \in Names, req[q].who = n,
           req'[q].who \in {n, NoName}, \A x \in Slots \ {q} : req'[x] = req[x],
           UNCHANGED <<user, member, floor>>, sessions' \subseteq sessions,
           excuse[n] \subseteq excuse'[n],
           \A m \in Names \ {n} : excuse'[m] = excuse[m],
           RequestInv(q)', req'[q].at \notin {"bind", "issue"},
           Going(q, n)' => Going(q, n) \/ Members(n) = {},
           Dooming(q, n) => Dooming(q, n)' \/ ~user[n].there \/ Excused(n)',
           req[q].op = "reset" /\ req[q].at \in {"consume", "revoke"} =>
             Resetting(n)' \/ Excused(n)'
    PROVE  RowsInv'
<1> USE DEF RowsInv
<1>1. AccountInv(n)'
  <2> USE DEF AccountInv
  <2>1. HasUser(n)'
    BY HasUserFrame
  <2>2. RowsWhole(n)'
    BY DEF RowsWhole, Bound
  <2>3. GoesBare(n)'
    BY BareFrame DEF Bound
  <2>4. RevokedAhead(n)'
    BY AheadFrame
  <2>5. NoneOutdated(n)'
    BY OutdatedFrame
  <2> QED
    BY <2>1, <2>2, <2>3, <2>4, <2>5
<1>2. SuperadminRemains'
  BY SuperFrame DEF Super
<1> QED
  BY <1>1, <1>2, Step

(* What every write of a request begins with.                              *)
LEMMA InFlight ==
    ASSUME RowsInv, NEW q \in Slots, req[q].at # "idle"
    PROVE  req[q] \in Requests /\ req[q].op # "idle" /\ \E n \in Names : req[q].who = n
BY Typed DEF RowsInv, RequestInv

LEMMA TypedReq ==
    ASSUME TypeOK, req' \in [Slots -> Requests],
           UNCHANGED <<user, member, served, floor, excuse>>,
           sessions' \subseteq Sessions, resets' \in [Names -> SUBSET Slots],
           faults' \in 0..MaxFaults
    PROVE  TypeOK'
BY DEF TypeOK, Requests, Sessions

LEMMA GotoTyped ==
    ASSUME TypeOK, NEW q \in Slots, NEW stage \in Stages, Goto(q, stage)
    PROVE  /\ req' \in [Slots -> Requests] /\ \A x \in Slots \ {q} : req'[x] = req[x]
           /\ req'[q] = [req[q] EXCEPT !.at = stage] /\ req'[q].at = stage
           /\ req'[q].op = req[q].op /\ req'[q].who = req[q].who /\ req'[q].id = req[q].id
           /\ req'[q].by = req[q].by /\ req'[q].to = req[q].to /\ req'[q].num = req[q].num
           /\ req'[q].row = req[q].row /\ req'[q].role = req[q].role
<1>1. req \in [Slots -> Requests] /\ req' = [req EXCEPT ![q].at = stage]
  BY Typed DEF Goto
<1>2. req'[q] = [req[q] EXCEPT !.at = stage] /\ req[q] \in Requests
  BY <1>1
<1>3. [req[q] EXCEPT !.at = stage] \in Requests
  BY <1>2 DEF Requests
<1> QED
  BY <1>1, <1>2, <1>3 DEF Requests

LEMMA EndTyped ==
    ASSUME TypeOK, NEW q \in Slots, End(q)
    PROVE  /\ req' \in [Slots -> Requests] /\ \A x \in Slots \ {q} : req'[x] = req[x]
           /\ req'[q] = Idle /\ RequestInv(q)'
<1>1. req' = [req EXCEPT ![q] = Idle] /\ req \in [Slots -> Requests]
  BY Typed DEF End
<1>2. req'[q] = Idle
  BY <1>1
<1> QED
  BY <1>1, <1>2, IdleTyped DEF RequestInv

LEMMA FaultTyped == TypeOK /\ Fault => faults' \in 0..MaxFaults
BY AccountsAssumption DEF TypeOK, Fault

LEMMA ResetKeeps ==
    ASSUME RowsInv, NEW q \in Slots, ClearReset(q) \/ InsertReset(q) \/ Consume(q)
    PROVE  RowsInv'
<1> USE Typed DEF RowsInv
<1>1. req[q] \in Requests /\ \E n \in Names : req[q].who = n
  BY InFlight DEF ClearReset, InsertReset, Consume, At
<1>2. PICK n \in Names : req[q].who = n
  BY <1>1
<1>3. /\ UNCHANGED <<user, member, sessions, served, floor, excuse>>
      /\ req[q].at \in {"clear", "insert", "consume"}
      /\ \/ End(q) /\ req[q].at = "insert"
         \/ \E stage \in {"insert", "revoke"} :
              Goto(q, stage) /\ (req[q].at = "consume" <=> stage = "revoke")
  BY DEF ClearReset, InsertReset, Consume, At
<1>4. resets' \in [Names -> SUBSET Slots]
  <2>1. CASE ClearReset(q)
    BY <1>2, <2>1 DEF ClearReset
  <2>2. CASE InsertReset(q)
    BY <1>2, <2>2 DEF InsertReset
  <2>3. CASE Consume(q)
    BY <1>2, <2>3 DEF Consume
  <2> QED
    BY <2>1, <2>2, <2>3
<1>5. faults' \in 0..MaxFaults
  BY FaultTyped DEF ClearReset, InsertReset, Consume, TypeOK
<1>6. ~Going(q, n) /\ ~Dooming(q, n)
  BY <1>3 DEF Going, Dooming
<1>7. CASE End(q) /\ req[q].at = "insert"
  <2>1. TypeOK'
    BY <1>3, <1>4, <1>5, <1>7, EndTyped, TypedReq
  <2>2. ~Going(q, n)' /\ req'[q] = Idle
    BY <1>7, EndTyped, IdleTyped DEF Going
  <2> QED
    BY <1>2, <1>3, <1>6, <1>7, <2>1, <2>2, EndTyped, IdleTyped, QuietStep
<1>8. ASSUME NEW stage \in {"insert", "revoke"}, Goto(q, stage),
             req[q].at = "consume" <=> stage = "revoke"
      PROVE  RowsInv'
  <2>1. stage \in Stages
    BY DEF Stages
  <2>2. /\ req' \in [Slots -> Requests] /\ \A x \in Slots \ {q} : req'[x] = req[x]
        /\ req'[q].at = stage /\ req'[q].op = req[q].op /\ req'[q].who = n
        /\ req'[q].by = req[q].by /\ req'[q].to = req[q].to /\ req'[q].num = req[q].num
        /\ req'[q].row = req[q].row /\ req'[q].role = req[q].role
    BY <1>2, <1>8, <2>1, GotoTyped
  <2>3. TypeOK'
    BY <1>3, <1>4, <1>5, <2>2, TypedReq
  <2>4. RequestInv(q) /\ req[q].op # "idle"
    BY <1>2, IdleTyped DEF RequestInv
  <2>5. RequestInv(q)'
    BY <1>2, <1>3, <1>8, <2>2, <2>4 DEF RequestInv
  <2>6. req[q].op = "delete" => stage # "revoke"
    BY <1>8, <2>4 DEF RequestInv
  <2>7. ~Going(q, n)'
    BY <2>2, <2>6 DEF Going
  <2>8. req[q].op = "reset" /\ req[q].at \in {"consume", "revoke"} => Resetting(n)'
    BY <1>3, <1>8, <2>2 DEF Resetting, Doing
  <2> QED
    BY <1>2, <1>3, <1>6, <2>2, <2>3, <2>5, <2>7, <2>8, QuietStep
<1> QED
  BY <1>3, <1>7, <1>8

LEMMA CountKeeps ==
    ASSUME RowsInv, NEW q \in Slots, Count(q)
    PROVE  RowsInv'
<1> USE Typed DEF RowsInv
<1>1. PICK n \in Names : req[q].who = n
  BY InFlight DEF Count, At
<1>2. /\ UNCHANGED <<user, member, sessions, resets, served, floor, excuse, faults>>
      /\ req[q].at = "count" /\ req[q].op = "delete"
      /\ IF Members(n) = {} THEN Goto(q, "revoke") ELSE End(q)
  BY <1>1 DEF Count, At, Last, RequestInv
<1>3. resets' \in [Names -> SUBSET Slots] /\ faults' \in 0..MaxFaults
  BY <1>2 DEF TypeOK
<1>4. ~Going(q, n) /\ ~Dooming(q, n)
  BY <1>2 DEF Going, Dooming
<1>5. CASE End(q)
  <2>1. TypeOK'
    BY <1>2, <1>3, <1>5, EndTyped, TypedReq
  <2>2. ~Going(q, n)' /\ req'[q] = Idle
    BY <1>5, EndTyped, IdleTyped DEF Going
  <2> QED
    BY <1>1, <1>2, <1>4, <1>5, <2>1, <2>2, EndTyped, IdleTyped, QuietStep
<1>6. CASE Members(n) = {} /\ Goto(q, "revoke")
  <2>1. "revoke" \in Stages
    BY DEF Stages
  <2>2. /\ req' \in [Slots -> Requests] /\ \A x \in Slots \ {q} : req'[x] = req[x]
        /\ req'[q].at = "revoke" /\ req'[q].op = "delete" /\ req'[q].who = n
        /\ req'[q].by = req[q].by
    BY <1>1, <1>2, <1>6, <2>1, GotoTyped
  <2>3. TypeOK'
    BY <1>2, <1>3, <2>2, TypedReq
  <2>4. RequestInv(q)'
    BY <1>1, <1>2, <2>2 DEF RequestInv
  <2> QED
    BY <1>1, <1>2, <1>4, <1>6, <2>2, <2>3, <2>4, QuietStep
<1> QED
  BY <1>2, <1>5, <1>6

LEMMA ForgetKeeps ==
    ASSUME RowsInv, NEW q \in Slots, Forget(q)
    PROVE  RowsInv'
<1> USE Typed DEF RowsInv
<1>1. PICK n \in Names : req[q].who = n
  BY InFlight DEF Forget, At
<1>2. /\ UNCHANGED <<user, member, sessions, served, floor, excuse, faults>>
      /\ req[q].at = "forget" /\ req[q].op = "delete" /\ req[q] \in Requests
      /\ resets' = [resets EXCEPT ![n] = {}]
      /\ IF user[n].there
         THEN req' = [req EXCEPT ![q].at = "drop", ![q].id = user[n].id]
         ELSE End(q)
  BY <1>1 DEF Forget, At, RequestInv
<1>3. resets' \in [Names -> SUBSET Slots] /\ faults' \in 0..MaxFaults
  BY <1>2 DEF TypeOK
<1>4. Going(q, n)
  BY <1>1, <1>2 DEF Going
<1>5. CASE ~user[n].there /\ End(q)
  <2>1. TypeOK'
    BY <1>2, <1>3, <1>5, EndTyped, TypedReq
  <2> QED
    BY <1>1, <1>2, <1>4, <1>5, <2>1, EndTyped, IdleTyped, QuietStep
<1>6. CASE user[n].there /\ req' = [req EXCEPT ![q].at = "drop", ![q].id = user[n].id]
  <2>1. user[n].id \in Nat /\ "drop" \in Stages
    BY DEF Users, Stages
  <2>2. /\ req'[q] = [req[q] EXCEPT !.at = "drop", !.id = user[n].id]
        /\ \A x \in Slots \ {q} : req'[x] = req[x]
    BY <1>6
  <2>3. /\ req'[q].at = "drop" /\ req'[q].id = user[n].id /\ req'[q].op = "delete"
        /\ req'[q].who = n /\ req'[q].by = req[q].by
    BY <1>1, <1>2, <2>2 DEF Requests
  <2>4. req' \in [Slots -> Requests]
    <3>1. [req[q] EXCEPT !.at = "drop", !.id = user[n].id] \in Requests
      BY <1>2, <2>1 DEF Requests
    <3> QED
      BY <1>6, <3>1
  <2>5. TypeOK'
    BY <1>2, <1>3, <2>4, TypedReq
  <2>6. RequestInv(q)'
    BY <1>1, <1>2, <2>3 DEF RequestInv
  <2>7. Dooming(q, n)'
    BY <1>2, <2>3 DEF Dooming, Going
  <2> QED
    BY <1>1, <1>2, <1>4, <2>2, <2>3, <2>5, <2>6, <2>7, QuietStep
<1> QED
  BY <1>2, <1>5, <1>6

(* A request stops half-way, and says what it leaves behind.               *)
LEMMA FailKeeps ==
    ASSUME RowsInv, NEW q \in Slots, Fail(q)
    PROVE  RowsInv'
<1> USE Typed DEF RowsInv
<1>1. PICK n \in Names : req[q].who = n
  BY DEF Fail, RequestInv
<1>2. /\ UNCHANGED <<user, member, sessions, resets, served, floor>> /\ End(q)
      /\ req[q].at \notin {"consume", "revoke"} /\ faults' \in 0..MaxFaults
      /\ excuse' = [excuse EXCEPT ![n] = @ \cup Halved(q, n)]
  BY <1>1, FaultTyped DEF Fail
<1>3. /\ excuse'[n] = excuse[n] \cup Halved(q, n)
      /\ \A m \in Names \ {n} : excuse'[m] = excuse[m]
  BY <1>2
<1>4. excuse' \in [Names -> SUBSET Excuses]
  <2>1. Halved(q, n) \subseteq Excuses
    BY DEF Halved, Excuses
  <2> QED
    BY <1>2, <2>1
<1>5. /\ req' \in [Slots -> Requests] /\ \A x \in Slots \ {q} : req'[x] = req[x]
      /\ req'[q] = Idle /\ RequestInv(q)'
  BY <1>2, EndTyped
<1>6. TypeOK'
  BY <1>2, <1>4, <1>5 DEF TypeOK, Requests
<1>7. ~Going(q, n)'
  BY <1>5, IdleTyped DEF Going
<1>8. Dooming(q, n) => Excused(n)'
  BY <1>1, <1>3 DEF Dooming, Going, Halved, Excused
<1> QED
  BY <1>1, <1>2, <1>3, <1>5, <1>6, <1>7, <1>8, IdleTyped, QuietStep

-----------------------------------------------------------------------------
(* Sessions and passwords.                                                 *)
LEMMA IssueKeeps ==
    ASSUME RowsInv, NEW q \in Slots, Issue(q)
    PROVE  RowsInv'
<1> USE Typed DEF RowsInv
<1>1. PICK n \in Names : req[q].who = n
  BY InFlight DEF Issue, At
<1>2. /\ UNCHANGED <<user, member, resets, served, floor, excuse, faults>>
      /\ req[q].at = "issue" /\ req[q].op = "login" /\ req[q] \in Requests /\ End(q)
      /\ sessions' = sessions \cup {[who |-> n, pw |-> req[q].pw]}
  BY <1>1 DEF Issue, At, RequestInv
<1>3. /\ req' \in [Slots -> Requests] /\ \A x \in Slots \ {q} : req'[x] = req[x]
      /\ req'[q] = Idle /\ RequestInv(q)'
  BY <1>2, EndTyped
<1>4. TypeOK'
  <2>1. sessions' \subseteq Sessions
    BY <1>1, <1>2 DEF Requests, Sessions
  <2> QED
    BY <1>2, <1>3, <2>1 DEF TypeOK, Requests, Sessions
<1>5. AccountInv(n)'
  <2> USE DEF AccountInv
  <2>1. HasUser(n)'
    BY <1>2, <1>3, IdleTyped, HasUserFrame
  <2>2. RowsWhole(n)'
    BY <1>2 DEF RowsWhole, Bound
  <2>3. ~Going(q, n)' /\ ~Dooming(q, n)
    BY <1>2, <1>3, IdleTyped DEF Going, Dooming
  <2>4. GoesBare(n)'
    BY <1>2, <1>3, <2>3, BareFrame DEF Bound
  <2>5. RevokedAhead(n)'
    BY <1>2, <1>3, <2>3, AheadFrame
  <2>6. \A pw : Outdated(n, pw)' <=> Outdated(n, pw)
    BY <1>2, <1>3, IdleTyped DEF Outdated, Resetting, Excused, Doing
  <2>7. NoneOutdated(n)'
    BY <1>1, <1>2, <1>3, <2>6, IdleTyped DEF NoneOutdated
  <2> QED
    BY <2>1, <2>2, <2>4, <2>5, <2>7
<1>6. SuperadminRemains'
  BY <1>2 DEF SuperadminRemains, Super
<1> QED
  BY <1>1, <1>2, <1>3, <1>4, <1>5, <1>6, IdleTyped, Step

LEMMA EnsuredTyped ==
    ASSUME NEW u \in Users
    PROVE  /\ Ensured(u) \in Users /\ Ensured(u).there /\ Ensured(u).pass
           /\ Ensured(u).pw = u.pw + 1
<1>1. PICK i \in Nat : i = IF u.there THEN u.id ELSE u.id + 1
  BY DEF Users
<1> DEFINE v == [u EXCEPT !.id = i, !.there = TRUE]
<1>2. v \in Users /\ v.pw = u.pw /\ v.there = TRUE
  BY DEF Users
<1>3. Ensured(u) = [v EXCEPT !.pass = TRUE, !.pw = u.pw + 1] /\ u.pw + 1 \in Nat
  BY <1>1 DEF Ensured, Users
<1> HIDE DEF v
<1> QED
  BY <1>2, <1>3 DEF Users

(* A new password, and a number above every floor.                         *)
LEMMA NewPassword ==
    ASSUME TypeOK, NEW n \in Names, user'[n] = Ensured(user[n]), RevokedAhead(n),
           floor'[n] = floor[n]
    PROVE  RevokedAhead(n)'
<1>1. user[n] \in Users /\ floor[n] \in Nat
  BY Typed
<1>2. user'[n].pw = user[n].pw + 1 /\ user[n].pw \in Nat
  BY <1>1, EnsuredTyped DEF Users
<1> QED
  BY <1>1, <1>2 DEF RevokedAhead

(* A write of a new password, by a reset or a change.                      *)
LEMMA SetPasswordKeeps ==
    ASSUME RowsInv, NEW q \in Slots, SetPassword(q)
    PROVE  RowsInv'
<1> USE Typed DEF RowsInv
<1>1. PICK n \in Names : req[q].who = n
  BY InFlight DEF SetPassword, At
<1>2. /\ UNCHANGED <<member, sessions, resets, served, excuse, faults>>
      /\ req[q].at = "set" /\ req[q] \in Requests
      /\ user' = [user EXCEPT ![n] = IF SameUser(q) THEN Ensured(user[n]) ELSE user[n]]
      /\ \/ req[q].op = "reset" /\ Goto(q, "consume")
            /\ floor' = [floor EXCEPT ![n] = user'[n].pw]
         \/ req[q].op # "reset" /\ End(q) /\ floor' = floor
  BY <1>1 DEF SetPassword, At
<1>3. user[n] \in Users /\ Ensured(user[n]) \in Users /\ Ensured(user[n]).there
  BY EnsuredTyped
<1>4. /\ user' \in [Names -> Users] /\ \A m \in Names \ {n} : user'[m] = user[m]
      /\ user'[n] \in {user[n], Ensured(user[n])}
  BY <1>2, <1>3
<1>5. user[n].there => user'[n].there
  BY <1>3, <1>4
<1>6. /\ floor' \in [Names -> Nat] /\ \A m \in Names \ {n} : floor'[m] = floor[m]
      /\ req[q].op = "reset" => floor'[n] = user'[n].pw
      /\ req[q].op # "reset" => floor'[n] = floor[n]
  BY <1>2, <1>4 DEF Users
<1>7. /\ req' \in [Slots -> Requests] /\ \A x \in Slots \ {q} : req'[x] = req[x]
      /\ \/ /\ req[q].op = "reset" /\ req'[q].op = "reset" /\ req'[q].at = "consume"
            /\ req'[q].who = n
         \/ req[q].op # "reset" /\ req'[q] = Idle
  <2>1. "consume" \in Stages
    BY DEF Stages
  <2> QED
    BY <1>1, <1>2, <2>1, GotoTyped, EndTyped
<1>8. RequestInv(q)'
  BY <1>7, IdleTyped DEF RequestInv
<1>9. TypeOK'
  BY <1>2, <1>4, <1>6, <1>7 DEF TypeOK, Users, Requests
<1>10. AccountInv(n)'
  <2> USE DEF AccountInv
  <2>1. req'[q].at \notin {"bind", "issue"} /\ ~Going(q, n)' /\ ~Dooming(q, n)
    BY <1>2, <1>7, IdleTyped DEF Going, Dooming
  <2>2. HasUser(n)'
    BY <1>2, <1>5, <1>7, <2>1, HasUserFrame
  <2>3. RowsWhole(n)'
    BY <1>2 DEF RowsWhole, Bound
  <2>4. GoesBare(n)'
    BY <1>2, <1>7, <2>1, BareFrame DEF Bound
  <2>5. RevokedAhead(n)'
    <3>1. CASE req[q].op = "reset"
      BY <1>4, <1>6, <3>1 DEF RevokedAhead, Users
    <3>2. CASE req[q].op # "reset" /\ user'[n] = Ensured(user[n])
      BY <1>6, <3>2, NewPassword
    <3>3. CASE req[q].op # "reset" /\ user'[n] = user[n]
      BY <1>2, <1>6, <1>7, <2>1, <3>3, AheadFrame
    <3> QED
      BY <1>4, <3>1, <3>2, <3>3
  <2>6. NoneOutdated(n)'
    <3>1. CASE req[q].op = "reset"
      <4>1. Resetting(n)'
        BY <1>7, <3>1, IdleTyped DEF Resetting, Doing
      <4> QED
        BY <4>1 DEF NoneOutdated, Outdated
    <3>2. CASE req[q].op # "reset"
      BY <1>2, <1>6, <1>7, <2>1, <3>2, OutdatedFrame
    <3> QED
      BY <3>1, <3>2
  <2> QED
    BY <2>2, <2>3, <2>4, <2>5, <2>6
<1>11. SuperadminRemains'
  BY <1>2 DEF SuperadminRemains, Super
<1> QED
  BY <1>1, <1>2, <1>4, <1>6, <1>7, <1>8, <1>9, <1>10, <1>11, IdleTyped, Step

(* After a revocation no session is left, or there is an excuse.           *)
LEMMA RevokeKeeps ==
    ASSUME RowsInv, NEW q \in Slots, Revoke(q)
    PROVE  RowsInv'
<1> USE Typed DEF RowsInv
<1>1. PICK n \in Names : req[q].who = n
  BY InFlight DEF Revoke, At
<1> DEFINE late == IF Doing(n, {"login"}, {"issue"}) THEN {"lateLogin"} ELSE {}
<1>2. /\ UNCHANGED <<user, member, resets, served>>
      /\ req[q].at = "revoke" /\ req[q] \in Requests /\ req[q].op \in {"reset", "delete"}
      /\ \/ /\ sessions' = sessions \ Revoked(n) /\ UNCHANGED faults
            /\ excuse' = [excuse EXCEPT ![n] = @ \cup late]
         \/ /\ Fault /\ UNCHANGED sessions
            /\ excuse' = [excuse EXCEPT ![n] = @ \cup late \cup {"revokeLost"}]
      /\ \/ req[q].op = "reset" /\ End(q) /\ floor' = floor
         \/ /\ req[q].op = "delete" /\ Goto(q, "forget")
            /\ floor' = [floor EXCEPT ![n] = user[n].pw + 1]
  BY <1>1 DEF Revoke, At, RequestInv
<1>3. late \subseteq Excuses /\ "revokeLost" \in Excuses
  BY DEF Excuses
<1>4. /\ excuse' \in [Names -> SUBSET Excuses] /\ excuse[n] \subseteq excuse'[n]
      /\ \A m \in Names \ {n} : excuse'[m] = excuse[m]
      /\ sessions' \subseteq sessions /\ faults' \in 0..MaxFaults
      /\ late \subseteq excuse'[n]
      /\ sessions' = sessions \ Revoked(n) \/ "revokeLost" \in excuse'[n]
  <2> HIDE DEF late
  <2>1. faults' \in 0..MaxFaults
    BY <1>2, FaultTyped DEF TypeOK
  <2> QED
    BY <1>2, <1>3, <2>1
<1>5. user[n].pw \in Nat /\ floor[n] \in Nat
  BY DEF Users
<1>6. /\ req' \in [Slots -> Requests] /\ \A x \in Slots \ {q} : req'[x] = req[x]
      /\ \/ req[q].op = "reset" /\ req'[q] = Idle /\ floor' = floor
         \/ /\ req[q].op = "delete" /\ req'[q].op = "delete" /\ req'[q].at = "forget"
            /\ req'[q].who = n /\ req'[q].by = req[q].by
            /\ floor' \in [Names -> Nat] /\ floor'[n] = user[n].pw + 1
            /\ \A m \in Names \ {n} : floor'[m] = floor[m]
  <2>1. "forget" \in Stages
    BY DEF Stages
  <2>2. CASE req[q].op = "reset"
    BY <1>2, <2>2, EndTyped
  <2>3. CASE req[q].op = "delete"
    <3>1. /\ req' \in [Slots -> Requests] /\ \A x \in Slots \ {q} : req'[x] = req[x]
          /\ req'[q].op = "delete" /\ req'[q].at = "forget" /\ req'[q].who = n
          /\ req'[q].by = req[q].by
      <4>1. Goto(q, "forget")
        BY <1>2, <2>3
      <4>2. req[q].op = "delete" /\ req[q].who = n
        BY <1>1, <2>3
      <4> QED
        BY <2>1, <4>1, <4>2, GotoTyped
    <3>2. floor' = [floor EXCEPT ![n] = user[n].pw + 1]
      BY <1>2, <2>3
    <3>3. /\ floor' \in [Names -> Nat] /\ floor'[n] = user[n].pw + 1
          /\ \A m \in Names \ {n} : floor'[m] = floor[m]
      BY <1>5, <3>2
    <3> QED
      BY <2>3, <3>1, <3>3
  <2> QED
    BY <1>2, <2>2, <2>3
<1>7. RequestInv(q)'
  BY <1>1, <1>6, IdleTyped DEF RequestInv
<1>8. TypeOK'
  BY <1>2, <1>4, <1>6 DEF TypeOK, Users, Requests, Sessions
<1>9. Excused(n)' \/ ((\A s \in sessions' : s.who # n) /\ ~Doing(n, {"login"}, {"issue"}))
  <2>1. late # {} => "lateLogin" \in excuse'[n]
    BY <1>4
  <2> QED
    BY <1>4, <2>1 DEF Revoked, Excused
<1>10. AccountInv(n)'
  <2> USE DEF AccountInv
  <2>1. req'[q].at \notin {"bind", "issue"}
    BY <1>6, IdleTyped
  <2>2. HasUser(n)'
    BY <1>2, <1>4, <1>6, <2>1, HasUserFrame
  <2>3. RowsWhole(n)'
    BY <1>2 DEF RowsWhole, Bound
  <2>4. GoesBare(n)'
    <3>1. Going(q, n)' => Going(q, n)
      BY <1>1, <1>2, <1>6, IdleTyped DEF Going
    <3> QED
      BY <1>2, <1>4, <1>6, <3>1, BareFrame DEF Bound
  <2>5. RevokedAhead(n)'
    <3>1. CASE req[q].op = "reset"
      <4>1. ~Dooming(q, n)
        BY <3>1 DEF Dooming, Going
      <4> QED
        BY <1>2, <1>4, <1>6, <3>1, <4>1, AheadFrame
    <3>2. CASE req[q].op = "delete"
      <4>1. Dooming(q, n)' /\ floor'[n] = user[n].pw + 1 /\ user' = user
        BY <1>2, <1>6, <3>2 DEF Dooming, Going
      <4> QED
        BY <1>5, <4>1 DEF RevokedAhead
    <3> QED
      BY <1>2, <3>1, <3>2
  <2>6. NoneOutdated(n)'
    <3>1. \A x \in Slots : req'[x].at = "issue" => req'[x] = req[x]
      BY <1>6, <2>1
    <3>2. \A x \in Slots : req[x].at = "issue" => req[x].op = "login"
      BY DEF RequestInv
    <3>3. CASE Excused(n)'
      BY <3>3 DEF NoneOutdated, Outdated
    <3>4. CASE (\A s \in sessions' : s.who # n) /\ ~Doing(n, {"login"}, {"issue"})
      <4>1. \A x \in Slots : ~(req'[x].who = n /\ req'[x].at = "issue")
        BY <3>1, <3>2, <3>4 DEF Doing
      <4> QED
        BY <3>4, <4>1 DEF NoneOutdated
    <3> QED
      BY <1>9, <3>3, <3>4
  <2> QED
    BY <2>2, <2>3, <2>4, <2>5, <2>6
<1>11. SuperadminRemains'
  BY <1>2, <1>4, SuperFrame DEF Super
<1>12. \A m \in Names \ {n} : floor'[m] = floor[m]
  BY <1>6
<1> QED
  BY <1>1, <1>2, <1>4, <1>6, <1>7, <1>8, <1>10, <1>11, <1>12, IdleTyped, Step

-----------------------------------------------------------------------------
(* Users are made, and dropped.                                            *)
LEMMA MadeKeeps ==
    ASSUME RowsInv, NEW q \in Slots, NEW n \in Names, req[q].who = n,
           req[q].at \in {"make", "ensure"}, Goto(q, "bind"),
           user' = [user EXCEPT ![n] = Ensured(user[n])],
           UNCHANGED <<member, sessions, resets, served, floor, excuse, faults>>
    PROVE  RowsInv'
<1> USE Typed DEF RowsInv
<1>1. user[n] \in Users /\ Ensured(user[n]) \in Users /\ Ensured(user[n]).there
  BY EnsuredTyped
<1>2. /\ user' \in [Names -> Users] /\ user'[n] = Ensured(user[n]) /\ user'[n].there
      /\ \A m \in Names \ {n} : user'[m] = user[m]
  BY <1>1
<1>3. "bind" \in Stages
  BY DEF Stages
<1>4. /\ req' \in [Slots -> Requests] /\ \A x \in Slots \ {q} : req'[x] = req[x]
      /\ req'[q].at = "bind" /\ req'[q].op = req[q].op /\ req'[q].who = n
      /\ req'[q].to = req[q].to /\ req'[q].num = req[q].num
  BY <1>3, GotoTyped
<1>5. RequestInv(q) /\ req[q].op \in {"create", "cmd"}
  BY DEF RequestInv
<1>6. RequestInv(q)'
  BY <1>4, <1>5 DEF RequestInv
<1>7. TypeOK'
  BY <1>2, <1>4 DEF TypeOK, Users, Requests
<1>8. AccountInv(n)'
  <2> USE DEF AccountInv
  <2>1. HasUser(n)'
    BY <1>2 DEF HasUser
  <2>2. RowsWhole(n)'
    BY DEF RowsWhole, Bound
  <2>3. ~Going(q, n)'
    BY <1>4, <1>5 DEF Going
  <2>4. GoesBare(n)'
    BY <1>4, <2>3, BareFrame DEF Bound
  <2>5. RevokedAhead(n)'
    BY <1>2, NewPassword
  <2>6. NoneOutdated(n)'
    BY <1>4, <1>5, OutdatedFrame
  <2> QED
    BY <2>1, <2>2, <2>4, <2>5, <2>6
<1>9. SuperadminRemains'
  BY DEF SuperadminRemains, Super
<1> QED
  BY <1>2, <1>4, <1>6, <1>7, <1>8, <1>9, Step

LEMMA EnsureKeeps ==
    ASSUME RowsInv, NEW q \in Slots, Make(q) \/ Ensure(q)
    PROVE  RowsInv'
<1> USE Typed DEF RowsInv
<1>1. PICK n \in Names : req[q].who = n
  BY InFlight DEF Make, Ensure, At
<1>2. /\ UNCHANGED <<member, sessions, resets, served, floor, excuse, faults>>
      /\ req[q].at \in {"make", "ensure"}
      /\ \/ End(q) /\ UNCHANGED user
         \/ Goto(q, "bind") /\ user' = [user EXCEPT ![n] = Ensured(user[n])]
  BY <1>1 DEF Make, Ensure, At
<1>3. CASE End(q) /\ UNCHANGED user
  <2>1. TypeOK'
    BY <1>2, <1>3, EndTyped, TypedReq DEF TypeOK
  <2>2. ~Going(q, n)' /\ req'[q] = Idle /\ ~Dooming(q, n)
    BY <1>2, <1>3, EndTyped, IdleTyped DEF Going, Dooming
  <2> QED
    BY <1>1, <1>2, <1>3, <2>1, <2>2, EndTyped, IdleTyped, QuietStep
<1>4. CASE Goto(q, "bind") /\ user' = [user EXCEPT ![n] = Ensured(user[n])]
  BY <1>1, <1>2, <1>4, MadeKeeps
<1> QED
  BY <1>2, <1>3, <1>4

LEMMA DropKeeps ==
    ASSUME RowsInv, NEW q \in Slots, Drop(q)
    PROVE  RowsInv'
<1> USE Typed DEF RowsInv
<1>1. PICK n \in Names : req[q].who = n
  BY InFlight DEF Drop, At
<1>2. /\ UNCHANGED <<member, sessions, resets, served, floor, faults>>
      /\ req[q].at = "drop" /\ req[q].op = "delete" /\ End(q)
      /\ \/ ~SameUser(q) /\ UNCHANGED <<user, excuse>>
         \/ /\ SameUser(q) /\ user' = [user EXCEPT ![n].there = FALSE]
            /\ IF Doing(n, {"create", "cmd"}, {"bind"}) THEN Excuse(n, {"crossed", "orphaned"})
               ELSE UNCHANGED excuse
  BY <1>1 DEF Drop, At, RequestInv
<1>3. /\ req' \in [Slots -> Requests] /\ \A x \in Slots \ {q} : req'[x] = req[x]
      /\ req'[q] = Idle /\ RequestInv(q)'
  BY <1>2, EndTyped
<1>4. ~Going(q, n)' /\ Going(q, n)
  BY <1>1, <1>2, <1>3, IdleTyped DEF Going
<1>5. CASE ~SameUser(q) /\ UNCHANGED <<user, excuse>>
  <2>1. TypeOK'
    BY <1>2, <1>3, <1>5, TypedReq DEF TypeOK
  <2>2. Dooming(q, n) => ~user[n].there
    BY <1>1, <1>2, <1>5 DEF Dooming, SameUser
  <2> QED
    BY <1>1, <1>2, <1>3, <1>4, <1>5, <2>1, <2>2, IdleTyped, QuietStep
<1>6. CASE /\ SameUser(q) /\ user' = [user EXCEPT ![n].there = FALSE]
           /\ IF Doing(n, {"create", "cmd"}, {"bind"}) THEN Excuse(n, {"crossed", "orphaned"})
              ELSE UNCHANGED excuse
  <2>1. /\ user' \in [Names -> Users] /\ ~user'[n].there /\ user'[n].pw = user[n].pw
        /\ \A m \in Names \ {n} : user'[m] = user[m]
    <3>1. user[n] \in Users /\ user'[n] = [user[n] EXCEPT !.there = FALSE]
      BY <1>6
    <3>2. user'[n] \in Users /\ ~user'[n].there /\ user'[n].pw = user[n].pw
      BY <3>1 DEF Users
    <3> QED
      BY <1>6, <3>1, <3>2
  <2>2. /\ excuse' \in [Names -> SUBSET Excuses] /\ excuse[n] \subseteq excuse'[n]
        /\ \A m \in Names \ {n} : excuse'[m] = excuse[m]
        /\ Doing(n, {"create", "cmd"}, {"bind"}) => "orphaned" \in excuse'[n]
    <3>1. {"crossed", "orphaned"} \subseteq Excuses
      BY DEF Excuses
    <3> QED
      BY <1>6, <3>1 DEF Excuse
  <2>3. TypeOK'
    BY <1>2, <1>3, <2>1, <2>2 DEF TypeOK, Users, Requests
  <2>4. AccountInv(n)'
    <3> USE DEF AccountInv
    <3>1. HasUser(n)'
      <4>1. Members(n) = {} \/ "orphaned" \in excuse[n]
        BY <1>4 DEF GoesBare
      <4>2. Members(n) = {} => (Members(n) = {})'
        BY <1>2 DEF Members, Bound
      <4>3. Doing(n, {"create", "cmd"}, {"bind"})' => Doing(n, {"create", "cmd"}, {"bind"})
        BY <1>3, IdleTyped DEF Doing
      <4> QED
        BY <2>2, <4>1, <4>2, <4>3 DEF HasUser
    <3>2. RowsWhole(n)'
      BY <1>2 DEF RowsWhole, Bound
    <3>3. GoesBare(n)'
      BY <1>2, <1>3, <1>4, <2>2, BareFrame DEF Bound
    <3>4. RevokedAhead(n)'
      BY <1>2, <2>1 DEF RevokedAhead
    <3>5. NoneOutdated(n)'
      BY <1>2, <1>3, <2>2, IdleTyped, OutdatedFrame
    <3> QED
      BY <3>1, <3>2, <3>3, <3>4, <3>5
  <2>5. SuperadminRemains'
    BY <1>2, <2>2, SuperFrame DEF Super
  <2> QED
    BY <1>1, <1>2, <1>3, <2>1, <2>2, <2>3, <2>4, <2>5, IdleTyped, Step
<1> QED
  BY <1>2, <1>5, <1>6

-----------------------------------------------------------------------------
(* Memberships are made, moved and removed.                                *)
LEMMA BindKeeps ==
    ASSUME RowsInv, NEW q \in Slots, Bind(q)
    PROVE  RowsInv'
<1> USE Typed DEF RowsInv
<1>1. PICK n \in Names : req[q].who = n
  BY InFlight DEF Bind, At
<1>2. /\ UNCHANGED <<user, sessions, resets, served, floor, faults>>
      /\ req[q] \in Requests /\ req[q].at = "bind" /\ req[q].op \in {"create", "cmd"}
      /\ req[q].to \in Spaces /\ req[q].num # 0 /\ End(q)
  BY <1>1 DEF Bind, At, RequestInv
<1>3. /\ req' \in [Slots -> Requests] /\ \A x \in Slots \ {q} : req'[x] = req[x]
      /\ req'[q] = Idle /\ RequestInv(q)'
  BY <1>2, EndTyped
<1>4. ~Going(q, n)' /\ ~Going(q, n) /\ ~Dooming(q, n)
  BY <1>1, <1>2, <1>3, IdleTyped DEF Going, Dooming
<1>5. CASE UNCHANGED <<member, excuse>>
  <2>1. TypeOK'
    BY <1>2, <1>3, <1>5, TypedReq DEF TypeOK
  <2> QED
    BY <1>1, <1>2, <1>3, <1>4, <1>5, <2>1, IdleTyped, QuietStep
<1>6. ASSUME NEW to \in Spaces, to = req[q].to, ~Bound(n, to),
             member' = [member EXCEPT ![n][to] = [row |-> req[q].num, role |-> req[q].role]],
             IF Crossing(n) THEN Excuse(n, {"crossed", "orphaned"}) ELSE UNCHANGED excuse
      PROVE  RowsInv'
  <2>1. /\ member' \in [Names -> [Spaces -> Row]]
        /\ \A m \in Names \ {n} : member'[m] = member[m]
        /\ \A s \in Spaces \ {to} : member'[n][s] = member[n][s]
        /\ Bound(n, to)'
    <3>1. [row |-> req[q].num, role |-> req[q].role] \in Row
      BY <1>2 DEF Requests, Row
    <3>2. member'[n] = [member[n] EXCEPT ![to] = [row |-> req[q].num, role |-> req[q].role]]
      BY <1>6
    <3>3. member'[n] \in [Spaces -> Row] /\ member'[n][to].row # 0
      BY <1>2, <3>1, <3>2
    <3> QED
      BY <1>6, <3>2, <3>3 DEF Bound
  <2>2. /\ excuse' \in [Names -> SUBSET Excuses] /\ excuse[n] \subseteq excuse'[n]
        /\ \A m \in Names \ {n} : excuse'[m] = excuse[m]
        /\ Crossing(n) => {"crossed", "orphaned"} \subseteq excuse'[n]
    <3>1. {"crossed", "orphaned"} \subseteq Excuses
      BY DEF Excuses
    <3> QED
      BY <1>6, <3>1 DEF Excuse
  <2>3. TypeOK'
    BY <1>2, <1>3, <2>1, <2>2 DEF TypeOK, Users, Requests
  <2>4. AccountInv(n)'
    <3> USE DEF AccountInv
    <3>1. HasUser(n)'
      <4>1. user[n].there \/ "orphaned" \in excuse[n]
        BY <1>1, <1>2 DEF HasUser, Doing
      <4> QED
        BY <1>2, <2>2, <4>1 DEF HasUser
    <3>2. RowsWhole(n)'
      BY <2>1 DEF RowsWhole, Bound
    <3>3. GoesBare(n)'
      <4>1. ASSUME NEW x \in Slots, Going(x, n)' PROVE Crossing(n)
        BY <1>3, <1>4, <4>1 DEF Going, Crossing, Doing
      <4> QED
        BY <2>2, <4>1 DEF GoesBare
    <3>4. RevokedAhead(n)'
      BY <1>2, <1>3, <1>4, <2>2, AheadFrame
    <3>5. NoneOutdated(n)'
      BY <1>2, <1>3, <2>2, IdleTyped, OutdatedFrame
    <3> QED
      BY <3>1, <3>2, <3>3, <3>4, <3>5
  <2>5. SuperadminRemains'
    <3>1. ControlPlane \in Spaces
      BY DEF Spaces
    <3>2. Super(n) => Super(n)'
      BY <1>6, <2>1, <3>1 DEF Super, AccountInv, RowsWhole
    <3> QED
      BY <2>1, <2>2, <3>2, SuperFrame
  <2> QED
    BY <1>1, <1>2, <1>3, <2>1, <2>2, <2>3, <2>4, <2>5, IdleTyped, Step
<1> QED
  BY <1>1, <1>2, <1>5, <1>6 DEF Bind

LEMMA MoveKeeps ==
    ASSUME RowsInv, NEW q \in Slots, Move(q)
    PROVE  RowsInv'
<1> USE Typed DEF RowsInv
<1>1. PICK n \in Names : req[q].who = n
  BY InFlight DEF Move, At
<1>2. /\ UNCHANGED <<user, sessions, resets, served, floor, faults>>
      /\ req[q] \in Requests /\ req[q].at = "move" /\ req[q].op = "update"
      /\ req[q].to \in Spaces /\ req[q].row # 0 /\ req[q].by \in Names /\ End(q)
      /\ req[q].role = "superadmin" => req[q].to = ControlPlane
  BY <1>1 DEF Move, At, RequestInv
<1>3. /\ req' \in [Slots -> Requests] /\ \A x \in Slots \ {q} : req'[x] = req[x]
      /\ req'[q] = Idle /\ RequestInv(q)'
  BY <1>2, EndTyped
<1>4. ~Going(q, n)' /\ ~Going(q, n) /\ ~Dooming(q, n)
  BY <1>1, <1>2, <1>3, IdleTyped DEF Going, Dooming
<1>5. CASE UNCHANGED <<member, excuse>>
  <2>1. TypeOK'
    BY <1>2, <1>3, <1>5, TypedReq DEF TypeOK
  <2> QED
    BY <1>1, <1>2, <1>3, <1>4, <1>5, <2>1, IdleTyped, QuietStep
<1>6. ASSUME NEW to \in Spaces, to = req[q].to, NEW row \in Nat, row = req[q].row,
             NEW at \in RowAt(n, row), \A s \in RowAt(n, row) : s = to \/ ~Bound(n, to),
             member' = [member EXCEPT ![n] = [s \in Spaces |->
                           IF s = to THEN [row |-> row, role |-> req[q].role]
                           ELSE IF member[n][s].row = row THEN None ELSE member[n][s]]],
             IF req[q].role # "superadmin" /\ Demoting(q)
             THEN Excuse(n, {"demoted"}) ELSE UNCHANGED excuse
      PROVE  RowsInv'
  <2>1. /\ member' \in [Names -> [Spaces -> Row]]
        /\ \A m \in Names \ {n} : member'[m] = member[m]
        /\ member'[n][to] = [row |-> row, role |-> req[q].role]
        /\ \A s \in Spaces \ {to} :
             member'[n][s] = IF member[n][s].row = row THEN None ELSE member[n][s]
    <3>1. [row |-> row, role |-> req[q].role] \in Row /\ None \in Row
      BY <1>2 DEF Requests, Row, None
    <3> QED
      BY <1>6, <3>1
  <2>2. /\ excuse' \in [Names -> SUBSET Excuses] /\ excuse[n] \subseteq excuse'[n]
        /\ \A m \in Names \ {n} : excuse'[m] = excuse[m]
        /\ req[q].role # "superadmin" /\ Demoting(q) => "demoted" \in excuse'[n]
    <3>1. {"demoted"} \subseteq Excuses
      BY DEF Excuses
    <3> QED
      BY <1>6, <3>1 DEF Excuse
  <2>3. TypeOK'
    BY <1>2, <1>3, <2>1, <2>2 DEF TypeOK, Users, Requests
  <2>4. Members(n) # {}
    BY <1>2, <1>6 DEF Members, Bound, RowAt
  <2>5. AccountInv(n)'
    <3> USE DEF AccountInv
    <3>1. HasUser(n)'
      BY <1>2, <2>2, <2>4 DEF HasUser
    <3>2. RowsWhole(n)'
      BY <1>2, <1>6, <2>1 DEF RowsWhole, Bound, None
    <3>3. GoesBare(n)'
      <4>1. \A x \in Slots : Going(x, n)' => Going(x, n)
        BY <1>3, <1>4 DEF Going
      <4> QED
        BY <2>2, <2>4, <4>1 DEF GoesBare
    <3>4. RevokedAhead(n)'
      BY <1>2, <1>3, <1>4, <2>2, AheadFrame
    <3>5. NoneOutdated(n)'
      BY <1>2, <1>3, <2>2, IdleTyped, OutdatedFrame
    <3> QED
      BY <3>1, <3>2, <3>3, <3>4, <3>5
  <2>6. SuperadminRemains'
    <3>1. ControlPlane \in Spaces
      BY DEF Spaces
    <3>2. CASE req[q].role = "superadmin"
      BY <1>2, <1>6, <2>1, <3>2 DEF SuperadminRemains, Super
    <3>3. CASE req[q].role # "superadmin" /\ Demoting(q)
      BY <2>2, <3>3 DEF SuperadminRemains
    <3>4. CASE Super(n) => Super(n)'
      BY <2>1, <2>2, <3>4, SuperFrame
    <3>5. CASE Super(n) /\ ~Super(n)' /\ ~Demoting(q)
      <4>1. ControlPlane \in RowAt(n, row)
        <5>1. member[n][ControlPlane].role = "superadmin" /\ Bound(n, ControlPlane)
          BY <3>1, <3>5 DEF Super, AccountInv, RowsWhole
        <5>2. CASE to = ControlPlane
          BY <1>6, <5>1, <5>2
        <5>3. CASE member[n][ControlPlane].row = row
          BY <3>1, <5>3 DEF RowAt
        <5>4. CASE to # ControlPlane /\ member[n][ControlPlane].row # row
          BY <2>1, <3>1, <3>5, <5>4 DEF Super
        <5> QED
          BY <5>2, <5>3, <5>4
      <4>2. PICK by \in Names : by = req[q].by
        BY <1>2
      <4>3. by # n /\ Super(by)
        BY <1>1, <1>2, <1>6, <3>5, <4>1, <4>2 DEF Demoting, Super
      <4>4. Super(by)'
        BY <2>1, <4>3 DEF Super
      <4> QED
        BY <4>4 DEF SuperadminRemains
    <3> QED
      BY <3>2, <3>3, <3>4, <3>5
  <2> QED
    BY <1>1, <1>2, <1>3, <2>1, <2>2, <2>3, <2>5, <2>6, IdleTyped, Step
<1>7. req[q].row \in Nat
  BY <1>2 DEF Requests
<1>8. CASE /\ RowAt(n, req[q].row) # {}
           /\ \A s \in RowAt(n, req[q].row) : s = req[q].to \/ ~Bound(n, req[q].to)
  <2>1. PICK at \in Spaces : at \in RowAt(n, req[q].row)
    BY <1>8 DEF RowAt
  <2>2. /\ member' = [member EXCEPT ![n] = [s \in Spaces |->
               IF s = req[q].to THEN [row |-> req[q].row, role |-> req[q].role]
               ELSE IF member[n][s].row = req[q].row THEN None ELSE member[n][s]]]
        /\ IF req[q].role # "superadmin" /\ Demoting(q)
           THEN Excuse(n, {"demoted"}) ELSE UNCHANGED excuse
    BY <1>1, <1>8 DEF Move
  <2> QED
    BY <1>2, <1>6, <1>7, <1>8, <2>1, <2>2
<1> QED
  BY <1>1, <1>5, <1>8 DEF Move

LEMMA UnbindKeeps ==
    ASSUME RowsInv, NEW q \in Slots, Unbind(q)
    PROVE  RowsInv'
<1> USE Typed DEF RowsInv
<1>1. PICK n \in Names : req[q].who = n
  BY InFlight DEF Unbind, At
<1>2. PICK row \in Nat : row = req[q].row
  BY InFlight DEF Unbind, At, Requests
<1>3. PICK stage \in {"count", "ensure"} :
        /\ Goto(q, stage)
        /\ stage = "count" <=> req[q].op = "delete"
  BY DEF Unbind
<1>4. /\ UNCHANGED <<user, sessions, resets, served, floor, faults>>
      /\ req[q] \in Requests /\ req[q].at = "unbind" /\ req[q].op \in {"delete", "cmd"}
      /\ req[q].op = "delete" => req[q].by \in Names \ {n}
      /\ req[q].op = "cmd" => req[q].to \in Spaces /\ req[q].num # 0
      /\ member' = [member EXCEPT ![n] =
            [s \in Spaces |-> IF member[n][s].row = row THEN None ELSE member[n][s]]]
      /\ IF Demoting(q) THEN Excuse(n, {Unseated(q)}) ELSE UNCHANGED excuse
  BY <1>1, <1>2 DEF Unbind, At, RequestInv
<1>5. /\ req' \in [Slots -> Requests] /\ \A x \in Slots \ {q} : req'[x] = req[x]
      /\ req'[q].at = stage /\ req'[q].op = req[q].op /\ req'[q].who = n
      /\ req'[q].by = req[q].by /\ req'[q].to = req[q].to /\ req'[q].num = req[q].num
  <2>1. stage \in Stages
    BY DEF Stages
  <2> QED
    BY <1>1, <1>3, <2>1, GotoTyped
<1>6. RequestInv(q)'
  BY <1>3, <1>4, <1>5 DEF RequestInv
<1>7. /\ member' \in [Names -> [Spaces -> Row]]
      /\ \A m \in Names \ {n} : member'[m] = member[m]
      /\ \A s \in Spaces : member'[n][s] = IF member[n][s].row = row THEN None ELSE member[n][s]
  <2>1. None \in Row
    BY DEF Row, None
  <2> QED
    BY <1>4, <2>1
<1>8. /\ excuse' \in [Names -> SUBSET Excuses] /\ excuse[n] \subseteq excuse'[n]
      /\ \A m \in Names \ {n} : excuse'[m] = excuse[m]
      /\ Demoting(q) => excuse'[n] \cap {"demoted", "replaced"} # {}
  <2>1. PICK why \in {"demoted", "replaced"} : why = Unseated(q)
    BY DEF Unseated
  <2>2. {why} \subseteq Excuses
    BY DEF Excuses
  <2>3. IF Demoting(q) THEN excuse' = [excuse EXCEPT ![n] = @ \cup {why}] ELSE excuse' = excuse
    BY <1>4, <2>1 DEF Excuse
  <2>4. CASE Demoting(q)
    <3>1. excuse'[n] = excuse[n] \cup {why} /\ \A m \in Names \ {n} : excuse'[m] = excuse[m]
      BY <2>3, <2>4
    <3>2. excuse' \in [Names -> SUBSET Excuses]
      BY <2>2, <2>3, <2>4
    <3> QED
      BY <3>1, <3>2
  <2>5. CASE ~Demoting(q)
    BY <2>3, <2>5
  <2> QED
    BY <2>4, <2>5
<1>9. TypeOK'
  BY <1>4, <1>5, <1>7, <1>8 DEF TypeOK, Users, Requests
<1>10. \A s \in Spaces : Bound(n, s)' => Bound(n, s)
  BY <1>7 DEF Bound, None
<1>11. ~Going(q, n)' /\ ~Dooming(q, n)
  BY <1>4, <1>5 DEF Going, Dooming
<1>12. AccountInv(n)'
  <2> USE DEF AccountInv
  <2>1. HasUser(n)'
    <3>1. Doing(n, {"create", "cmd"}, {"bind"})' => Doing(n, {"create", "cmd"}, {"bind"})
      BY <1>5 DEF Doing
    <3>2. Members(n) = {} => (Members(n) = {})'
      BY <1>10 DEF Members
    <3> QED
      BY <1>4, <1>8, <3>1, <3>2 DEF HasUser
  <2>2. RowsWhole(n)'
    <3>1. ASSUME NEW s \in Spaces, ~Bound(n, s)' PROVE member'[n][s].role = "none"
      <4>1. CASE member[n][s].row = row
        BY <1>7, <4>1 DEF None
      <4>2. CASE member[n][s].row # row
        BY <1>7, <3>1, <4>2 DEF RowsWhole, Bound
      <4> QED
        BY <4>1, <4>2
    <3> QED
      BY <3>1 DEF RowsWhole
  <2>3. GoesBare(n)'
    BY <1>5, <1>8, <1>10, <1>11, BareFrame
  <2>4. RevokedAhead(n)'
    BY <1>4, <1>5, <1>8, <1>11, AheadFrame
  <2>5. NoneOutdated(n)'
    BY <1>4, <1>5, <1>8, OutdatedFrame
  <2> QED
    BY <2>1, <2>2, <2>3, <2>4, <2>5
<1>13. SuperadminRemains'
  <2>1. ControlPlane \in Spaces
    BY DEF Spaces
  <2>2. CASE Demoting(q)
    BY <1>8, <2>2 DEF SuperadminRemains
  <2>3. CASE Super(n) => Super(n)'
    BY <1>7, <1>8, <2>3, SuperFrame
  <2>4. CASE Super(n) /\ ~Super(n)' /\ ~Demoting(q)
    <3>1. ControlPlane \in RowAt(n, row) /\ member[n][ControlPlane].role = "superadmin"
      BY <1>7, <2>1, <2>4 DEF Super, RowAt
    <3>2. req[q].op = "delete" /\ Super(req[q].by)
      BY <1>1, <1>2, <1>4, <2>4, <3>1 DEF Demoting
    <3>3. PICK by \in Names \ {n} : by = req[q].by
      BY <1>4, <3>2
    <3>4. Super(by) /\ Super(by)'
      BY <1>7, <3>2, <3>3 DEF Super
    <3> QED
      BY <3>4 DEF SuperadminRemains
  <2> QED
    BY <2>2, <2>3, <2>4
<1> QED
  BY <1>1, <1>4, <1>5, <1>6, <1>7, <1>8, <1>9, <1>12, <1>13, Step

LEMMA LogoutKeeps ==
    ASSUME RowsInv, NEW s \in sessions, Logout(s)
    PROVE  RowsInv'
<1> USE Typed DEF RowsInv
<1>1. /\ UNCHANGED <<user, member, resets, req, served, floor, excuse, faults>>
      /\ sessions' \subseteq sessions
  BY DEF Logout
<1>2. TypeOK'
  BY <1>1 DEF TypeOK
<1>3. \A n \in Names : AccountInv(n)'
  BY <1>1, NameFrame
<1>4. \A q \in Slots : RequestInv(q)'
  BY <1>1 DEF RequestInv
<1>5. SuperadminRemains'
  BY <1>1 DEF SuperadminRemains, Super
<1> QED
  BY <1>2, <1>3, <1>4, <1>5

(* The server starts again: every request is lost, and says what it leaves *)
(* behind. Members are given users, and a superadmin is seeded if none is. *)
LEMMA RestartKeeps ==
    ASSUME RowsInv, Restart
    PROVE  RowsInv'
<1> USE Typed DEF RowsInv
<1>1. /\ UNCHANGED <<sessions, resets, floor>> /\ req' = [q \in Slots |-> Idle]
      /\ faults' \in 0..MaxFaults
      /\ excuse' = [n \in Names |->
             (excuse[n] \ {"orphaned"}) \cup UNION {Halved(q, n) : q \in Slots}]
      /\ \/ (\E n \in Names : Super(n)) /\ user' = Housed /\ UNCHANGED <<member, served>>
         \/ /\ ~Bound(Boot, ControlPlane)
            /\ user' = [Housed EXCEPT ![Boot] = Ensured(Housed[Boot])]
            /\ member' = Seeded(member, served + 1) /\ served' = served + 1
  BY FaultTyped DEF Restart
<1>2. req' \in [Slots -> Requests] /\ \A q \in Slots : req'[q] = Idle
  BY <1>1, IdleTyped
<1>3. \A q \in Slots : RequestInv(q)'
  BY <1>2, IdleTyped DEF RequestInv
<1>4. excuse' \in [Names -> SUBSET Excuses]
  <2>1. ASSUME NEW n \in Names
        PROVE  (excuse[n] \ {"orphaned"}) \cup UNION {Halved(q, n) : q \in Slots} \subseteq Excuses
    <3>1. \A q \in Slots : Halved(q, n) \subseteq Excuses
      BY DEF Halved, Excuses
    <3> QED
      BY <3>1
  <2> QED
    BY <1>1, <2>1
<1>5. ASSUME NEW n \in Names PROVE excuse[n] \ {"orphaned"} \subseteq excuse'[n]
  BY <1>1
<1>6. ASSUME NEW n \in Names PROVE Excused(n) => Excused(n)'
  BY <1>5 DEF Excused
<1>7. ASSUME NEW n \in Names, NEW q \in Slots, Halved(q, n) # {} PROVE Excused(n)'
  <2>1. Halved(q, n) \subseteq excuse'[n]
    BY <1>1
  <2> QED
    BY <1>7, <2>1 DEF Halved, Excused
<1>8. ASSUME NEW n \in Names
      PROVE  /\ \A q \in Slots : Dooming(q, n) => Excused(n)'
             /\ Resetting(n) => Excused(n)'
  <2>1. \A q \in Slots : Dooming(q, n) => Halved(q, n) # {}
    BY DEF Dooming, Going, Halved
  <2>2. Resetting(n) => \E q \in Slots : Halved(q, n) # {}
    BY DEF Resetting, Doing, Halved
  <2> QED
    BY <1>7, <2>1, <2>2
<1>9. ASSUME NEW n \in Names
      PROVE  /\ Housed[n] \in Users /\ Housed[n].pw = user[n].pw
             /\ user[n].there => Housed[n] = user[n]
             /\ ~user[n].there => Housed[n] = user[n] \/ ~Housed[n].pass
             /\ Housed[n].there \/ Members(n) = {}
  <2>1. CASE user[n].there \/ Members(n) = {}
    BY <2>1 DEF Housed
  <2>2. CASE ~(user[n].there \/ Members(n) = {})
    <3> DEFINE v == [user[n] EXCEPT !.there = TRUE, !.id = user[n].id + 1]
    <3>1. user[n] \in Users /\ user[n].id + 1 \in Nat
      BY DEF Users
    <3>2. v \in Users /\ v.pw = user[n].pw /\ v.there
      BY <3>1 DEF Users
    <3>3. Housed[n] = [v EXCEPT !.pass = FALSE]
      BY <2>2 DEF Housed
    <3> HIDE DEF v
    <3>4. [v EXCEPT !.pass = FALSE] \in Users
      BY <3>2 DEF Users
    <3>5. Housed[n].pw = user[n].pw /\ Housed[n].there /\ ~Housed[n].pass
      BY <3>2, <3>3 DEF Users
    <3> QED
      BY <2>2, <3>3, <3>4, <3>5
  <2> QED
    BY <2>1, <2>2
<1>10. Boot \in Names /\ ControlPlane \in Spaces
  BY AccountsAssumption DEF Spaces
<1>11. Ensured(Housed[Boot]) \in Users
  BY <1>9, <1>10, EnsuredTyped
<1>12. ASSUME NEW n \in Names
       PROVE  /\ user'[n] \in Users
              /\ user'[n] = Housed[n] \/ user'[n] = Ensured(Housed[n])
              /\ user'[n].there \/ (member'[n] = member[n] /\ Members(n) = {})
              /\ \A s \in Spaces : member'[n][s] \in Row
              /\ \A s \in Spaces : member'[n][s] = member[n][s] \/ Bound(n, s)'
  <2>1. CASE user' = Housed /\ UNCHANGED <<member, served>>
    BY <1>9, <2>1
  <2>2. CASE /\ user' = [Housed EXCEPT ![Boot] = Ensured(Housed[Boot])]
             /\ member' = Seeded(member, served + 1) /\ served' = served + 1
    <3>1. served + 1 \in Nat /\ served + 1 # 0
      OBVIOUS
    <3>2. [row |-> served + 1, role |-> "superadmin"] \in Row
      BY <3>1 DEF Row, Roles
    <3>3. member' = [member EXCEPT ![Boot] = [member[Boot] EXCEPT ![ControlPlane] =
                        [row |-> served + 1, role |-> "superadmin"]]]
      BY <2>2 DEF Seeded
    <3>4. CASE n = Boot
      <4>1. user'[n] = Ensured(Housed[n])
        BY <1>10, <2>2, <3>4 DEF Housed
      <4>2. Ensured(Housed[n]) \in Users /\ Ensured(Housed[n]).there
        BY <1>9, EnsuredTyped
      <4>3. member'[n] = [member[n] EXCEPT ![ControlPlane] =
                             [row |-> served + 1, role |-> "superadmin"]]
        BY <3>3, <3>4
      <4>4. ASSUME NEW s \in Spaces
            PROVE  member'[n][s] \in Row /\ (member'[n][s] = member[n][s] \/ Bound(n, s)')
        BY <3>1, <3>2, <4>3 DEF Bound
      <4> QED
        BY <4>1, <4>2, <4>4
    <3>5. CASE n # Boot
      BY <1>9, <2>2, <3>3, <3>5 DEF Housed
    <3> QED
      BY <3>4, <3>5
  <2> QED
    BY <1>1, <2>1, <2>2
<1>13. TypeOK'
  <2>1. user' \in [Names -> Users]
    BY <1>1, <1>9, <1>11 DEF Housed
  <2>2. member' \in [Names -> [Spaces -> Row]] /\ served' \in Nat
    <3>1. [row |-> served + 1, role |-> "superadmin"] \in Row
      BY DEF Row, Roles
    <3>2. \/ member' = member
          \/ member' = [member EXCEPT ![Boot] = [member[Boot] EXCEPT ![ControlPlane] =
                           [row |-> served + 1, role |-> "superadmin"]]]
      BY <1>1 DEF Seeded
    <3>3. [member[Boot] EXCEPT ![ControlPlane] = [row |-> served + 1, role |-> "superadmin"]]
            \in [Spaces -> Row]
      <4>1. member[Boot] \in [Spaces -> Row]
        BY <1>10
      <4> QED
        BY <3>1, <4>1
    <3>4. served' \in Nat
      BY <1>1
    <3> QED
      BY <3>2, <3>3, <3>4
  <2> QED
    BY <1>1, <1>2, <1>4, <2>1, <2>2 DEF TypeOK, Users, Requests
<1>14. ASSUME NEW n \in Names PROVE AccountInv(n)'
  <2> USE DEF AccountInv
  <2>1. ~\E x \in Slots : req'[x].who = n
    BY <1>2, IdleTyped
  <2>2. HasUser(n)'
    BY <1>12, <2>1 DEF HasUser, Members, Bound, Doing
  <2>3. RowsWhole(n)'
    BY <1>12 DEF RowsWhole, Bound
  <2>4. GoesBare(n)'
    BY <2>1 DEF GoesBare, Going
  <2>5. RevokedAhead(n)'
    <3>1. user[n].pw \in Nat /\ floor[n] \in Nat /\ floor'[n] = floor[n]
      BY <1>1 DEF Users
    <3>2. CASE user'[n] = Ensured(Housed[n])
      <4>1. user'[n].pw = user[n].pw + 1
        BY <1>9, <3>2, EnsuredTyped
      <4> QED
        BY <3>1, <4>1 DEF RevokedAhead
    <3>3. CASE user'[n] = Housed[n]
      <4>1. user'[n].pw = user[n].pw
        BY <1>9, <3>3
      <4>2. user'[n].there /\ user'[n].pass => user[n].there /\ user[n].pass
        BY <1>9, <3>3
      <4> QED
        BY <1>6, <1>8, <3>1, <4>1, <4>2 DEF RevokedAhead
    <3> QED
      BY <1>12, <3>2, <3>3
  <2>6. NoneOutdated(n)'
    <3>1. \A pw : Outdated(n, pw)' => Outdated(n, pw)
      BY <1>1, <1>6, <1>8 DEF Outdated
    <3> QED
      BY <1>1, <2>1, <3>1 DEF NoneOutdated
  <2> QED
    BY <2>2, <2>3, <2>4, <2>5, <2>6
<1>15. SuperadminRemains'
  <2>1. CASE (\E n \in Names : Super(n)) /\ UNCHANGED member
    BY <2>1 DEF SuperadminRemains, Super
  <2>2. CASE member' = Seeded(member, served + 1)
    <3>1. member'[Boot][ControlPlane] = [row |-> served + 1, role |-> "superadmin"]
      BY <1>10, <2>2 DEF Seeded
    <3> QED
      BY <1>10, <3>1 DEF SuperadminRemains, Super
  <2> QED
    BY <1>1, <2>1, <2>2
<1> QED
  BY <1>3, <1>13, <1>14, <1>15

-----------------------------------------------------------------------------
LEMMA Stutters == RowsInv /\ UNCHANGED vars => RowsInv'
<1> SUFFICES ASSUME RowsInv, UNCHANGED vars PROVE RowsInv'
  OBVIOUS
<1> USE DEF RowsInv, vars
<1>1. TypeOK'
  BY DEF TypeOK
<1>2. \A n \in Names : AccountInv(n)'
  BY NameFrame
<1>3. \A q \in Slots : RequestInv(q)'
  BY DEF RequestInv
<1>4. SuperadminRemains'
  BY DEF SuperadminRemains, Super
<1> QED
  BY <1>1, <1>2, <1>3, <1>4

LEMMA HandleKeeps ==
    ASSUME RowsInv, NEW q \in Slots, Handle(q)
    PROVE  RowsInv'
<1>1. CASE \E n \in Names : Login(q, n) \/ Forgot(q, n) \/ Reset(q, n)
  BY <1>1, LoginKeeps, SmallKeeps
<1>2. CASE \E c, n \in Names, s \in Spaces : Delete(q, c, n, s) \/ Password(q, c, n, s)
  BY <1>2, DeleteKeeps, SmallKeeps
<1>3. CASE \E c, n \in Names, s \in Spaces, role \in Roles : Create(q, c, n, s, role)
  BY <1>3, CreateKeeps
<1>4. CASE \E c, n \in Names, s, to \in Spaces, role \in Roles : Update(q, c, n, s, role, to)
  BY <1>4, UpdateKeeps
<1>5. CASE \E n \in Names, s \in Spaces, role \in Roles : CreateUser(q, n, s, role)
  BY <1>5, CreateUserKeeps
<1> QED
  BY <1>1, <1>2, <1>3, <1>4, <1>5 DEF Handle

LEMMA ProceedKeeps ==
    ASSUME RowsInv, NEW q \in Slots, Proceed(q)
    PROVE  RowsInv'
<1>1. CASE Issue(q) \/ SetPassword(q) \/ Revoke(q)
  BY <1>1, IssueKeeps, SetPasswordKeeps, RevokeKeeps
<1>2. CASE ClearReset(q) \/ InsertReset(q) \/ Consume(q)
  BY <1>2, ResetKeeps
<1>3. CASE Make(q) \/ Ensure(q) \/ Drop(q) \/ Forget(q) \/ Count(q)
  BY <1>3, EnsureKeeps, DropKeeps, ForgetKeeps, CountKeeps
<1>4. CASE Bind(q) \/ Move(q) \/ Unbind(q)
  BY <1>4, BindKeeps, MoveKeeps, UnbindKeeps
<1> QED
  BY <1>1, <1>2, <1>3, <1>4 DEF Proceed

(* Every handler of an account, each of its statements, a statement that   *)
(* fails and a restart preserve the inductive invariant.                   *)
THEOREM RowsInvariant == Spec => []RowsInv
<1>1. ASSUME RowsInv, [Next]_vars PROVE RowsInv'
  <2>1. CASE \E q \in Slots : Handle(q) \/ Proceed(q) \/ Fail(q)
    BY <1>1, <2>1, HandleKeeps, ProceedKeeps, FailKeeps
  <2>2. CASE \E s \in sessions : Logout(s)
    BY <1>1, <2>2, LogoutKeeps
  <2>3. CASE Restart
    BY <1>1, <2>3, RestartKeeps
  <2>4. CASE UNCHANGED vars
    BY <1>1, <2>4, Stutters
  <2> QED
    BY <1>1, <2>1, <2>2, <2>3, <2>4 DEF Next
<1> QED
  BY <1>1, InitInv, PTL DEF Spec

(* A membership names a user that exists, however the statements that      *)
(* write and delete users and memberships interleave and fail.             *)
THEOREM MembersKeepUsers == Spec => []AccountsInv
<1>1. RowsInv => AccountsInv
  BY DEF RowsInv, AccountsInv, MembersHaveUsers, AccountInv
<1> QED
  BY <1>1, RowsInvariant, PTL

(* No sequence of updates and deletions by superadmins leaves an install   *)
(* without one, the excuses apart.                                         *)
THEOREM SuperadminStays == Spec => []SuperadminRemains
<1>1. RowsInv => SuperadminRemains
  BY DEF RowsInv
<1> QED
  BY <1>1, RowsInvariant, PTL

(* No session outlives the reset of its password or the deletion of its    *)
(* account, the excuses apart.                                             *)
THEOREM RevokedOut == Spec => []RevokedStaysOut
<1>1. RowsInv => RevokedStaysOut
  <2> SUFFICES ASSUME RowsInv, NEW s \in sessions PROVE ~Outdated(s.who, s.pw)
    BY DEF RevokedStaysOut
  <2>1. s.who \in Names
    BY Typed DEF RowsInv, Sessions
  <2> QED
    BY <2>1 DEF RowsInv, AccountInv, NoneOutdated
<1> QED
  BY <1>1, RowsInvariant, PTL
=============================================================================
