----------------------- MODULE FleetAndResourceProofs -----------------------
(***************************************************************************)
(* Names, and what is made from them. For every number of pods, requests,  *)
(* environments, registrations and moves: what users made stays where the  *)
(* organization is served, labels name environments, and the rows, the     *)
(* clients and the lock agree. For every spec of manifests, directories    *)
(* and charts: what was applied is accounted for, and a pass deletes only  *)
(* what somebody gave up.                                                  *)
(***************************************************************************)
EXTENDS Fleet, ResourceReconcile, TLAPS

RegRows == [id : Nat, kc : Places, by : Pods \cup {Nobody}]
Handles == [id : Nat, kc : Places]
Debts   == Kinds \X (Envs \cup {NoEnv}) \X (Shorts \cup Legacy)

(* What each variable holds.                                               *)
LEMMA Typed ==
    ASSUME TypeOK
    PROVE  /\ envs \in [Envs -> Nat] /\ regs \in [Own -> RegRows]
           /\ org \in [at : Nat, locked : BOOLEAN] /\ objs \in [Places -> SUBSET Obj]
           /\ cache \in [Pods -> SUBSET Handles] /\ req \in [Workers -> Reqs]
           /\ served \in 1..MaxRequests /\ owed \subseteq Debts /\ excuse \subseteq Windows
BY DEF TypeOK, RegRows, Handles, Debts

LEMMA MadeTyped ==
    ASSUME envs' \in [Envs -> Nat], regs' \in [Own -> RegRows],
           org' \in [at : Nat, locked : BOOLEAN], objs' \in [Places -> SUBSET Obj],
           cache' \in [Pods -> SUBSET Handles], req' \in [Workers -> Reqs],
           served' \in 1..MaxRequests, owed' \subseteq Debts, excuse' \subseteq Windows
    PROVE  TypeOK'
BY DEF TypeOK, RegRows, Handles, Debts

LEMMA ReqTyped ==
    \A r \in Reqs :
        /\ r.op \in Ops /\ r.at \in Steps /\ r.pod \in Pods \cup {Nobody} /\ r.kind \in Kinds
        /\ r.env \in Envs \cup {NoEnv} /\ r.name \in Called /\ r.real \in Reals /\ r.row \in Nat
        /\ r.own \in Own \cup {Nobody} /\ r.kc \in Places /\ r.place \in Places
        /\ r.dest \in Places /\ r.go \in BOOLEAN
BY DEF Reqs

LEMMA IdleIs ==
    /\ Idle \in Reqs /\ Idle.at = "idle" /\ Idle.op = "idle" /\ Idle.place = Home
    /\ Idle.dest = Home /\ Idle.env = NoEnv /\ Idle.kind = "cluster"
BY DEF Idle, Reqs, Ops, Steps, Kinds, Reals, Called, Places

LEMMA GotoIs ==
    ASSUME TypeOK, NEW w \in Workers, NEW step \in Steps, Goto(w, step)
    PROVE  /\ req' \in [Workers -> Reqs] /\ \A x \in Workers \ {w} : req'[x] = req[x]
           /\ req'[w].at = step /\ req'[w].op = req[w].op /\ req'[w].pod = req[w].pod
           /\ req'[w].kind = req[w].kind /\ req'[w].env = req[w].env
           /\ req'[w].name = req[w].name /\ req'[w].real = req[w].real
           /\ req'[w].row = req[w].row /\ req'[w].own = req[w].own /\ req'[w].kc = req[w].kc
           /\ req'[w].place = req[w].place /\ req'[w].dest = req[w].dest
           /\ req'[w].go = req[w].go
<1>1. req \in [Workers -> Reqs] /\ req' = [req EXCEPT ![w].at = step]
  BY Typed DEF Goto
<1>2. req'[w] = [req[w] EXCEPT !.at = step] /\ req[w] \in Reqs
  BY <1>1
<1>3. [req[w] EXCEPT !.at = step] \in Reqs
  BY <1>2 DEF Reqs
<1> QED
  BY <1>1, <1>2, <1>3 DEF Reqs

LEMMA EndIs ==
    ASSUME TypeOK, NEW w \in Workers, End(w)
    PROVE  /\ req' \in [Workers -> Reqs] /\ \A x \in Workers \ {w} : req'[x] = req[x]
           /\ req'[w] = Idle
<1>1. req \in [Workers -> Reqs] /\ req' = [req EXCEPT ![w] = Idle]
  BY Typed DEF End
<1> QED
  BY <1>1, IdleIs

(* A request that is over.                                                 *)
LEMMA IdleRequest ==
    ASSUME NEW w \in Workers, req'[w] = Idle
    PROVE  RequestInv(w)'
<1>1. req'[w].at = "idle" /\ req'[w].op = "idle"
  BY IdleIs
<1> QED
  BY <1>1 DEF RequestInv, NewRow, Carries, ToRegistered, MovesAll, NamesEnv, At

(* What is recorded of a step.                                             *)
LEMMA HitTyped ==
    ASSUME NEW cond, NEW window \in Windows
    PROVE  Hit(cond, window) \in SUBSET Windows
BY DEF Hit

-----------------------------------------------------------------------------
(* The clients.                                                            *)
LEMMA Chosen ==
    ASSUME NEW R, NEW id, NEW n \in Own, R[n].id = id, \A m \in Own : R[m].id = id => m = n
    PROVE  (CHOOSE m \in Own : R[m].id = id) = n
<1>1. \E m \in Own : R[m].id = id
  OBVIOUS
<1> QED
  BY <1>1

LEMMA KubeconfigIs ==
    ASSUME RowsNumbered, NEW n \in Own, regs[n].id # 0
    PROVE  Kubeconfig(regs[n].id) = regs[n].kc
<1>1. \A m \in Own : regs[m].id = regs[n].id => m = n
  BY DEF RowsNumbered
<1> QED
  BY <1>1, Chosen DEF Kubeconfig

(* A pod takes the client of a registration it has none of.                *)
CacheGrows ==
    /\ cache' \in [Pods -> SUBSET Handles]
    /\ \A p \in Pods :
          \/ cache'[p] = cache[p]
          \/ \E n \in Own : /\ regs[n].id # 0
                            /\ \A h \in cache[p] : h.id # regs[n].id
                            /\ cache'[p] = cache[p] \cup {[id |-> regs[n].id, kc |-> regs[n].kc]}

LEMMA CacheClientGrows ==
    ASSUME TypeOK, RowsNumbered, NEW pod \in Pods, NEW id,
           id = 0 \/ Registered(id) \/ Cached(pod, id) # {}, CacheClient(pod, id)
    PROVE  CacheGrows
<1> USE Typed
<1>1. CASE id = 0 \/ Cached(pod, id) # {}
  BY <1>1 DEF CacheClient, CacheGrows
<1>2. CASE id # 0 /\ Cached(pod, id) = {} /\ Registered(id)
  <2>1. PICK n \in Own : regs[n].id = id
    BY <1>2 DEF Registered
  <2>2. regs[n] \in RegRows /\ Kubeconfig(id) = regs[n].kc
    BY <1>2, <2>1, KubeconfigIs
  <2>3. PICK h : h = [id |-> regs[n].id, kc |-> regs[n].kc]
    OBVIOUS
  <2>4. h \in Handles
    BY <2>2, <2>3 DEF Handles, RegRows
  <2>5. cache' = [cache EXCEPT ![pod] = @ \cup {h}]
    <3>1. h = [id |-> id, kc |-> Kubeconfig(id)]
      BY <2>1, <2>2, <2>3
    <3> QED
      BY <1>2, <3>1 DEF CacheClient
  <2>6. ASSUME NEW x \in cache[pod], x.id = id PROVE FALSE
    <3>1. x.kc \in Cached(pod, id)
      BY <2>6 DEF Cached
    <3> QED
      BY <1>2, <3>1
  <2>7. cache' \in [Pods -> SUBSET Handles]
    BY <2>4, <2>5
  <2>8. \A p \in Pods : cache'[p] = cache[p] \/ (p = pod /\ cache'[p] = cache[p] \cup {h})
    BY <2>5
  <2> QED
    BY <1>2, <2>1, <2>3, <2>6, <2>7, <2>8 DEF CacheGrows
<1> QED
  BY <1>1, <1>2

(* The client that a request goes on with.                                 *)
LEMMA ClientTyped ==
    ASSUME TypeOK, RowsNumbered, NEW pod \in Pods, NEW id,
           id = 0 \/ Registered(id) \/ Cached(pod, id) # {}
    PROVE  Client(pod, id) \in Places /\ (id = 0 => Client(pod, id) = Home)
<1> USE Typed
<1>1. CASE id = 0
  BY <1>1 DEF Client, Places
<1>2. CASE id # 0 /\ Cached(pod, id) # {}
  <2>1. Cached(pod, id) \subseteq Places
    BY DEF Cached, Handles
  <2>2. (CHOOSE k \in Cached(pod, id) : TRUE) \in Cached(pod, id)
    BY <1>2
  <2> QED
    BY <1>2, <2>1, <2>2 DEF Client
<1>3. CASE id # 0 /\ Cached(pod, id) = {}
  <2>1. PICK n \in Own : regs[n].id = id
    BY <1>3 DEF Registered
  <2>2. regs[n] \in RegRows /\ Kubeconfig(id) = regs[n].kc
    BY <1>3, <2>1, KubeconfigIs
  <2> QED
    BY <1>3, <2>2 DEF Client, RegRows
<1> QED
  BY <1>1, <1>2, <1>3

(* Where the organization is served, by the registration n.                *)
LEMMA ServedIs ==
    ASSUME RowsNumbered, NEW n \in Own, org.at = regs[n].id, org.at # 0
    PROVE  Served = regs[n].kc
BY KubeconfigIs DEF Served

LEMMA ServedWas ==
    ASSUME RowsNumbered', NEW n \in Own, org'.at = regs'[n].id, org'.at # 0
    PROVE  Served' = regs'[n].kc
<1>1. \A m \in Own : regs'[m].id = regs'[n].id => m = n
  BY DEF RowsNumbered
<1>2. (CHOOSE m \in Own : regs'[m].id = org'.at) = n
  BY <1>1, Chosen
<1> QED
  BY <1>2 DEF Served, Kubeconfig

LEMMA ServedTyped ==
    ASSUME TypeOK, RowsNumbered, ActiveRegistered
    PROVE  Served \in Places
<1>1. CASE org.at = 0
  BY <1>1 DEF Served, Places
<1>2. CASE org.at # 0
  <2>1. PICK n \in Own : regs[n].id = org.at
    BY <1>2 DEF ActiveRegistered, Registered
  <2>2. regs[n].kc \in Places
    BY Typed DEF RegRows
  <2> QED
    BY <1>2, <2>1, <2>2, ServedIs
<1> QED
  BY <1>1, <1>2

-----------------------------------------------------------------------------
(* A step of one request w, after which the others are as they were.       *)
Apart(w) ==
    /\ req' \in [Workers -> Reqs]
    /\ \A x \in Workers \ {w} : req'[x] = req[x]

(* The pod that stored the row of n last, and the clients it has.          *)
HandlesOf(n) == \A h \in cache[regs[n].by] : h.id = regs[n].id => h.kc = regs[n].kc
Dropping(n)  == \E x \in Workers : At(x, "invalidate") /\ req[x].row = regs[n].id
                                   /\ req[x].pod = regs[n].by
FreshAt(n)   == regs[n].id = 0 \/ HandlesOf(n) \/ Dropping(n) \/ Excused({"answerLost"})

LEMMA FreshIs == HandleFresh <=> \A n \in Own : FreshAt(n)
BY DEF HandleFresh, FreshAt, HandlesOf, Dropping, Cached

LEMMA FreshWas == HandleFresh' <=> \A n \in Own : FreshAt(n)'
BY DEF HandleFresh, FreshAt, HandlesOf, Dropping, Cached

(* The registrations stay, and some pod may take a client.                 *)
LEMMA GrowRows ==
    ASSUME TypeOK, RowsNumbered, UNCHANGED regs, CacheGrows, served \in Nat, served' \in Nat,
           served <= served'
    PROVE  RowsNumbered'
<1> USE Typed
<1>1. \A n \in Own : regs[n].id \in Nat
  BY DEF RegRows
<1>2. \A p \in Pods : \A h \in cache[p] : h.id \in Nat
  BY DEF Handles
<1>3. ASSUME NEW p \in Pods, NEW h \in cache'[p] PROVE h.id <= served'
  <2>1. h \in cache[p] \/ \E n \in Own : h.id = regs[n].id
    BY <1>3 DEF CacheGrows
  <2> QED
    BY <1>1, <1>2, <2>1 DEF RowsNumbered
<1>4. \A n \in Own : regs'[n].id <= served'
  BY <1>1 DEF RowsNumbered
<1> QED
  BY <1>3, <1>4 DEF RowsNumbered

LEMMA GrowFresh ==
    ASSUME TypeOK, RowsNumbered, UNCHANGED regs, CacheGrows, excuse \subseteq excuse',
           NEW n \in Own, FreshAt(n), Dropping(n) => Dropping(n)'
    PROVE  FreshAt(n)'
<1>1. CASE regs[n].id = 0
  BY <1>1 DEF FreshAt
<1>2. CASE Dropping(n) \/ Excused({"answerLost"})
  BY <1>2 DEF FreshAt, Excused
<1>3. CASE regs[n].id # 0 /\ HandlesOf(n)
  <2>1. PICK p \in Pods : p = regs[n].by
    BY <1>3 DEF RowsNumbered
  <2>2. ASSUME NEW h \in cache'[p], h.id = regs[n].id PROVE h.kc = regs[n].kc
    <3>1. h \in cache[p] => h.kc = regs[n].kc
      BY <1>3, <2>1, <2>2 DEF HandlesOf
    <3>2. h \in cache[p] \/ \E m \in Own : /\ regs[m].id # 0
                                          /\ h = [id |-> regs[m].id, kc |-> regs[m].kc]
      BY <2>2 DEF CacheGrows
    <3> QED
      BY <2>2, <3>1, <3>2 DEF RowsNumbered
  <2> QED
    BY <2>1, <2>2 DEF FreshAt, HandlesOf
<1> QED
  BY <1>1, <1>2, <1>3 DEF FreshAt

(* A step that leaves the registrations as they are, and the organization  *)
(* where it is.                                                            *)
LEMMA SteadyStep ==
    ASSUME ServiceInv, NEW w \in Workers, Apart(w), CacheGrows, UNCHANGED regs,
           org' \in [at : Nat, locked : BOOLEAN], org'.at = org.at,
           envs' \in [Envs -> Nat], objs' \in [Places -> SUBSET Obj], owed' \subseteq Debts,
           excuse \subseteq excuse', excuse' \subseteq Windows,
           served' \in 1..MaxRequests, served <= served', req[w].at # "invalidate",
           LockHasHolder', KeepsWhatWasMade', LabelHasEnvironment', RequestInv(w)',
           \A x \in Workers \ {w} : MovesAll(x)' /\ NamesEnv(x)'
    PROVE  ServiceInv'
<1> USE Typed, FleetAssumption DEF ServiceInv, FleetInv, Apart
<1>0. CacheGrows /\ served \in Nat /\ served' \in Nat
  BY DEF CacheGrows
<1>1. TypeOK'
  BY MadeTyped DEF CacheGrows
<1>2. RowsNumbered'
  BY <1>0, GrowRows
<1>3. HandleFresh'
  <2>1. ASSUME NEW n \in Own PROVE Dropping(n) => Dropping(n)'
    BY DEF Dropping, At
  <2>2. ASSUME NEW n \in Own PROVE FreshAt(n)'
    BY <2>1, FreshIs, GrowFresh
  <2> QED
    BY <2>2, FreshWas
<1>4. ActiveRegistered'
  BY DEF ActiveRegistered, Registered
<1>5. ASSUME NEW x \in Workers \ {w} PROVE RequestInv(x)'
  <2>1. RequestInv(x) /\ req'[x] = req[x]
    OBVIOUS
  <2>2. NewRow(x)'
    <3>1. SUFFICES ASSUME At(x, "insertReg") PROVE NewRow(x)'
      BY <2>1 DEF NewRow, At
    <3>2. NewRow(x)
      BY <2>1 DEF RequestInv
    <3>3. req[x].row \in 1..served'
      BY <1>0, <3>1, <3>2 DEF NewRow
    <3>4. ASSUME NEW p \in Pods, NEW h \in cache'[p] PROVE h.id # req[x].row
      <4>1. h \in cache[p] \/ \E n \in Own : h.id = regs[n].id
        BY <3>4 DEF CacheGrows
      <4> QED
        BY <3>1, <3>2, <4>1 DEF NewRow
    <3>5. ASSUME NEW y \in Workers, At(y, "insertReg")', req'[y].row = req[x].row PROVE y = x
      <4>1. CASE y = w
        BY <2>1, <3>1, <3>5, <4>1 DEF RequestInv, NewRow, At
      <4>2. CASE y # w
        BY <3>1, <3>2, <3>5, <4>2 DEF NewRow, At
      <4> QED
        BY <4>1, <4>2
    <3> QED
      BY <2>1, <3>1, <3>2, <3>3, <3>4, <3>5 DEF NewRow, At
  <2>3. Carries(x)'
    BY <2>1 DEF RequestInv, Carries, At
  <2>4. ToRegistered(x)'
    BY <2>1 DEF RequestInv, ToRegistered, At, Registered, Excused
  <2> QED
    BY <2>2, <2>3, <2>4 DEF RequestInv
<1> QED
  BY <1>1, <1>2, <1>3, <1>4, <1>5

(* A step that besides its request changes nothing but, perhaps, the       *)
(* clients and the environments, which grow, and is not of a move.         *)
LEMMA QuietStep ==
    ASSUME ServiceInv, NEW w \in Workers, Apart(w), CacheGrows,
           envs' \in [Envs -> Nat], \A e \in Envs : envs[e] # 0 => envs'[e] # 0,
           UNCHANGED <<regs, org, objs, owed, excuse>>,
           served' \in 1..MaxRequests, served <= served',
           req[w].at \notin {"copy", "flip", "invalidate"},
           req'[w].at \notin {"copy", "flip"},
           RequestInv(w)'
    PROVE  ServiceInv'
<1> USE Typed, FleetAssumption DEF ServiceInv, FleetInv, Apart
<1>1. LockHasHolder'
  BY DEF LockHasHolder, At, Excused
<1>2. Served' = Served
  BY DEF Served, Kubeconfig
<1>3. KeepsWhatWasMade'
  BY <1>2 DEF KeepsWhatWasMade, Excused
<1>4. \A p \in Places : \A o \in objs[p] : o.env \in Envs \cup {NoEnv}
  BY DEF Obj
<1>5. Served \in Places
  BY ServedTyped
<1>6. LabelHasEnvironment'
  BY <1>2, <1>4, <1>5 DEF LabelHasEnvironment, Excused
<1>7. ASSUME NEW x \in Workers \ {w} PROVE MovesAll(x)' /\ NamesEnv(x)'
  <2>1. RequestInv(x) /\ req'[x] = req[x] /\ req[x].env \in Envs \cup {NoEnv}
    BY ReqTyped
  <2>2. MovesAll(x)'
    BY <1>2, <2>1 DEF RequestInv, MovesAll, At, Excused
  <2>3. NamesEnv(x)'
    BY <2>1 DEF RequestInv, NamesEnv, At, Excused
  <2> QED
    BY <2>2, <2>3
<1> QED
  BY <1>1, <1>3, <1>6, <1>7, SteadyStep

-----------------------------------------------------------------------------
(* Requests that arrive.                                                   *)
Arrives(r) ==
    /\ r \in Reqs
    /\ r.at \in {"insertEnv", "client", "address", "insertReg", "rotate", "deleteReg"}
    /\ r.at \in {"insertReg", "rotate", "deleteReg"} => r.own \in Own
    /\ r.at = "insertEnv" => r.env \in Envs /\ r.row # 0
    /\ r.op = "deleteEnv" => r.env \in Envs
    /\ r.op = "create" => r.name \in Shorts /\ (r.kind # "cluster" => r.env = NoEnv)
    /\ r.at = "client" => /\ r.op \in {"deleteEnv", "create", "switch", "update", "delete"}
                          /\ r.op \in {"update", "delete"} => r.env = NoEnv
                          /\ r.op = "switch" => r.row = 0 \/ Registered(r.row)
    /\ r.at = "address" => r.op \in {"update", "delete"}
    /\ r.at = "insertReg" => r.row = served + 1

LEMMA ArriveKeeps ==
    ASSUME ServiceInv, NEW w \in Workers, NEW r, Arrives(r), Arrive(w, r)
    PROVE  ServiceInv'
<1> USE Typed, FleetAssumption DEF ServiceInv, FleetInv
<1>1. PICK pod \in Pods : req' = [req EXCEPT ![w] = [r EXCEPT !.pod = pod]]
  BY DEF Arrive
<1>2. served \in Nat /\ served' = served + 1 /\ served' \in 1..MaxRequests /\ served >= 1
  BY DEF Arrive
<1>3. UNCHANGED <<envs, regs, org, objs, cache, owed, excuse>> /\ req[w].at = "idle"
  BY IdleIs DEF Arrive
<1>4. PICK q \in Reqs : q = [r EXCEPT !.pod = pod]
  BY DEF Arrives, Reqs
<1>5. /\ q.pod = pod /\ q.at = r.at /\ q.op = r.op /\ q.env = r.env /\ q.name = r.name
      /\ q.kind = r.kind /\ q.row = r.row /\ q.own = r.own
  BY <1>4 DEF Arrives, Reqs
<1>6. Apart(w) /\ req'[w] = q
  BY <1>1, <1>4 DEF Apart
<1>7. CacheGrows
  BY <1>3 DEF CacheGrows
<1>8. RequestInv(w)'
  <2>1. NewRow(w)'
    <3>1. SUFFICES ASSUME q.at = "insertReg" PROVE NewRow(w)'
      BY <1>6 DEF NewRow, At
    <3>2. q.row = served'
      BY <1>2, <1>5, <3>1 DEF Arrives
    <3>3. ASSUME NEW n \in Own PROVE regs'[n].id # q.row
      <4>1. regs[n].id \in Nat /\ regs[n].id <= served
        BY DEF RegRows, RowsNumbered
      <4> QED
        BY <1>2, <1>3, <3>2, <4>1
    <3>4. ASSUME NEW p \in Pods, NEW h \in cache'[p] PROVE h.id # q.row
      <4>1. h.id \in Nat /\ h.id <= served
        BY <1>3 DEF Handles, RowsNumbered
      <4> QED
        BY <1>2, <3>2, <4>1
    <3>5. ASSUME NEW x \in Workers, At(x, "insertReg")', req'[x].row = q.row PROVE x = w
      <4>1. CASE x # w
        <5>1. req[x].row <= served
          BY <1>2, <1>6, <3>5, <4>1 DEF Apart, RequestInv, NewRow, At
        <5> QED
          BY <1>2, <1>6, <3>2, <3>5, <4>1, <5>1, ReqTyped DEF Apart
      <4> QED
        BY <4>1
    <3> QED
      BY <1>2, <1>6, <3>2, <3>3, <3>4, <3>5 DEF NewRow
  <2>2. Carries(w)'
    BY <1>5, <1>6 DEF Carries, At, Arrives
  <2>3. ToRegistered(w)'
    BY <1>3, <1>5, <1>6 DEF ToRegistered, At, Arrives, Registered
  <2>4. MovesAll(w)' /\ NamesEnv(w)'
    BY <1>5, <1>6 DEF MovesAll, NamesEnv, At, Arrives
  <2> QED
    BY <2>1, <2>2, <2>3, <2>4 DEF RequestInv
<1> QED
  BY <1>2, <1>3, <1>5, <1>6, <1>7, <1>8, QuietStep DEF Arrives

LEMMA HandleKeeps ==
    ASSUME ServiceInv, NEW w \in Workers, Handle(w)
    PROVE  ServiceInv'
<1>0. served \in Nat /\ envs \in [Envs -> Nat] /\ regs \in [Own -> RegRows]
  BY Typed, FleetAssumption DEF ServiceInv, FleetInv
<1>1. CASE \E e \in Extra : CreateEnv(w, e)
  <2>1. PICK e \in Extra : CreateEnv(w, e)
    BY <1>1
  <2>2. PICK r : r = [Idle EXCEPT !.op = "createEnv", !.at = "insertEnv", !.env = e,
                             !.row = served + 1]
    OBVIOUS
  <2>7. r.op = "createEnv" /\ r.at = "insertEnv" /\ r.env = e /\ r.row = served + 1
    BY <2>2 DEF Idle
  <2>a. e \in Envs /\ e \in Envs \cup {NoEnv} /\ served + 1 \in Nat /\ served + 1 # 0
    BY <1>0, <2>1 DEF Envs
  <2>8. r \in Reqs
    BY <2>1, <2>a, <2>2, IdleIs DEF Reqs, Ops, Steps
  <2>9. Arrives(r)
    BY <1>0, <2>1, <2>7, <2>8, <2>a, FleetAssumption DEF Arrives, Switch
  <2>3. Arrive(w, r)
    BY <2>1, <2>2 DEF CreateEnv, Arrive
  <2> QED
    BY <2>9, <2>3, ArriveKeeps
<1>2. CASE \E e \in Extra : DeleteEnv(w, e)
  <2>1. PICK e \in Extra : DeleteEnv(w, e)
    BY <1>2
  <2>2. PICK r : r = [Idle EXCEPT !.op = "deleteEnv", !.at = "client", !.env = e, !.row = envs[e]]
    OBVIOUS
  <2>7. r.op = "deleteEnv" /\ r.at = "client" /\ r.env = e /\ r.row = envs[e]
    BY <2>2 DEF Idle
  <2>a. e \in Envs /\ e \in Envs \cup {NoEnv} /\ envs[e] \in Nat
    BY <1>0, <2>1 DEF Envs
  <2>8. r \in Reqs
    BY <2>1, <2>a, <2>2, IdleIs DEF Reqs, Ops, Steps
  <2>9. Arrives(r)
    BY <1>0, <2>1, <2>7, <2>8, <2>a, FleetAssumption DEF Arrives, Switch
  <2>3. Arrive(w, r)
    BY <2>1, <2>2 DEF DeleteEnv, Arrive
  <2> QED
    BY <2>9, <2>3, ArriveKeeps
<1>3. CASE \E e \in Envs \cup {NoEnv}, s \in Shorts : CreateCluster(w, e, s)
  <2>1. PICK e \in Envs \cup {NoEnv}, s \in Shorts : CreateCluster(w, e, s)
    BY <1>3
  <2>2. PICK r : r = [Idle EXCEPT !.op = "create", !.at = "client", !.env = e, !.name = s]
    OBVIOUS
  <2>7. r.op = "create" /\ r.at = "client" /\ r.env = e /\ r.name = s /\ r.kind = "cluster"
    BY <2>2 DEF Idle
  <2>a. s \in Called
    BY <2>1 DEF Called, Names
  <2>8. r \in Reqs
    BY <2>1, <2>a, <2>2, IdleIs DEF Reqs, Ops, Steps
  <2>9. Arrives(r)
    BY <1>0, <2>1, <2>7, <2>8, <2>a, FleetAssumption DEF Arrives, Switch
  <2>3. Arrive(w, r)
    BY <2>1, <2>2 DEF CreateCluster, Arrive
  <2> QED
    BY <2>9, <2>3, ArriveKeeps
<1>4. CASE \E op \in {"update", "delete"}, e \in Envs \cup {NoEnv}, n \in Names :
              TouchCluster(w, op, e, n)
  <2>1. PICK op \in {"update", "delete"}, e \in Envs \cup {NoEnv}, n \in Names :
           TouchCluster(w, op, e, n)
    BY <1>4
  <2>2. PICK r : r = [Idle EXCEPT !.op = op, !.at = "address", !.env = e, !.name = n]
    OBVIOUS
  <2>7. r.op = op /\ r.at = "address" /\ r.env = e /\ r.name = n
    BY <2>2 DEF Idle
  <2>a. n \in Called /\ op \in {"update", "delete"}
    BY <2>1 DEF Called
  <2>8. r \in Reqs
    BY <2>1, <2>a, <2>2, IdleIs DEF Reqs, Ops, Steps
  <2>9. Arrives(r)
    BY <1>0, <2>1, <2>7, <2>8, <2>a, FleetAssumption DEF Arrives, Switch
  <2>3. Arrive(w, r)
    BY <2>1, <2>2 DEF TouchCluster, Arrive
  <2> QED
    BY <2>9, <2>3, ArriveKeeps
<1>5. CASE \E kind \in Kinds, n \in Shorts : CreateBlueprint(w, kind, n)
  <2>1. PICK kind \in Kinds, n \in Shorts : CreateBlueprint(w, kind, n)
    BY <1>5
  <2>2. PICK r : r = [Idle EXCEPT !.op = "create", !.at = "client", !.kind = kind, !.name = n]
    OBVIOUS
  <2>7. r.op = "create" /\ r.at = "client" /\ r.name = n /\ r.env = NoEnv
    BY <2>2 DEF Idle
  <2>a. n \in Called
    BY <2>1 DEF Called, Names
  <2>8. r \in Reqs
    BY <2>1, <2>a, <2>2, IdleIs DEF Reqs, Ops, Steps
  <2>9. Arrives(r)
    BY <1>0, <2>1, <2>7, <2>8, <2>a, FleetAssumption DEF Arrives, Switch
  <2>3. Arrive(w, r)
    BY <2>1, <2>2 DEF CreateBlueprint, Arrive
  <2> QED
    BY <2>9, <2>3, ArriveKeeps
<1>6. CASE \E op \in {"update", "delete"}, kind \in Kinds, n \in Shorts :
              TouchBlueprint(w, op, kind, n)
  <2>1. PICK op \in {"update", "delete"}, kind \in Kinds, n \in Shorts :
           TouchBlueprint(w, op, kind, n)
    BY <1>6
  <2>2. PICK r : r = [Idle EXCEPT !.op = op, !.at = "client", !.kind = kind, !.real = n]
    OBVIOUS
  <2>7. r.op = op /\ r.at = "client" /\ r.env = NoEnv
    BY <2>2 DEF Idle
  <2>a. n \in Reals
    BY <2>1 DEF Called, Names, Reals
  <2>8. r \in Reqs
    BY <2>1, <2>a, <2>2, IdleIs DEF Reqs, Ops, Steps
  <2>9. Arrives(r)
    BY <1>0, <2>1, <2>7, <2>8, <2>a, FleetAssumption DEF Arrives, Switch
  <2>3. Arrive(w, r)
    BY <2>1, <2>2 DEF TouchBlueprint, Arrive
  <2> QED
    BY <2>9, <2>3, ArriveKeeps
<1>7. CASE \E n \in Own, kc \in Kubeconfigs, s \in BOOLEAN : Register(w, n, kc, s)
  <2>1. PICK n \in Own, kc \in Kubeconfigs, s \in BOOLEAN : Register(w, n, kc, s)
    BY <1>7
  <2>2. PICK op \in {"switch", "register"} : op = IF s THEN "switch" ELSE "register"
    OBVIOUS
  <2>3. PICK at \in {"insertReg", "rotate"}, row \in Nat :
          /\ at = IF regs[n].id = 0 THEN "insertReg" ELSE "rotate"
          /\ row = IF regs[n].id = 0 THEN served + 1 ELSE regs[n].id
          /\ at = "insertReg" => row = served + 1
    BY <1>0 DEF RegRows
  <2>4. PICK go \in BOOLEAN : go = (Unlocked /\ (regs[n].id = 0 \/ regs[n].id # org.at))
    BY Zenon
  <2>5. PICK r : r = [Idle EXCEPT !.op = op, !.at = at, !.own = n, !.kc = kc, !.go = go,
                             !.row = row]
    OBVIOUS
  <2>7. r.op = op /\ r.at = at /\ r.own = n /\ r.row = row /\ r.env = NoEnv
    BY <2>5 DEF Idle
  <2>a. kc \in Places /\ op \in Ops /\ at \in Steps /\ n \in Own \cup {Nobody}
    BY <2>1, <2>2, <2>3 DEF Places, Ops, Steps
  <2>b. row \in Nat /\ go \in BOOLEAN
    BY <2>3, <2>4
  <2>8. r \in Reqs
    BY <2>a, <2>b, <2>5, IdleIs DEF Reqs
  <2>9. Arrives(r)
    BY <1>0, <2>1, <2>2, <2>3, <2>4, <2>7, <2>8, <2>a, FleetAssumption DEF Arrives, Switch
  <2>6. Arrive(w, r)
    BY <2>1, <2>2, <2>3, <2>4, <2>5 DEF Register, Arrive
  <2> QED
    BY <2>9, <2>6, ArriveKeeps
<1>8. CASE \E n \in Own : Remove(w, n)
  <2>1. PICK n \in Own : Remove(w, n)
    BY <1>8
  <2>2. PICK r : r = [Idle EXCEPT !.op = "remove", !.at = "deleteReg", !.own = n,
                             !.row = regs[n].id]
    OBVIOUS
  <2>7. r.op = "remove" /\ r.at = "deleteReg" /\ r.own = n /\ r.row = regs[n].id /\ r.env = NoEnv
    BY <2>2 DEF Idle
  <2>a. regs[n].id \in Nat
    BY <1>0, <2>1 DEF RegRows
  <2>8. r \in Reqs
    BY <2>1, <2>a, <2>2, IdleIs DEF Reqs, Ops, Steps
  <2>9. Arrives(r)
    BY <1>0, <2>1, <2>7, <2>8, <2>a, FleetAssumption DEF Arrives, Switch
  <2>3. Arrive(w, r)
    BY <2>1, <2>2 DEF Remove, Arrive
  <2> QED
    BY <2>9, <2>3, ArriveKeeps
<1>9. CASE \E id \in Nat : Switch(w, id)
  <2>1. PICK id \in Nat : Switch(w, id)
    BY <1>9
  <2>2. PICK r : r = Moving(id)
    OBVIOUS
  <2>7. r.op = "switch" /\ r.at = "client" /\ r.row = id
    BY <2>2 DEF Moving, Idle
  <2>8. r \in Reqs
    BY <1>0, <2>1, <2>2, IdleIs DEF Moving, Reqs, Ops, Steps
  <2>9. Arrives(r)
    BY <1>0, <2>1, <2>7, <2>8, FleetAssumption DEF Arrives, Switch
  <2>3. Arrive(w, r)
    BY <2>1, <2>2 DEF Switch, Arrive
  <2> QED
    BY <2>9, <2>3, ArriveKeeps
<1> QED
  <2>1. Shorts \subseteq Names /\ {"template", "workflow", "resource"} \subseteq Kinds
    BY DEF Names, Kinds
  <2>2. \A n \in Own : regs[n].id \in Nat
    BY <1>0 DEF RegRows
  <2> QED
    BY <1>1, <1>2, <1>3, <1>4, <1>5, <1>6, <1>7, <1>8, <1>9, <2>1, <2>2
    DEF Handle, TouchTemplate, TouchWorkflow, TouchResource, CreateTemplate, CreateWorkflow,
        CreateResource

-----------------------------------------------------------------------------
(* Requests that look something up.                                        *)
LEMMA QuietEnd ==
    ASSUME ServiceInv, NEW w \in Workers, End(w), req[w].at \notin {"copy", "flip", "invalidate"},
           UNCHANGED <<envs, regs, org, objs, cache, served, owed, excuse>>
    PROVE  ServiceInv'
<1> USE Typed, FleetAssumption DEF ServiceInv, FleetInv
<1>1. Apart(w) /\ req'[w] = Idle
  BY EndIs DEF Apart
<1>2. RequestInv(w)'
  BY <1>1, IdleRequest
<1>3. req'[w].at = "idle"
  BY <1>1, IdleIs
<1>4. CacheGrows
  BY DEF CacheGrows
<1> QED
  BY <1>1, <1>2, <1>3, <1>4, QuietStep

LEMMA CheckInUseKeeps ==
    ASSUME ServiceInv, NEW w \in Workers, CheckInUse(w)
    PROVE  ServiceInv'
<1> USE Typed, FleetAssumption DEF ServiceInv, FleetInv
<1>1. CASE EnvironmentInUse(req[w].env, req[w].place)
  BY <1>1, QuietEnd DEF CheckInUse, At
<1>2. CASE ~EnvironmentInUse(req[w].env, req[w].place)
  <2>1. Goto(w, "deleteEnv") /\ "deleteEnv" \in Steps /\ req[w].at = "inUse"
    BY <1>2 DEF CheckInUse, Steps, At
  <2>2. UNCHANGED <<envs, regs, org, objs, cache, served, owed, excuse>>
    BY DEF CheckInUse
  <2>3. Apart(w) /\ req'[w].at = "deleteEnv" /\ req'[w].op = req[w].op
        /\ req'[w].pod = req[w].pod /\ req'[w].env = req[w].env /\ req'[w].place = req[w].place
    BY <2>1, GotoIs DEF Apart
  <2>4. CacheGrows
    BY <2>2 DEF CacheGrows
  <2>5. Carries(w) /\ (\A o \in objs[req[w].place] : o.env # req[w].env)
    BY <1>2 DEF EnvironmentInUse, RequestInv
  <2>6. RequestInv(w)'
    BY <2>1, <2>2, <2>3, <2>5
    DEF RequestInv, NewRow, Carries, ToRegistered, MovesAll, NamesEnv, At
  <2> QED
    BY <2>1, <2>2, <2>3, <2>4, <2>6, QuietStep
<1> QED
  BY <1>1, <1>2

LEMMA ResolveKeeps ==
    ASSUME ServiceInv, NEW w \in Workers, Resolve(w)
    PROVE  ServiceInv'
<1> USE Typed, FleetAssumption DEF ServiceInv, FleetInv
<1>1. Carries(w) /\ ToRegistered(w) /\ req[w].at = "client" /\ req[w] \in Reqs
  BY DEF RequestInv, Resolve, At
<1>2. /\ req[w].pod \in Pods
      /\ req[w].op \in {"deleteEnv", "create", "switch", "update", "delete"}
      /\ (org.at = 0 \/ Registered(org.at))
  BY <1>1 DEF Carries, At, ActiveRegistered
<1>3. PICK at \in {"inUse", "name", "create", "dest", "touch"} :
        /\ at = AfterClient(req[w])
        /\ at = "inUse" <=> req[w].op = "deleteEnv"
        /\ at \in {"name", "create"} <=> req[w].op = "create"
        /\ at = "create" => req[w].kind # "cluster"
        /\ at = "name" => req[w].kind = "cluster"
        /\ at = "dest" <=> req[w].op = "switch"
  BY <1>2 DEF AfterClient
<1>4. PICK kc \in Places : kc = Client(req[w].pod, org.at)
  BY <1>2, ClientTyped
<1>5. req' = [req EXCEPT ![w].place = kc, ![w].at = at]
  BY <1>3, <1>4 DEF Resolve
<1>6. req'[w] = [req[w] EXCEPT !.place = kc, !.at = at]
  BY <1>5
<1>7. /\ req'[w].at = at /\ req'[w].op = req[w].op /\ req'[w].pod = req[w].pod
      /\ req'[w].env = req[w].env /\ req'[w].name = req[w].name /\ req'[w].kind = req[w].kind
      /\ req'[w].row = req[w].row /\ req'[w].real = req[w].real /\ req'[w].go = req[w].go
  BY <1>1, <1>6 DEF Reqs
<1>8. at \in Steps
  BY <1>3 DEF Steps
<1>9. req'[w] \in Reqs
  BY <1>1, <1>6, <1>8 DEF Reqs
<1>10. Apart(w)
  BY <1>5, <1>9 DEF Apart
<1>11. CacheGrows
  BY <1>2, CacheClientGrows DEF Resolve
<1>12. UNCHANGED <<envs, regs, org, objs, served, owed, excuse>>
  BY DEF Resolve
<1>13. RequestInv(w)'
  <2>1. Carries(w)'
    BY <1>1, <1>2, <1>3, <1>7 DEF Carries, At
  <2>2. ToRegistered(w)'
    BY <1>1, <1>3, <1>7, <1>12 DEF ToRegistered, Registered, Excused
  <2>3. NamesEnv(w)'
    BY <1>1, <1>2, <1>3, <1>7 DEF NamesEnv, At, Carries
  <2> QED
    BY <1>3, <1>7, <2>1, <2>2, <2>3 DEF RequestInv, NewRow, MovesAll, At
<1> QED
  BY <1>1, <1>3, <1>7, <1>10, <1>11, <1>12, <1>13, QuietStep

LEMMA NameClusterKeeps ==
    ASSUME ServiceInv, NEW w \in Workers, NameCluster(w)
    PROVE  ServiceInv'
<1> USE Typed, FleetAssumption DEF ServiceInv, FleetInv
<1>1. Carries(w) /\ req[w].at = "name" /\ req[w] \in Reqs
      /\ UNCHANGED <<envs, regs, org, objs, cache, served, owed, excuse>>
  BY DEF RequestInv, NameCluster, At
<1>2. CASE ~\E e \in Envs : Candidates(req[w].env) = {e}
  BY <1>1, <1>2, QuietEnd DEF NameCluster
<1>3. CASE \E e \in Envs : Candidates(req[w].env) = {e}
  <2>1. PICK e \in Envs : e \in Existing
          /\ req' = [req EXCEPT ![w].at = "create", ![w].env = e, ![w].row = envs[e]]
    BY <1>3 DEF NameCluster, Candidates, Existing
  <2>2. req'[w] = [req[w] EXCEPT !.at = "create", !.env = e, !.row = envs[e]]
    BY <2>1
  <2>3. /\ req'[w].at = "create" /\ req'[w].env = e /\ req'[w].pod = req[w].pod
        /\ req'[w].op = req[w].op /\ req'[w].name = req[w].name /\ req'[w].kind = req[w].kind
    BY <1>1, <2>2 DEF Reqs
  <2>4. "create" \in Steps /\ envs[e] \in Nat
    BY DEF Steps
  <2>5. req'[w] \in Reqs
    BY <1>1, <2>2, <2>4 DEF Reqs
  <2>6. Apart(w)
    BY <2>1, <2>5 DEF Apart
  <2>7. CacheGrows
    BY <1>1 DEF CacheGrows
  <2>8. Carries(w)' /\ NamesEnv(w)'
    BY <1>1, <2>1, <2>3 DEF Carries, NamesEnv, At, Existing
  <2>9. RequestInv(w)'
    BY <2>3, <2>8, <1>1 DEF RequestInv, NewRow, ToRegistered, MovesAll, At
  <2> QED
    BY <1>1, <2>3, <2>6, <2>7, <2>9, QuietStep
<1> QED
  BY <1>2, <1>3

LEMMA EffectiveIs == Effective \in Envs
<1>1. CASE \E e \in Envs : Existing = {e}
  BY <1>1 DEF Effective
<1>2. CASE ~\E e \in Envs : Existing = {e}
  BY <1>2 DEF Effective, Envs
<1> QED
  BY <1>1, <1>2

(* A request goes on with the real name that a lookup gave it.             *)
LEMMA NamedKeeps ==
    ASSUME ServiceInv, NEW w \in Workers, At(w, "address"), NEW real \in Reals,
           NEW go \in BOOLEAN, Named(w, real, go), CacheGrows,
           req[w].env = NoEnv \/ go \/ real = Join(req[w].env, req[w].name),
           UNCHANGED <<envs, regs, org, objs, served, owed, excuse>>
    PROVE  ServiceInv'
<1> USE Typed, FleetAssumption DEF ServiceInv, FleetInv
<1>1. Carries(w) /\ req[w] \in Reqs /\ req[w].at = "address"
  BY DEF RequestInv, At
<1>2. /\ req' = [req EXCEPT ![w].at = "client", ![w].real = real, ![w].go = go]
      /\ req'[w] = [req[w] EXCEPT !.at = "client", !.real = real, !.go = go]
  BY DEF Named
<1>3. /\ req'[w].at = "client" /\ req'[w].real = real /\ req'[w].go = go
      /\ req'[w].pod = req[w].pod /\ req'[w].op = req[w].op /\ req'[w].name = req[w].name
      /\ req'[w].env = req[w].env
  BY <1>1, <1>2 DEF Reqs
<1>4. "client" \in Steps
  BY DEF Steps
<1>5. req'[w] \in Reqs
  BY <1>1, <1>2, <1>4 DEF Reqs
<1>6. Apart(w)
  BY <1>2, <1>5 DEF Apart
<1>7. Carries(w)'
  BY <1>1, <1>3 DEF Carries, At
<1>8. RequestInv(w)'
  BY <1>1, <1>3, <1>7 DEF RequestInv, NewRow, ToRegistered, MovesAll, NamesEnv, At, Carries
<1> QED
  BY <1>1, <1>3, <1>6, <1>8, QuietStep

LEMMA AddressKeeps ==
    ASSUME ServiceInv, NEW w \in Workers, Address(w)
    PROVE  ServiceInv'
<1> USE Typed, FleetAssumption DEF ServiceInv, FleetInv
<1>1. /\ Carries(w) /\ req[w] \in Reqs /\ At(w, "address") /\ req[w].pod \in Pods
      /\ (org.at = 0 \/ Registered(org.at)) /\ req[w].name \in Called
      /\ req[w].env \in Envs \cup {NoEnv}
  BY ReqTyped DEF RequestInv, Address, At, Carries, ActiveRegistered
<1>2. CacheGrows
  <2>1. CASE req[w].env = NoEnv
    BY <1>1, <2>1, CacheClientGrows DEF Address
  <2>2. CASE req[w].env # NoEnv
    BY <2>2 DEF Address, CacheGrows
  <2> QED
    BY <2>1, <2>2
<1>3. PICK p : p = Client(req[w].pod, org.at)
  OBVIOUS
<1>4. PICK real : real = Addressed(req[w].env, req[w].name, p)
  OBVIOUS
<1>5. /\ real \in Reals
      /\ \/ req[w].env = NoEnv
         \/ req[w].env \notin Existing
         \/ real = Join(req[w].env, req[w].name)
  BY <1>1, <1>4, EffectiveIs DEF Addressed, Reals
<1>6. PICK go \in BOOLEAN : go = (req[w].env # NoEnv /\ req[w].env \notin Existing)
  BY Zenon
<1>7. Named(w, real, go)
  BY <1>3, <1>4, <1>6 DEF Address, Named
<1>8. req[w].env = NoEnv \/ go \/ real = Join(req[w].env, req[w].name)
  BY <1>5, <1>6
<1>9. UNCHANGED <<envs, regs, org, objs, served, owed, excuse>>
  BY DEF Address
<1> QED
  BY <1>1, <1>2, <1>5, <1>7, <1>8, <1>9, NamedKeeps

LEMMA FailLookupKeeps ==
    ASSUME ServiceInv, NEW w \in Workers, FailLookup(w)
    PROVE  ServiceInv'
<1> USE Typed, FleetAssumption DEF ServiceInv, FleetInv
<1>1. /\ req[w] \in Reqs /\ At(w, "address") /\ req[w].name \in Called
      /\ UNCHANGED <<envs, regs, org, objs, cache, served, owed, excuse>>
  BY ReqTyped DEF FailLookup
<1>2. CacheGrows
  BY <1>1 DEF CacheGrows
<1>3. req[w].name \in Reals /\ Join(Effective, req[w].name) \in Reals
  BY <1>1, EffectiveIs DEF Reals
<1>4. PICK go \in BOOLEAN : go = (req[w].env # NoEnv)
  BY Zenon
<1>5. CASE Named(w, req[w].name, req[w].env # NoEnv)
  <2>1. Named(w, req[w].name, go)
    BY <1>4, <1>5 DEF Named
  <2> QED
    BY <1>1, <1>2, <1>3, <1>4, <2>1, NamedKeeps
<1>6. CASE req[w].env = NoEnv /\ Named(w, Join(Effective, req[w].name), FALSE)
  BY <1>1, <1>2, <1>3, <1>6, NamedKeeps
<1> QED
  BY <1>5, <1>6 DEF FailLookup

LEMMA DestinationKeeps ==
    ASSUME ServiceInv, NEW w \in Workers, Destination(w)
    PROVE  ServiceInv'
<1> USE Typed, FleetAssumption DEF ServiceInv, FleetInv
<1>1. /\ Carries(w) /\ ToRegistered(w) /\ req[w] \in Reqs /\ req[w].at = "dest"
      /\ req[w].pod \in Pods /\ req[w].op = "switch"
      /\ UNCHANGED <<envs, regs, org, objs, served, owed, excuse>>
  BY DEF RequestInv, Destination, At, Carries
<1>2. CASE ~(req[w].row = 0 \/ Cached(req[w].pod, req[w].row) # {} \/ Registered(req[w].row))
  BY <1>1, <1>2, QuietEnd DEF Destination
<1>3. CASE req[w].row = 0 \/ Cached(req[w].pod, req[w].row) # {} \/ Registered(req[w].row)
  <2>1. CacheGrows
    BY <1>1, <1>3, CacheClientGrows DEF Destination
  <2>2. PICK kc \in Places : kc = Client(req[w].pod, req[w].row) /\ (req[w].row = 0 => kc = Home)
    BY <1>1, <1>3, ClientTyped
  <2>3. req' = [req EXCEPT ![w].dest = kc, ![w].at = "lock"]
    BY <1>3, <2>2 DEF Destination
  <2>4. req'[w] = [req[w] EXCEPT !.dest = kc, !.at = "lock"]
    BY <2>3
  <2>5. /\ req'[w].at = "lock" /\ req'[w].dest = kc /\ req'[w].pod = req[w].pod
        /\ req'[w].op = req[w].op /\ req'[w].row = req[w].row
        /\ req'[w].name = req[w].name /\ req'[w].kind = req[w].kind
        /\ req'[w].env = req[w].env
    BY <1>1, <2>4 DEF Reqs
  <2>6. "lock" \in Steps
    BY DEF Steps
  <2>7. req'[w] \in Reqs
    BY <1>1, <2>4, <2>6 DEF Reqs
  <2>8. Apart(w)
    BY <2>3, <2>7 DEF Apart
  <2>9. Carries(w)'
    BY <1>1, <2>5 DEF Carries, At
  <2>10. ToRegistered(w)'
    BY <1>1, <2>2, <2>5 DEF ToRegistered, Registered, Excused
  <2>11. RequestInv(w)'
    BY <2>5, <2>9, <2>10 DEF RequestInv, NewRow, MovesAll, NamesEnv, At
  <2> QED
    BY <1>1, <2>1, <2>5, <2>8, <2>11, QuietStep
<1> QED
  BY <1>2, <1>3

-----------------------------------------------------------------------------
(* Environments.                                                           *)
LEMMA InsertEnvKeeps ==
    ASSUME ServiceInv, NEW w \in Workers, InsertEnv(w)
    PROVE  ServiceInv'
<1> USE Typed, FleetAssumption DEF ServiceInv, FleetInv
<1>1. /\ req[w].env \in Envs /\ req[w].row \in Nat /\ req[w].row # 0 /\ req[w].at = "insertEnv"
      /\ UNCHANGED <<regs, org, objs, cache, served, owed, excuse>> /\ End(w)
  BY ReqTyped DEF InsertEnv, At, RequestInv, Carries
<1>2. envs' \in [Envs -> Nat] /\ \A e \in Envs : envs[e] # 0 => envs'[e] # 0
  BY <1>1 DEF InsertEnv
<1>3. Apart(w) /\ req'[w] = Idle
  BY <1>1, EndIs DEF Apart
<1>4. RequestInv(w)' /\ req'[w].at = "idle"
  BY <1>3, IdleRequest, IdleIs
<1>5. CacheGrows
  BY <1>1 DEF CacheGrows
<1> QED
  BY <1>1, <1>2, <1>3, <1>4, <1>5, QuietStep

LEMMA DeleteEnvRowKeeps ==
    ASSUME ServiceInv, NEW w \in Workers, DeleteEnvRow(w)
    PROVE  ServiceInv'
<1> USE Typed, FleetAssumption DEF ServiceInv, FleetInv
<1>1. /\ req[w].at = "deleteEnv" /\ req[w].env \in Envs /\ End(w)
      /\ UNCHANGED <<regs, org, objs, cache, served, owed>>
      /\ \/ \A o \in objs[req[w].place] : o.env # req[w].env
         \/ Excused({"late"})
  BY DEF DeleteEnvRow, At, RequestInv, Carries, NamesEnv
<1>2. envs' \in [Envs -> Nat] /\ \A e \in Envs \ {req[w].env} : envs'[e] = envs[e]
  BY <1>1 DEF DeleteEnvRow
<1>3. /\ excuse \subseteq excuse' /\ excuse' \subseteq Windows
      /\ Naming(req[w].env) => "late" \in excuse'
      /\ req[w].place # Served => "elsewhere" \in excuse'
  BY DEF DeleteEnvRow, Record, Hit, Windows
<1>4. Apart(w) /\ req'[w] = Idle
  BY <1>1, EndIs DEF Apart
<1>5. RequestInv(w)'
  BY <1>4, IdleRequest
<1>6. CacheGrows
  BY <1>1 DEF CacheGrows
<1>7. LockHasHolder'
  BY <1>1, <1>3, <1>4 DEF LockHasHolder, Apart, At, Excused
<1>8. Served' = Served /\ Served \in Places
  BY <1>1, ServedTyped DEF Served, Kubeconfig
<1>9. KeepsWhatWasMade'
  BY <1>1, <1>3, <1>8 DEF KeepsWhatWasMade, Excused
<1>10. LabelHasEnvironment'
  <2>1. CASE req[w].place # Served \/ Excused({"late"})
    BY <1>3, <2>1 DEF LabelHasEnvironment, Excused
  <2>2. CASE req[w].place = Served /\ ~Excused({"late"})
    <3>1. \A o \in objs[Served] : o.env \in Envs \cup {NoEnv} /\ o.env # req[w].env
      BY <1>1, <1>8, <2>2 DEF Obj
    <3> QED
      BY <1>1, <1>2, <1>3, <1>8, <3>1 DEF LabelHasEnvironment, Excused
  <2> QED
    BY <2>1, <2>2
<1>11. ASSUME NEW x \in Workers \ {w} PROVE MovesAll(x)' /\ NamesEnv(x)'
  <2>1. RequestInv(x) /\ req'[x] = req[x] /\ req[x].env \in Envs \cup {NoEnv}
    BY <1>4, ReqTyped DEF Apart
  <2>2. MovesAll(x)'
    BY <1>1, <1>3, <1>4, <1>8, <2>1, IdleIs DEF RequestInv, MovesAll, At, Excused, Apart
  <2>3. NamesEnv(x)'
    <3>1. At(x, "create") /\ req[x].env = req[w].env => "late" \in excuse'
      BY <1>3, <2>1 DEF Naming, RequestInv, Carries, At
    <3>2. At(x, "create")' => \/ req'[x].env = NoEnv \/ envs'[req'[x].env] # 0
                              \/ Excused({"late"})'
      BY <1>2, <1>3, <2>1, <3>1 DEF RequestInv, NamesEnv, At, Excused
    <3>3. At(x, "deleteEnv")' => \/ \A o \in objs'[req'[x].place] : o.env # req'[x].env
                                 \/ Excused({"late"})'
      BY <1>1, <1>3, <2>1 DEF RequestInv, NamesEnv, At, Excused
    <3> QED
      BY <3>2, <3>3 DEF NamesEnv
  <2> QED
    BY <2>2, <2>3
<1> QED
  BY <1>1, <1>2, <1>3, <1>4, <1>5, <1>6, <1>7, <1>9, <1>10, <1>11, SteadyStep

-----------------------------------------------------------------------------
(* Objects.                                                                *)

LEMMA CreateKeeps ==
    ASSUME ServiceInv, NEW w \in Workers, Create(w)
    PROVE  ServiceInv'
<1> USE Typed, FleetAssumption DEF ServiceInv, FleetInv
<1>1. /\ req[w].at = "create" /\ req[w].op = "create" /\ req[w].name \in Shorts /\ End(w)
      /\ req[w].kind \in Kinds /\ req[w].env \in Envs \cup {NoEnv} /\ req[w].place \in Places
      /\ UNCHANGED <<envs, regs, org, cache, served>> /\ NamesEnv(w)
  BY ReqTyped DEF Create, At, RequestInv, Carries
<1>2. PICK o : o = [kind |-> req[w].kind, env |-> req[w].env, short |-> req[w].name, own |-> TRUE]
  OBVIOUS
<1>3. /\ o \in Obj /\ Asked(o) \in Debts /\ o.env = req[w].env /\ o.own
  BY <1>1, <1>2 DEF Obj, Debts, Asked
<1>4. CASE UNCHANGED <<objs, owed, excuse>>
  BY <1>1, <1>4, QuietEnd
<1>5. CASE ~UNCHANGED <<objs, owed, excuse>>
  <2>1. /\ objs' = [objs EXCEPT ![req[w].place] = @ \cup {o}]
        /\ owed' = owed \cup {Asked(o)}
        /\ excuse' = excuse \cup (Astray(w) \cup Hit(Unused(req[w].env), "late"))
    BY <1>2, <1>5 DEF Create, Record
  <2>2. /\ excuse \subseteq excuse' /\ excuse' \subseteq Windows
        /\ req[w].place # Served => "elsewhere" \in excuse'
        /\ org.locked => "unlocked" \in excuse'
        /\ Unused(req[w].env) => "late" \in excuse'
    BY <2>1 DEF Astray, Hit, Windows
  <2>3. /\ objs' \in [Places -> SUBSET Obj] /\ owed' \subseteq Debts
        /\ objs'[req[w].place] = objs[req[w].place] \cup {o}
        /\ \A p \in Places \ {req[w].place} : objs'[p] = objs[p]
    BY <1>1, <1>3, <2>1
  <2>4. Apart(w) /\ req'[w] = Idle /\ CacheGrows
    BY <1>1, EndIs DEF Apart, CacheGrows
  <2>5. RequestInv(w)'
    BY <2>4, IdleRequest
  <2>6. LockHasHolder'
    BY <1>1, <2>2, <2>4 DEF LockHasHolder, Apart, At, Excused
  <2>7. Served' = Served /\ Served \in Places
    BY <1>1, ServedTyped DEF Served, Kubeconfig
  <2>8. KeepsWhatWasMade'
    <3>1. CASE req[w].place # Served
      BY <2>2, <3>1 DEF KeepsWhatWasMade, Excused
    <3>2. CASE req[w].place = Served
      BY <1>3, <2>1, <2>2, <2>3, <2>7, <3>2 DEF KeepsWhatWasMade, Excused
    <3> QED
      BY <3>1, <3>2
  <2>9. LabelHasEnvironment'
    <3>1. CASE req[w].place # Served
      BY <2>2, <3>1 DEF LabelHasEnvironment, Excused
    <3>2. CASE req[w].place = Served
      BY <1>1, <1>3, <2>2, <2>3, <2>7, <3>2 DEF LabelHasEnvironment, NamesEnv, At, Excused
    <3> QED
      BY <3>1, <3>2
  <2>10. ASSUME NEW x \in Workers \ {w} PROVE MovesAll(x)' /\ NamesEnv(x)'
    <3>1. RequestInv(x) /\ req'[x] = req[x] /\ req[x].place \in Places
      BY <2>4, ReqTyped DEF Apart
    <3>2. MovesAll(x)'
      BY <2>2, <3>1 DEF RequestInv, MovesAll, At, Excused
    <3>3. NamesEnv(x)'
      <4>1. At(x, "deleteEnv") /\ req[x].env = o.env => "late" \in excuse'
        BY <1>3, <2>2 DEF Unused
      <4> QED
        BY <1>1, <2>2, <2>3, <3>1, <4>1 DEF RequestInv, NamesEnv, At, Excused
    <3> QED
      BY <3>2, <3>3
  <2> QED
    BY <1>1, <2>2, <2>3, <2>4, <2>5, <2>6, <2>8, <2>9, <2>10, SteadyStep
<1> QED
  BY <1>4, <1>5

LEMMA TouchKeeps ==
    ASSUME ServiceInv, NEW w \in Workers, Touch(w)
    PROVE  ServiceInv'
<1> USE Typed, FleetAssumption DEF ServiceInv, FleetInv
<1>1. /\ req[w].at = "touch" /\ req[w].op \in {"update", "delete"} /\ End(w)
      /\ req[w].place \in Places /\ UNCHANGED <<envs, regs, org, cache, served>>
      /\ req[w].env = NoEnv \/ req[w].go \/ req[w].real = Join(req[w].env, req[w].name)
  BY ReqTyped DEF Touch, At, RequestInv, Carries
<1>2. PICK hits \in SUBSET objs[req[w].place] :
        hits = {o \in objs[req[w].place] : o.kind = req[w].kind /\ Real(o) = req[w].real}
  OBVIOUS
<1>3. PICK meant \in SUBSET hits : meant = {o \in hits : Means(req[w], o)}
  OBVIOUS
<1>a. PICK others \in SUBSET hits : others = hits \ meant
  OBVIOUS
<1>4. hits \in SUBSET Obj /\ (req[w].env = NoEnv => hits = meant)
  BY <1>1, <1>2, <1>3 DEF Means
<1>5. CASE hits = {}
  <2>1. objs' = objs /\ owed' = owed /\ excuse' = excuse
    <3>1. /\ meant = {} /\ others = {} /\ {Asked(o) : o \in meant} = {}
          /\ {[o EXCEPT !.own = FALSE] : o \in others} = {}
      BY <1>3, <1>5, <1>a
    <3>2. [objs EXCEPT ![req[w].place] = @ \ {}] = objs /\ owed \ {} = owed
          /\ [objs EXCEPT ![req[w].place] = (@ \ {}) \cup {}] = objs
      BY <1>1
    <3>3. \/ /\ objs' = [objs EXCEPT ![req[w].place] = @ \ hits]
             /\ owed' = owed \ {Asked(o) : o \in meant}
          \/ /\ objs' = [objs EXCEPT ![req[w].place] =
                    (@ \ others) \cup {[o EXCEPT !.own = FALSE] : o \in others}]
             /\ owed' = owed
      BY <1>2, <1>3, <1>a DEF Touch
    <3>4. excuse' = excuse
      BY <1>2, <1>5 DEF Touch
    <3> QED
      BY <1>5, <3>1, <3>2, <3>3, <3>4
  <2> QED
    BY <1>1, <2>1, QuietEnd
<1>6. CASE hits # {}
  <2>1. \/ /\ objs' = [objs EXCEPT ![req[w].place] = @ \ hits]
           /\ owed' = owed \ {Asked(o) : o \in meant}
        \/ /\ objs' = [objs EXCEPT ![req[w].place] =
                  (@ \ others) \cup {[o EXCEPT !.own = FALSE] : o \in others}]
           /\ owed' = owed
    BY <1>2, <1>3, <1>a DEF Touch
  <2>2. excuse' = excuse \cup (Astray(w)
           \cup Hit(hits # meant /\ req[w].go, "unknownEnv")
           \cup Hit(hits # meant /\ req[w].real = Join(req[w].env, req[w].name), "namesake"))
    BY <1>2, <1>3, <1>a, <1>6 DEF Touch, Record
  <2>3. /\ excuse \subseteq excuse' /\ excuse' \subseteq Windows
        /\ req[w].place # Served => "elsewhere" \in excuse'
        /\ org.locked => "unlocked" \in excuse'
        /\ hits # meant => "unknownEnv" \in excuse' \/ "namesake" \in excuse'
    BY <1>1, <1>4, <2>2 DEF Astray, Hit, Windows
  <2>4. ASSUME NEW o \in Obj
        PROVE  /\ [o EXCEPT !.own = FALSE] \in Obj
               /\ [o EXCEPT !.own = FALSE].env = o.env
    BY <2>4 DEF Obj
  <2>5. /\ objs' \in [Places -> SUBSET Obj] /\ owed' \subseteq owed
        /\ \A p \in Places \ {req[w].place} : objs'[p] = objs[p]
        /\ \A o \in objs'[req[w].place] : \E x \in objs[req[w].place] : x.env = o.env
        /\ \A x \in objs[req[w].place] :
              \/ \E o \in objs'[req[w].place] : Asked(o) = Asked(x) /\ o.own = x.own
              \/ hits # meant
              \/ Asked(x) \notin owed'
    <3>1. CASE /\ objs' = [objs EXCEPT ![req[w].place] = @ \ hits]
               /\ owed' = owed \ {Asked(o) : o \in meant}
      <4>1. /\ objs'[req[w].place] = objs[req[w].place] \ hits
            /\ \A p \in Places \ {req[w].place} : objs'[p] = objs[p]
            /\ objs' \in [Places -> SUBSET Obj]
        BY <1>1, <3>1
      <4>2. ASSUME NEW x \in meant PROVE Asked(x) \notin owed'
        <5>1. Asked(x) \in {Asked(o) : o \in meant}
          BY <4>2
        <5> QED
          BY <3>1, <5>1
      <4> QED
        BY <1>1, <3>1, <4>1, <4>2
    <3>2. CASE /\ objs' = [objs EXCEPT ![req[w].place] =
                  (@ \ others) \cup {[o EXCEPT !.own = FALSE] : o \in others}]
               /\ owed' = owed
      <4>1. PICK new : new = {[o EXCEPT !.own = FALSE] : o \in others}
        OBVIOUS
      <4>2. /\ new \in SUBSET Obj /\ \A o \in new : \E x \in others : x.env = o.env
            /\ hits = meant => others = {}
        <5>1. \A o \in new : \E x \in others : o = [x EXCEPT !.own = FALSE]
          BY <4>1
        <5>2. \A x \in others : x \in Obj
          BY <1>4
        <5>3. \A o \in new : o \in Obj /\ \E x \in others : x.env = o.env
          BY <2>4, <5>1, <5>2
        <5> QED
          BY <1>a, <5>3
      <4>3. /\ objs'[req[w].place] = (objs[req[w].place] \ others) \cup new
            /\ \A p \in Places \ {req[w].place} : objs'[p] = objs[p]
            /\ objs' \in [Places -> SUBSET Obj]
        BY <1>1, <3>2, <4>1, <4>2
      <4> QED
        BY <1>1, <3>2, <4>2, <4>3
    <3> QED
      BY <2>1, <3>1, <3>2
  <2>6. Apart(w) /\ req'[w] = Idle /\ CacheGrows
    BY <1>1, EndIs DEF Apart, CacheGrows
  <2>7. RequestInv(w)'
    BY <2>6, IdleRequest
  <2>8. LockHasHolder'
    BY <1>1, <2>3, <2>6 DEF LockHasHolder, Apart, At, Excused
  <2>9. Served' = Served /\ Served \in Places
    BY <1>1, ServedTyped DEF Served, Kubeconfig
  <2>10. KeepsWhatWasMade'
    <3>1. CASE req[w].place # Served \/ hits # meant
      BY <2>3, <3>1 DEF KeepsWhatWasMade, Excused
    <3>2. CASE req[w].place = Served /\ hits = meant
      BY <2>3, <2>5, <2>9, <3>2 DEF KeepsWhatWasMade, Excused
    <3> QED
      BY <3>1, <3>2
  <2>11. LabelHasEnvironment'
    <3>1. CASE req[w].place # Served
      BY <2>3, <3>1 DEF LabelHasEnvironment, Excused
    <3>2. CASE req[w].place = Served
      BY <1>1, <2>3, <2>5, <2>9, <3>2 DEF LabelHasEnvironment, Excused
    <3> QED
      BY <3>1, <3>2
  <2>12. ASSUME NEW x \in Workers \ {w} PROVE MovesAll(x)' /\ NamesEnv(x)'
    <3>1. RequestInv(x) /\ req'[x] = req[x] /\ req[x].place \in Places
      BY <2>6, ReqTyped DEF Apart
    <3>2. MovesAll(x)'
      BY <2>3, <3>1 DEF RequestInv, MovesAll, At, Excused
    <3>3. NamesEnv(x)'
      BY <1>1, <2>3, <2>5, <3>1 DEF RequestInv, NamesEnv, At, Excused
    <3> QED
      BY <3>2, <3>3
  <2> QED
    BY <1>1, <2>3, <2>5, <2>6, <2>7, <2>8, <2>10, <2>11, <2>12, SteadyStep
<1> QED
  BY <1>5, <1>6

-----------------------------------------------------------------------------
(* Moves.                                                                  *)
Halted == Excused({"elsewhere", "unlocked", "repointed", "leftover"})

LEMMA LockKeeps ==
    ASSUME ServiceInv, NEW w \in Workers, Lock(w)
    PROVE  ServiceInv'
<1> USE Typed, FleetAssumption DEF ServiceInv, FleetInv
<1>1. /\ req[w].at = "lock" /\ Carries(w) /\ ToRegistered(w)
      /\ UNCHANGED <<envs, regs, objs, cache, served, owed>>
  BY DEF Lock, At, RequestInv
<1>2. org' \in [at : Nat, locked : BOOLEAN] /\ org'.at = org.at /\ org'.locked
  BY DEF Lock
<1>3. Goto(w, "copy") /\ "copy" \in Steps
  BY DEF Lock, Steps
<1>4. Apart(w) /\ req'[w].at = "copy" /\ req'[w].op = req[w].op /\ req'[w].pod = req[w].pod
      /\ req'[w].row = req[w].row /\ req'[w].dest = req[w].dest
      /\ req'[w].place = req[w].place /\ req'[w].name = req[w].name
      /\ req'[w].kind = req[w].kind /\ req'[w].env = req[w].env
  BY <1>3, GotoIs DEF Apart
<1>5. /\ excuse \subseteq excuse' /\ excuse' \subseteq Windows
      /\ req[w].place # Served => "elsewhere" \in excuse'
      /\ org.locked => "unlocked" \in excuse'
  BY DEF Lock, Record, Hit, Windows
<1>6. Served' = Served
  BY <1>1, <1>2 DEF Served, Kubeconfig
<1>7. LockHasHolder'
  BY <1>4 DEF LockHasHolder
<1>8. KeepsWhatWasMade' /\ LabelHasEnvironment'
  BY <1>1, <1>5, <1>6 DEF KeepsWhatWasMade, LabelHasEnvironment, Excused
<1>9. ASSUME NEW x \in Workers, req[x].at \in {"copy", "flip"} PROVE Halted'
  <2>1. Halted \/ org.locked
    BY <1>9 DEF RequestInv, MovesAll, Halted
  <2> QED
    BY <1>5, <2>1 DEF Halted, Excused
<1>10. MovesAll(w)'
  <2>1. CASE Halted' \/ req[w].place # Served
    BY <1>5, <2>1 DEF MovesAll, Halted, Excused
  <2>2. CASE ~Halted' /\ req[w].place = Served
    <3>1. \A x \in Workers : req'[x].at \in {"copy", "flip"} => x = w
      BY <1>4, <1>9, <2>2 DEF Apart
    <3> QED
      BY <1>2, <1>4, <1>6, <2>2, <3>1 DEF MovesAll, At
  <2> QED
    BY <2>1, <2>2
<1>11. ToRegistered(w)'
  BY <1>1, <1>4, <1>5 DEF ToRegistered, Registered, Carries, Excused
<1>12. RequestInv(w)'
  BY <1>1, <1>4, <1>10, <1>11 DEF RequestInv, NewRow, Carries, NamesEnv, At
<1>13. ASSUME NEW x \in Workers \ {w} PROVE MovesAll(x)' /\ NamesEnv(x)'
  <2>1. RequestInv(x) /\ req'[x] = req[x]
    BY <1>4 DEF Apart
  <2>2. MovesAll(x)'
    BY <1>9, <2>1 DEF MovesAll, Halted
  <2>3. NamesEnv(x)'
    BY <1>1, <1>5, <2>1 DEF RequestInv, NamesEnv, At, Excused
  <2> QED
    BY <2>2, <2>3
<1>14. CacheGrows
  BY <1>1 DEF CacheGrows
<1> QED
  BY <1>1, <1>2, <1>4, <1>5, <1>7, <1>8, <1>12, <1>13, <1>14, SteadyStep

LEMMA CopyKeeps ==
    ASSUME ServiceInv, NEW w \in Workers, Copy(w)
    PROVE  ServiceInv'
<1> USE Typed, FleetAssumption DEF ServiceInv, FleetInv
<1>1. /\ req[w].at = "copy" /\ Carries(w) /\ ToRegistered(w) /\ MovesAll(w)
      /\ req[w].place \in Places /\ req[w].dest \in Places
      /\ UNCHANGED <<envs, regs, org, cache, served, owed>>
  BY ReqTyped DEF Copy, At, RequestInv
<1>2. PICK new \in SUBSET objs[req[w].place] : new = Missing(req[w].place, req[w].dest)
  BY DEF Missing
<1>3. /\ objs' \in [Places -> SUBSET Obj]
      /\ objs'[req[w].dest] = objs[req[w].dest] \cup new
      /\ \A p \in Places \ {req[w].dest} : objs'[p] = objs[p]
  BY <1>1, <1>2 DEF Copy
<1>4. req[w].place = req[w].dest => new = {}
  BY <1>2 DEF Missing, Same
<1>5. Goto(w, "flip") /\ "flip" \in Steps
  BY DEF Copy, Steps
<1>6. Apart(w) /\ req'[w].at = "flip" /\ req'[w].op = req[w].op /\ req'[w].pod = req[w].pod
      /\ req'[w].row = req[w].row /\ req'[w].dest = req[w].dest
      /\ req'[w].place = req[w].place /\ req'[w].name = req[w].name
      /\ req'[w].kind = req[w].kind /\ req'[w].env = req[w].env
  BY <1>5, GotoIs DEF Apart
<1>7. /\ excuse \subseteq excuse' /\ excuse' \subseteq Windows
      /\ objs'[req[w].dest] # objs[req[w].place] => "leftover" \in excuse'
      /\ (\E o \in new : Unused(o.env)) => "late" \in excuse'
  BY <1>2 DEF Copy, Record, Hit, Windows
<1>8. Served' = Served /\ Served \in Places
  BY <1>1, ServedTyped DEF Served, Kubeconfig
<1>9. LockHasHolder'
  BY <1>6 DEF LockHasHolder
<1>10. \A p \in Places : objs[p] \subseteq objs'[p]
  BY <1>3
<1>11. KeepsWhatWasMade'
  BY <1>1, <1>7, <1>8, <1>10 DEF KeepsWhatWasMade, Excused
<1>12. Halted => Halted'
  BY <1>7 DEF Halted, Excused
<1>13. LabelHasEnvironment'
  <2>1. CASE Halted'
    BY <2>1 DEF LabelHasEnvironment, Halted, Excused
  <2>2. CASE ~Halted'
    <3>1. req[w].place = Served
      BY <1>1, <1>12, <2>2 DEF MovesAll, Halted
    <3>2. objs'[Served] = objs[Served]
      BY <1>3, <1>4, <1>8, <3>1
    <3> QED
      BY <1>1, <1>7, <1>8, <3>2 DEF LabelHasEnvironment, Excused
  <2> QED
    BY <2>1, <2>2
<1>14. MovesAll(w)'
  <2>1. CASE Halted'
    BY <2>1 DEF MovesAll, Halted
  <2>2. CASE ~Halted'
    <3>1. /\ org.locked /\ req[w].place = Served
          /\ \A x \in Workers : req[x].at \in {"copy", "flip"} => x = w
      BY <1>1, <1>12, <2>2 DEF MovesAll, Halted
    <3>2. objs'[req[w].dest] = objs[req[w].place]
      BY <1>7, <2>2 DEF Halted, Excused
    <3>3. objs'[req[w].place] = objs[req[w].place]
      BY <1>1, <1>3, <3>2
    <3> QED
      BY <1>1, <1>6, <1>8, <3>1, <3>2, <3>3 DEF MovesAll, Apart
  <2> QED
    BY <2>1, <2>2
<1>15. ToRegistered(w)'
  BY <1>1, <1>6, <1>7 DEF ToRegistered, Registered, Carries, Excused
<1>16. RequestInv(w)'
  BY <1>1, <1>6, <1>14, <1>15 DEF RequestInv, NewRow, Carries, NamesEnv, At
<1>17. ASSUME NEW x \in Workers \ {w} PROVE MovesAll(x)' /\ NamesEnv(x)'
  <2>1. RequestInv(x) /\ req'[x] = req[x] /\ req[x].place \in Places
    BY <1>6, ReqTyped DEF Apart
  <2>2. MovesAll(x)'
    <3>1. req[x].at \in {"copy", "flip"} => Halted
      BY <1>1, <2>1 DEF RequestInv, MovesAll, Halted
    <3> QED
      BY <1>12, <2>1, <3>1 DEF MovesAll, Halted
  <2>3. NamesEnv(x)'
    <3>1. At(x, "create")' => \/ req'[x].env = NoEnv \/ envs'[req'[x].env] # 0
                              \/ Excused({"late"})'
      BY <1>1, <1>7, <2>1 DEF RequestInv, NamesEnv, At, Excused
    <3>2. At(x, "deleteEnv") => (\A o \in new : o.env # req[x].env) \/ "late" \in excuse'
      BY <1>7 DEF Unused
    <3>3. At(x, "deleteEnv")' => \/ \A o \in objs'[req'[x].place] : o.env # req'[x].env
                                 \/ Excused({"late"})'
      BY <1>3, <1>7, <2>1, <3>2 DEF RequestInv, NamesEnv, At, Excused
    <3> QED
      BY <3>1, <3>3 DEF NamesEnv
  <2> QED
    BY <2>2, <2>3
<1>18. CacheGrows
  BY <1>1 DEF CacheGrows
<1> QED
  BY <1>1, <1>3, <1>6, <1>7, <1>9, <1>11, <1>13, <1>16, <1>17, <1>18, SteadyStep

(* The step of a request that fails, or a move that leaves the row of its  *)
(* organization alone.                                                     *)
LEMMA GiveUpKeeps ==
    ASSUME ServiceInv, NEW w \in Workers, End(w), req[w].at # "invalidate",
           UNCHANGED <<envs, regs, objs, cache, served, owed>>,
           org' = org \/ (req[w].at = "copy" /\ org' = [org EXCEPT !.locked = FALSE]),
           excuse \subseteq excuse', excuse' \subseteq Windows,
           req[w].at \in {"copy", "flip"} =>
               ~org'.locked \/ Excused({"lockLost", "removed"})'
    PROVE  ServiceInv'
<1> USE Typed, FleetAssumption DEF ServiceInv, FleetInv
<1>0. org' \in [at : Nat, locked : BOOLEAN] /\ org'.at = org.at /\ (org'.locked => org.locked)
  OBVIOUS
<1>1. Apart(w) /\ req'[w] = Idle /\ CacheGrows
  BY EndIs DEF Apart, CacheGrows
<1>2. RequestInv(w)'
  BY <1>1, IdleRequest
<1>3. Served' = Served
  BY <1>0 DEF Served, Kubeconfig
<1>4. LockHasHolder'
  BY <1>0, <1>1 DEF LockHasHolder, Apart, Excused
<1>5. KeepsWhatWasMade' /\ LabelHasEnvironment'
  BY <1>3 DEF KeepsWhatWasMade, LabelHasEnvironment, Excused
<1>6. ASSUME NEW x \in Workers \ {w} PROVE MovesAll(x)' /\ NamesEnv(x)'
  <2>1. RequestInv(x) /\ req'[x] = req[x]
    BY <1>1 DEF Apart
  <2>2. NamesEnv(x)'
    BY <2>1 DEF RequestInv, NamesEnv, At, Excused
  <2>3. MovesAll(x)'
    <3>1. SUFFICES ASSUME req[x].at \in {"copy", "flip"}, ~Halted PROVE MovesAll(x)'
      BY <2>1 DEF RequestInv, MovesAll, Halted, At, Excused
    <3>2. /\ org.locked /\ req[x].place = Served
          /\ \A y \in Workers : req[y].at \in {"copy", "flip"} => y = x
          /\ At(x, "flip") => objs[req[x].dest] = objs[req[x].place]
      BY <2>1, <3>1 DEF RequestInv, MovesAll, Halted
    <3>3. req[w].at \notin {"copy", "flip"}
      BY <3>2
    <3>4. org' = org
      BY <3>3
    <3> QED
      BY <1>1, <1>3, <2>1, <3>2, <3>4 DEF MovesAll, At, Apart, Idle
  <2> QED
    BY <2>2, <2>3
<1> QED
  BY <1>0, <1>1, <1>2, <1>4, <1>5, <1>6, SteadyStep

LEMMA FlipKeeps ==
    ASSUME ServiceInv, NEW w \in Workers, Flip(w)
    PROVE  ServiceInv'
<1> USE Typed, FleetAssumption DEF ServiceInv, FleetInv
<1>1. /\ req[w].at = "flip" /\ req[w].op = "switch" /\ End(w) /\ RequestInv(w)
      /\ req[w].row \in Nat /\ UNCHANGED <<envs, regs, objs, cache, served, owed>>
  BY ReqTyped DEF Flip, At, RequestInv, Carries
<1>2. /\ excuse \subseteq excuse' /\ excuse' \subseteq Windows
      /\ req[w].row # 0 /\ Registered(req[w].row) /\ req[w].dest # Kubeconfig(req[w].row)
         => "elsewhere" \in excuse'
  BY DEF Flip, Record, Hit, Windows
<1>3. CASE ~(req[w].row = 0 \/ Registered(req[w].row))
  <2>1. org' = org
    BY <1>3 DEF Flip
  <2>2. Excused({"removed"})
    BY <1>1, <1>3 DEF RequestInv, ToRegistered
  <2>3. Excused({"lockLost", "removed"})'
    BY <1>2, <2>2 DEF Excused
  <2> QED
    BY <1>1, <1>2, <2>1, <2>3, GiveUpKeeps
<1>4. CASE req[w].row = 0 \/ Registered(req[w].row)
  <2>1. org' = [at |-> req[w].row, locked |-> FALSE]
    BY <1>4 DEF Flip
  <2>2. org' \in [at : Nat, locked : BOOLEAN] /\ org'.at = req[w].row /\ ~org'.locked
    BY <1>1, <2>1
  <2>3. /\ req'[w] = Idle /\ req' \in [Workers -> Reqs]
        /\ \A x \in Workers \ {w} : req'[x] = req[x]
    BY <1>1, EndIs
  <2>4. TypeOK'
    BY <1>1, <1>2, <2>2, <2>3, MadeTyped
  <2>5. RowsNumbered'
    BY <1>1 DEF RowsNumbered
  <2>6. ActiveRegistered'
    BY <1>1, <1>4, <2>2 DEF ActiveRegistered, Registered
  <2>7. HandleFresh'
    <3>1. ASSUME NEW n \in Own PROVE FreshAt(n)'
      BY <1>1, <1>2, <2>3, FreshIs DEF FreshAt, HandlesOf, Dropping, At, Excused
    <3> QED
      BY <3>1, FreshWas
  <2>8. LockHasHolder'
    BY <2>2 DEF LockHasHolder
  <2>9. Halted' \/ objs'[Served'] = objs[Served]
    <3>1. SUFFICES ASSUME ~Halted' PROVE objs'[Served'] = objs[Served]
      OBVIOUS
    <3>2. ~Halted
      BY <1>2, <3>1 DEF Halted, Excused
    <3>3. objs[req[w].dest] = objs[req[w].place] /\ req[w].place = Served
      BY <1>1, <3>2 DEF RequestInv, MovesAll, Halted, At
    <3>4. CASE req[w].row = 0
      <4>1. req[w].dest = Home
        BY <1>1, <3>4 DEF RequestInv, ToRegistered
      <4> QED
        BY <1>1, <2>2, <3>3, <3>4, <4>1 DEF Served
    <3>5. CASE req[w].row # 0 /\ Registered(req[w].row)
      <4>1. PICK n \in Own : regs[n].id = req[w].row
        BY <3>5 DEF Registered
      <4>2. Kubeconfig(req[w].row) = regs[n].kc
        BY <3>5, <4>1, KubeconfigIs
      <4>3. req[w].dest = regs[n].kc
        BY <1>2, <3>1, <3>5, <4>2 DEF Halted, Excused
      <4>4. Served' = regs'[n].kc
        BY <1>1, <2>2, <2>5, <3>5, <4>1, ServedWas
      <4> QED
        BY <1>1, <3>3, <4>3, <4>4
    <3> QED
      BY <1>4, <3>4, <3>5
  <2>10. KeepsWhatWasMade' /\ LabelHasEnvironment'
    <3>1. CASE Halted'
      BY <3>1 DEF KeepsWhatWasMade, LabelHasEnvironment, Halted, Excused
    <3>2. CASE objs'[Served'] = objs[Served]
      BY <1>1, <1>2, <3>2 DEF KeepsWhatWasMade, LabelHasEnvironment, Excused
    <3> QED
      BY <2>9, <3>1, <3>2
  <2>11. ASSUME NEW x \in Workers \ {w} PROVE RequestInv(x)'
    <3>1. RequestInv(x) /\ req'[x] = req[x]
      BY <2>3
    <3>2. NewRow(x)'
      BY <1>1, <2>3, <3>1, IdleIs DEF RequestInv, NewRow, At
    <3>3. Carries(x)'
      BY <3>1 DEF RequestInv, Carries, At
    <3>4. ToRegistered(x)' /\ NamesEnv(x)'
      BY <1>1, <1>2, <3>1 DEF RequestInv, ToRegistered, NamesEnv, At, Registered, Excused
    <3>5. MovesAll(x)'
      <4>1. req[x].at \in {"copy", "flip"} => Halted
        BY <1>1, <3>1 DEF RequestInv, MovesAll, Halted
      <4> QED
        BY <1>2, <3>1, <4>1 DEF MovesAll, Halted, Excused
    <3> QED
      BY <3>2, <3>3, <3>4, <3>5 DEF RequestInv
  <2>12. RequestInv(w)'
    BY <2>3, IdleRequest
  <2> QED
    BY <2>4, <2>5, <2>6, <2>7, <2>8, <2>10, <2>11, <2>12
<1> QED
  BY <1>3, <1>4

-----------------------------------------------------------------------------
(* Registrations and clients.                                              *)

(* A step of one request on a registration, or on the clients of a pod.    *)
LEMMA RowsStep ==
    ASSUME ServiceInv, NEW w \in Workers, Apart(w),
           UNCHANGED <<envs, org, objs, served, owed>>,
           regs' \in [Own -> RegRows], cache' \in [Pods -> SUBSET Handles],
           excuse \subseteq excuse', excuse' \subseteq Windows,
           req[w].at \notin {"copy", "flip"}, req'[w].at \notin {"copy", "flip"},
           RowsNumbered', HandleFresh', ActiveRegistered',
           Served' = Served \/ Excused({"repointed"})',
           RequestInv(w)', \A x \in Workers \ {w} : NewRow(x)' /\ ToRegistered(x)'
    PROVE  ServiceInv'
<1> USE Typed, FleetAssumption DEF ServiceInv, FleetInv, Apart
<1>1. TypeOK'
  BY MadeTyped
<1>2. LockHasHolder'
  BY DEF LockHasHolder, At, Excused
<1>3. KeepsWhatWasMade' /\ LabelHasEnvironment'
  BY DEF KeepsWhatWasMade, LabelHasEnvironment, Excused
<1>4. ASSUME NEW x \in Workers \ {w} PROVE RequestInv(x)'
  <2>1. RequestInv(x) /\ req'[x] = req[x]
    OBVIOUS
  <2>2. Carries(x)' /\ NamesEnv(x)'
    BY <2>1 DEF RequestInv, Carries, NamesEnv, At, Excused
  <2>3. MovesAll(x)'
    <3>1. CASE Excused({"repointed"})'
      BY <3>1 DEF MovesAll, Excused
    <3>2. CASE Served' = Served
      BY <2>1, <3>2 DEF RequestInv, MovesAll, At, Excused
    <3> QED
      BY <3>1, <3>2
  <2> QED
    BY <2>2, <2>3 DEF RequestInv
<1> QED
  BY <1>1, <1>2, <1>3, <1>4

(* A request on a registration ends, or goes on to the move.               *)
LEMMA OnwardIs ==
    ASSUME ServiceInv, NEW w \in Workers, req[w].at \in {"insertReg", "invalidate"},
           Onward(w), \E n \in Own : regs'[n].id = req[w].row
    PROVE  Apart(w) /\ req'[w].at \in {"idle", "client"} /\ RequestInv(w)'
<1> USE Typed, FleetAssumption DEF ServiceInv, FleetInv
<1>1. req[w].pod \in Pods /\ req[w].row \in Nat
  BY ReqTyped DEF RequestInv, Carries, At
<1>2. CASE ~(req[w].op = "switch" /\ req[w].go)
  <2>1. End(w)
    BY <1>2 DEF Onward, End
  <2> QED
    BY <2>1, EndIs, IdleIs, IdleRequest DEF Apart
<1>3. CASE req[w].op = "switch" /\ req[w].go
  <2>1. PICK q : q = [Idle EXCEPT !.op = "switch", !.at = "client", !.row = req[w].row]
    OBVIOUS
  <2>2. q.op = "switch" /\ q.at = "client" /\ q.row = req[w].row
    BY <2>1 DEF Idle
  <2>3. q \in Reqs
    BY <1>1, <2>1, IdleIs DEF Reqs, Ops, Steps
  <2>4. PICK r : r = [q EXCEPT !.pod = req[w].pod]
    OBVIOUS
  <2>5. r \in Reqs /\ r.op = "switch" /\ r.at = "client" /\ r.row = req[w].row
        /\ r.pod = req[w].pod
    BY <1>1, <2>2, <2>3, <2>4 DEF Reqs
  <2>6. req' = [req EXCEPT ![w] = r]
    BY <1>3, <2>1, <2>4 DEF Onward, Moving
  <2>7. Apart(w) /\ req'[w] = r
    BY <2>5, <2>6 DEF Apart
  <2>8. RequestInv(w)'
    BY <1>1, <2>5, <2>7
    DEF RequestInv, NewRow, Carries, ToRegistered, Registered, MovesAll, NamesEnv, At
  <2> QED
    BY <2>5, <2>7, <2>8
<1> QED
  BY <1>2, <1>3

LEMMA InsertRegKeeps ==
    ASSUME ServiceInv, NEW w \in Workers, InsertReg(w)
    PROVE  ServiceInv'
<1> USE Typed, FleetAssumption DEF ServiceInv, FleetInv
<1>1. /\ req[w].at = "insertReg" /\ req[w].own \in Own /\ req[w].pod \in Pods
      /\ req[w].row \in Nat /\ req[w].kc \in Places /\ NewRow(w)
      /\ UNCHANGED <<envs, org, objs, cache, served, owed, excuse>>
  BY ReqTyped DEF InsertReg, At, RequestInv, Carries
<1>2. CASE regs[req[w].own].id # 0
  BY <1>1, <1>2, QuietEnd DEF InsertReg
<1>3. CASE regs[req[w].own].id = 0
  <2>1. /\ regs' = [regs EXCEPT ![req[w].own] =
                       [id |-> req[w].row, kc |-> req[w].kc, by |-> req[w].pod]]
        /\ Onward(w)
    BY <1>3 DEF InsertReg
  <2>2. PICK row : row = [id |-> req[w].row, kc |-> req[w].kc, by |-> req[w].pod]
    OBVIOUS
  <2>3. row \in RegRows /\ row.id = req[w].row /\ row.kc = req[w].kc /\ row.by = req[w].pod
    BY <1>1, <2>2 DEF RegRows
  <2>4. /\ regs' \in [Own -> RegRows] /\ regs'[req[w].own] = row
        /\ \A n \in Own \ {req[w].own} : regs'[n] = regs[n]
    BY <1>1, <2>1, <2>2, <2>3
  <2>5. /\ req[w].row \in 1..served /\ \A n \in Own : regs[n].id # req[w].row
        /\ \A p \in Pods : \A h \in cache[p] : h.id # req[w].row
        /\ \A x \in Workers : At(x, "insertReg") /\ req[x].row = req[w].row => x = w
    BY <1>1 DEF NewRow, At
  <2>6. \E n \in Own : regs'[n].id = req[w].row
    BY <1>1, <2>3, <2>4
  <2>7. \A id : id # 0 /\ Registered(id) => Registered(id)'
    BY <1>3, <2>4 DEF Registered
  <2>8. Apart(w) /\ req'[w].at \in {"idle", "client"} /\ RequestInv(w)'
    BY <1>1, <2>1, <2>6, OnwardIs
  <2>9. RowsNumbered'
    BY <1>1, <2>3, <2>4, <2>5 DEF RowsNumbered
  <2>10. HandleFresh'
    <3>1. ASSUME NEW n \in Own \ {req[w].own} PROVE FreshAt(n)'
      BY <1>1, <2>4, <2>8, FreshIs DEF FreshAt, HandlesOf, Dropping, At, Excused, Apart
    <3>2. ASSUME NEW n \in Own, n = req[w].own PROVE FreshAt(n)'
      BY <1>1, <2>3, <2>4, <2>5, <3>2 DEF FreshAt, HandlesOf
    <3> QED
      BY <3>1, <3>2, FreshWas
  <2>11. ActiveRegistered'
    BY <1>1, <2>7 DEF ActiveRegistered
  <2>12. Served' = Served
    <3>1. CASE org.at = 0
      BY <1>1, <3>1 DEF Served
    <3>2. CASE org.at # 0
      <4>1. PICK n \in Own : regs[n].id = org.at
        BY <3>2 DEF ActiveRegistered, Registered
      <4>2. regs'[n] = regs[n]
        BY <1>3, <2>4, <3>2, <4>1
      <4> QED
        BY <1>1, <2>9, <3>2, <4>1, <4>2, ServedIs, ServedWas
    <3> QED
      BY <3>1, <3>2
  <2>13. ASSUME NEW x \in Workers \ {w} PROVE NewRow(x)' /\ ToRegistered(x)'
    <3>1. RequestInv(x) /\ req'[x] = req[x]
      BY <2>8 DEF Apart
    <3>2. NewRow(x)'
      BY <1>1, <2>3, <2>4, <2>5, <2>8, <3>1 DEF RequestInv, NewRow, At, Apart
    <3>3. ToRegistered(x)'
      BY <1>1, <2>7, <3>1 DEF RequestInv, ToRegistered, Excused
    <3> QED
      BY <3>2, <3>3
  <2> QED
    BY <1>1, <2>4, <2>8, <2>9, <2>10, <2>11, <2>12, <2>13, RowsStep
<1> QED
  BY <1>2, <1>3

(* A kubeconfig is stored, and the request invalidates the client of its   *)
(* pod next, or is told that the kubeconfig was not stored.                *)
LEMMA StoredKeeps ==
    ASSUME ServiceInv, NEW w \in Workers, req[w].at = "rotate", regs' = Stored(w),
           UNCHANGED <<envs, org, objs, cache, served, owed>>,
           excuse \subseteq excuse', excuse' \subseteq Windows,
           Repointed(w) \subseteq excuse', Apart(w), RequestInv(w)',
           req'[w].at \notin {"copy", "flip", "insertReg"},
           \/ Excused({"answerLost"})'
           \/ At(w, "invalidate")' /\ req'[w].row = req[w].row /\ req'[w].pod = req[w].pod
    PROVE  ServiceInv'
<1> USE Typed, FleetAssumption DEF ServiceInv, FleetInv
<1>1. /\ req[w].own \in Own /\ req[w].pod \in Pods /\ req[w].row \in Nat /\ req[w].kc \in Places
  BY ReqTyped DEF RequestInv, Carries, At
<1>2. PICK n \in Own : n = req[w].own
  BY <1>1
<1>3. \A m \in Own : regs[m] \in RegRows
  OBVIOUS
<1>4. /\ regs' \in [Own -> RegRows] /\ \A m \in Own : regs'[m].id = regs[m].id
      /\ \A m \in Own : \/ regs'[m] = regs[m]
                        \/ /\ m = n /\ regs[n].id = req[w].row
                           /\ regs'[n].kc = req[w].kc /\ regs'[n].by = req[w].pod
  <2>1. CASE regs[n].id # req[w].row
    BY <1>2, <2>1 DEF Stored
  <2>2. CASE regs[n].id = req[w].row
    <3>1. PICK row : row = [regs[n] EXCEPT !.kc = req[w].kc, !.by = req[w].pod]
      OBVIOUS
    <3>2. row \in RegRows /\ row.id = regs[n].id /\ row.kc = req[w].kc /\ row.by = req[w].pod
      BY <1>1, <1>3, <3>1 DEF RegRows
    <3>3. regs' = [regs EXCEPT ![n] = row]
      BY <1>2, <2>2, <3>1 DEF Stored
    <3> QED
      BY <2>2, <3>2, <3>3
  <2> QED
    BY <2>1, <2>2
<1>5. \A id : Registered(id)' <=> Registered(id)
  BY <1>4 DEF Registered
<1>6. RowsNumbered'
  BY <1>1, <1>4 DEF RowsNumbered
<1>7. ASSUME NEW m \in Own PROVE FreshAt(m)'
  <2>1. CASE Excused({"answerLost"})'
    BY <2>1 DEF FreshAt
  <2>2. CASE regs'[m] = regs[m]
    BY <2>2, FreshIs DEF FreshAt, HandlesOf, Dropping, At, Excused, Apart
  <2>3. CASE /\ m = n /\ regs[n].id = req[w].row /\ regs'[n].by = req[w].pod
             /\ At(w, "invalidate")' /\ req'[w].row = req[w].row /\ req'[w].pod = req[w].pod
    BY <1>4, <2>3 DEF FreshAt, Dropping, At
  <2> QED
    BY <1>4, <2>1, <2>2, <2>3
<1>8. HandleFresh'
  BY <1>7, FreshWas
<1>9. ActiveRegistered'
  BY <1>5 DEF ActiveRegistered
<1>10. Served' = Served \/ Excused({"repointed"})'
  <2>1. CASE org.at = 0
    BY <2>1 DEF Served
  <2>2. CASE org.at # 0
    <3>1. PICK m \in Own : regs[m].id = org.at
      BY <2>2 DEF ActiveRegistered, Registered
    <3>2. Served = regs[m].kc /\ Served' = regs'[m].kc
      BY <1>4, <1>6, <2>2, <3>1, ServedIs, ServedWas
    <3>3. regs'[m].kc = regs[m].kc \/ "repointed" \in excuse'
      BY <1>2, <1>4, <3>1 DEF Repointed, Hit
    <3> QED
      BY <3>2, <3>3 DEF Excused
  <2> QED
    BY <2>1, <2>2
<1>11. ASSUME NEW x \in Workers \ {w} PROVE NewRow(x)' /\ ToRegistered(x)'
  <2>1. RequestInv(x) /\ req'[x] = req[x]
    BY DEF Apart
  <2>2. NewRow(x)'
    BY <1>4, <2>1 DEF RequestInv, NewRow, At, Apart
  <2>3. ToRegistered(x)'
    BY <1>5, <2>1 DEF RequestInv, ToRegistered, Excused
  <2> QED
    BY <2>2, <2>3
<1> QED
  BY <1>4, <1>6, <1>8, <1>9, <1>10, <1>11, RowsStep

LEMMA RotateKeeps ==
    ASSUME ServiceInv, NEW w \in Workers, Rotate(w)
    PROVE  ServiceInv'
<1> USE Typed, FleetAssumption DEF ServiceInv, FleetInv
<1>1. /\ req[w].at = "rotate" /\ regs' = Stored(w) /\ Carries(w)
      /\ UNCHANGED <<envs, org, objs, cache, served, owed>>
  BY DEF Rotate, At, RequestInv
<1>2. /\ excuse \subseteq excuse' /\ excuse' \subseteq Windows /\ Repointed(w) \subseteq excuse'
  BY DEF Rotate, Record, Repointed, Hit, Windows
<1>3. Goto(w, "invalidate") /\ "invalidate" \in Steps
  BY DEF Rotate, Steps
<1>4. Apart(w) /\ req'[w].at = "invalidate" /\ req'[w].op = req[w].op /\ req'[w].pod = req[w].pod
      /\ req'[w].row = req[w].row /\ req'[w].own = req[w].own /\ req'[w].name = req[w].name
      /\ req'[w].kind = req[w].kind /\ req'[w].env = req[w].env
  BY <1>3, GotoIs DEF Apart
<1>5. RequestInv(w)'
  BY <1>1, <1>4 DEF RequestInv, NewRow, Carries, ToRegistered, MovesAll, NamesEnv, At
<1>6. At(w, "invalidate")' /\ req'[w].row = req[w].row /\ req'[w].pod = req[w].pod
  BY <1>4 DEF At
<1> QED
  BY <1>1, <1>2, <1>4, <1>5, <1>6, StoredKeeps

LEMMA InvalidateKeeps ==
    ASSUME ServiceInv, NEW w \in Workers, Invalidate(w)
    PROVE  ServiceInv'
<1> USE Typed, FleetAssumption DEF ServiceInv, FleetInv
<1>1. /\ req[w].at = "invalidate" /\ req[w].own \in Own /\ req[w].pod \in Pods
      /\ UNCHANGED <<envs, regs, org, objs, served, owed, excuse>>
  BY DEF Invalidate, At, RequestInv, Carries
<1>2. /\ cache' \in [Pods -> SUBSET Handles]
      /\ \A p \in Pods : cache'[p] \subseteq cache[p]
      /\ \A h \in cache'[req[w].pod] : h.id # req[w].row
  BY <1>1 DEF Invalidate
<1>3. Apart(w) /\ req'[w].at \in {"idle", "client"} /\ RequestInv(w)'
  <2>1. CASE regs[req[w].own].id = req[w].row
    BY <1>1, <2>1, OnwardIs DEF Invalidate
  <2>2. CASE regs[req[w].own].id # req[w].row
    <3>1. End(w)
      BY <2>2 DEF Invalidate
    <3> QED
      BY <3>1, EndIs, IdleIs, IdleRequest DEF Apart
  <2> QED
    BY <2>1, <2>2
<1>4. RowsNumbered'
  BY <1>1, <1>2 DEF RowsNumbered
<1>5. ASSUME NEW n \in Own PROVE FreshAt(n)'
  <2>1. CASE regs[n].id = 0 \/ Excused({"answerLost"})
    BY <1>1, <2>1 DEF FreshAt, Excused
  <2>2. CASE regs[n].id # 0 /\ HandlesOf(n)
    BY <1>1, <1>2, <2>2 DEF FreshAt, HandlesOf, RowsNumbered
  <2>3. CASE regs[n].id # 0 /\ Dropping(n)
    <3>1. PICK x \in Workers : At(x, "invalidate") /\ req[x].row = regs[n].id
                               /\ req[x].pod = regs[n].by
      BY <2>3 DEF Dropping
    <3>2. CASE x = w
      BY <1>1, <1>2, <3>1, <3>2 DEF FreshAt, HandlesOf
    <3>3. CASE x # w
      BY <1>1, <1>3, <3>1, <3>3 DEF FreshAt, Dropping, At, Apart
    <3> QED
      BY <3>2, <3>3
  <2> QED
    BY <2>1, <2>2, <2>3, FreshIs DEF FreshAt
<1>6. HandleFresh'
  BY <1>5, FreshWas
<1>7. ActiveRegistered' /\ Served' = Served
  BY <1>1 DEF ActiveRegistered, Registered, Served, Kubeconfig
<1>8. ASSUME NEW x \in Workers \ {w} PROVE NewRow(x)' /\ ToRegistered(x)'
  <2>1. RequestInv(x) /\ req'[x] = req[x]
    BY <1>3 DEF Apart
  <2>2. NewRow(x)'
    BY <1>1, <1>2, <1>3, <2>1 DEF RequestInv, NewRow, At, Apart
  <2>3. ToRegistered(x)'
    BY <1>1, <2>1 DEF RequestInv, ToRegistered, Registered, Excused
  <2> QED
    BY <2>2, <2>3
<1> QED
  BY <1>1, <1>2, <1>3, <1>4, <1>6, <1>7, <1>8, RowsStep

LEMMA DeleteRegKeeps ==
    ASSUME ServiceInv, NEW w \in Workers, DeleteReg(w)
    PROVE  ServiceInv'
<1> USE Typed, FleetAssumption DEF ServiceInv, FleetInv
<1>1. /\ req[w].at = "deleteReg" /\ req[w].own \in Own /\ req[w].pod \in Pods /\ Carries(w)
      /\ UNCHANGED <<envs, org, objs, cache, served, owed>>
  BY DEF DeleteReg, At, RequestInv, Carries
<1>2. CASE org.at = req[w].row
  BY <1>1, <1>2, QuietEnd DEF DeleteReg
<1>3. CASE org.at # req[w].row
  <2>1. PICK n \in Own : n = req[w].own
    BY <1>1
  <2>2. /\ regs' = [regs EXCEPT ![n] = IF @.id = req[w].row THEN NoReg ELSE @]
        /\ Goto(w, "invalidate") /\ "invalidate" \in Steps
    BY <1>3, <2>1 DEF DeleteReg, Steps
  <2>3. NoReg \in RegRows /\ NoReg.id = 0
    BY DEF NoReg, RegRows, Places
  <2>4. /\ regs' \in [Own -> RegRows]
        /\ \A m \in Own : \/ regs'[m] = regs[m]
                          \/ regs[m].id = req[w].row /\ regs'[m].id = 0
    BY <2>2, <2>3
  <2>5. /\ excuse \subseteq excuse' /\ excuse' \subseteq Windows
        /\ (\E m \in Workers : req[m].op = "switch" /\ req[m].row = req[w].row
                               /\ req[m].at # "idle") => "removed" \in excuse'
    BY <1>3 DEF DeleteReg, Record, Hit, Windows
  <2>6. Apart(w) /\ req'[w].at = "invalidate" /\ req'[w].op = req[w].op
        /\ req'[w].pod = req[w].pod /\ req'[w].own = req[w].own /\ req'[w].name = req[w].name
        /\ req'[w].kind = req[w].kind /\ req'[w].env = req[w].env
    BY <2>2, GotoIs DEF Apart
  <2>7. RequestInv(w)'
    BY <1>1, <2>6 DEF RequestInv, NewRow, Carries, ToRegistered, MovesAll, NamesEnv, At
  <2>8. RowsNumbered'
    BY <1>1, <2>4 DEF RowsNumbered
  <2>9. ASSUME NEW m \in Own PROVE FreshAt(m)'
    <3>1. CASE regs'[m].id = 0
      BY <3>1 DEF FreshAt
    <3>2. CASE regs'[m] = regs[m]
      BY <1>1, <2>5, <2>6, <3>2, FreshIs DEF FreshAt, HandlesOf, Dropping, At, Excused, Apart
    <3> QED
      BY <2>4, <3>1, <3>2
  <2>10. HandleFresh'
    BY <2>9, FreshWas
  <2>11. ActiveRegistered' /\ Served' = Served
    <3>1. CASE org.at = 0
      BY <1>1, <3>1 DEF ActiveRegistered, Served
    <3>2. CASE org.at # 0
      <4>1. PICK m \in Own : regs[m].id = org.at
        BY <3>2 DEF ActiveRegistered, Registered
      <4>2. regs'[m] = regs[m]
        BY <1>3, <2>4, <4>1
      <4> QED
        BY <1>1, <2>8, <3>2, <4>1, <4>2, ServedIs, ServedWas DEF ActiveRegistered, Registered
    <3> QED
      BY <3>1, <3>2
  <2>12. ASSUME NEW x \in Workers \ {w} PROVE NewRow(x)' /\ ToRegistered(x)'
    <3>1. RequestInv(x) /\ req'[x] = req[x]
      BY <2>6 DEF Apart
    <3>2. NewRow(x)'
      BY <1>1, <2>4, <2>6, <3>1 DEF RequestInv, NewRow, At, Apart
    <3>3. ToRegistered(x)'
      <4>1. CASE req[x].row = req[w].row
        BY <2>5, <3>1, <4>1 DEF RequestInv, ToRegistered, Excused
      <4>2. CASE req[x].row # req[w].row
        BY <2>4, <2>5, <3>1, <4>2 DEF RequestInv, ToRegistered, Registered, Excused
      <4> QED
        BY <4>1, <4>2
    <3> QED
      BY <3>2, <3>3
  <2> QED
    BY <1>1, <2>4, <2>5, <2>6, <2>7, <2>8, <2>10, <2>11, <2>12, RowsStep
<1> QED
  BY <1>2, <1>3

-----------------------------------------------------------------------------
(* Calls that fail, and pods that die.                                     *)
LEMMA FailKeeps ==
    ASSUME ServiceInv, NEW w \in Workers, Fail(w)
    PROVE  ServiceInv'
<1> USE Typed, FleetAssumption DEF ServiceInv, FleetInv
<1>1. /\ End(w) /\ req[w].at # "invalidate"
      /\ UNCHANGED <<envs, objs, cache, served, owed>>
      /\ org' = org \/ (req[w].at = "copy" /\ org' = [org EXCEPT !.locked = FALSE])
  BY DEF Fail, At
<1>2. CASE UNCHANGED regs /\ Record(Hit(At(w, "flip"), "lockLost"))
  <2>1. /\ excuse \subseteq excuse' /\ excuse' \subseteq Windows
        /\ req[w].at = "flip" => "lockLost" \in excuse'
    BY <1>2 DEF Record, Hit, Windows, At
  <2>2. req[w].at \in {"copy", "flip"} => ~org'.locked \/ Excused({"lockLost", "removed"})'
    BY <2>1 DEF Fail, At, Excused
  <2> QED
    BY <1>1, <1>2, <2>1, <2>2, GiveUpKeeps
<1>3. CASE /\ At(w, "rotate") /\ regs' = Stored(w)
           /\ Record(Repointed(w) \cup {"answerLost"})
  <2>1. /\ excuse \subseteq excuse' /\ excuse' \subseteq Windows /\ Repointed(w) \subseteq excuse'
        /\ Excused({"answerLost"})'
    BY <1>3 DEF Record, Repointed, Hit, Windows, Excused
  <2>2. req[w].at = "rotate" /\ org' = org
    BY <1>1, <1>3 DEF At
  <2>3. Apart(w) /\ req'[w] = Idle
    BY <1>1, EndIs DEF Apart
  <2>4. RequestInv(w)' /\ req'[w].at = "idle"
    BY <2>3, IdleIs, IdleRequest
  <2> QED
    BY <1>1, <1>3, <2>1, <2>2, <2>3, <2>4, StoredKeeps
<1> QED
  BY <1>2, <1>3 DEF Fail

LEMMA RestartKeeps ==
    ASSUME ServiceInv, NEW p \in Pods, Restart(p)
    PROVE  ServiceInv'
<1> USE Typed, FleetAssumption DEF ServiceInv, FleetInv
<1>1. UNCHANGED <<envs, regs, org, objs, served, owed>>
  BY DEF Restart
<1>2. /\ cache' \in [Pods -> SUBSET Handles] /\ cache'[p] = {}
      /\ \A q \in Pods : cache'[q] \subseteq cache[q]
      /\ \A q \in Pods \ {p} : cache'[q] = cache[q]
  BY DEF Restart
<1>3. /\ req' \in [Workers -> Reqs]
      /\ \A x \in Workers : \/ req[x].pod = p /\ req'[x] = Idle
                            \/ req[x].pod # p /\ req'[x] = req[x]
  BY IdleIs DEF Restart
<1>4. /\ excuse \subseteq excuse' /\ excuse' \subseteq Windows
      /\ \A x \in Workers : req[x].pod = p /\ req[x].at \in {"copy", "flip"}
                            => "lockLost" \in excuse'
  BY DEF Restart, Record, Hit, Windows
<1>5. TypeOK'
  BY <1>1, <1>2, <1>3, <1>4, MadeTyped
<1>6. RowsNumbered'
  BY <1>1, <1>2 DEF RowsNumbered
<1>7. ASSUME NEW n \in Own PROVE FreshAt(n)'
  <2>1. CASE regs[n].id = 0 \/ Excused({"answerLost"})
    BY <1>1, <1>4, <2>1 DEF FreshAt, Excused
  <2>2. CASE regs[n].id # 0 /\ (HandlesOf(n) \/ regs[n].by = p)
    BY <1>1, <1>2, <2>2 DEF FreshAt, HandlesOf, RowsNumbered
  <2>3. CASE regs[n].by # p /\ Dropping(n)
    BY <1>1, <1>3, <2>3 DEF FreshAt, Dropping, At
  <2> QED
    BY <2>1, <2>2, <2>3, FreshIs DEF FreshAt
<1>8. HandleFresh'
  BY <1>7, FreshWas
<1>9. ActiveRegistered' /\ Served' = Served
  BY <1>1 DEF ActiveRegistered, Registered, Served, Kubeconfig
<1>10. LockHasHolder'
  BY <1>1, <1>3, <1>4 DEF LockHasHolder, Excused
<1>11. KeepsWhatWasMade' /\ LabelHasEnvironment'
  BY <1>1, <1>4, <1>9 DEF KeepsWhatWasMade, LabelHasEnvironment, Excused
<1>12. ASSUME NEW x \in Workers PROVE RequestInv(x)'
  <2>1. CASE req'[x] = Idle
    BY <2>1, IdleRequest
  <2>2. CASE req'[x] = req[x]
    <3>1. RequestInv(x)
      OBVIOUS
    <3>2. NewRow(x)'
      BY <1>1, <1>2, <1>3, <2>2, <3>1, IdleIs DEF RequestInv, NewRow, At
    <3>3. Carries(x)'
      BY <2>2, <3>1 DEF RequestInv, Carries, At
    <3>4. ToRegistered(x)' /\ NamesEnv(x)'
      BY <1>1, <1>4, <2>2, <3>1 DEF RequestInv, ToRegistered, NamesEnv, At, Registered, Excused
    <3>5. MovesAll(x)'
      BY <1>1, <1>3, <1>4, <1>9, <2>2, <3>1, IdleIs DEF RequestInv, MovesAll, At, Excused
    <3> QED
      BY <3>2, <3>3, <3>4, <3>5 DEF RequestInv
  <2> QED
    BY <1>3, <2>1, <2>2
<1> QED
  BY <1>5, <1>6, <1>8, <1>9, <1>10, <1>11, <1>12

-----------------------------------------------------------------------------
(* Every state.                                                            *)
LEMMA InitService ==
    ASSUME Init
    PROVE  ServiceInv
<1> USE FleetAssumption
<1>1. PICK moved \in BOOLEAN, old \in {{}} \cup {{o} : o \in Olds} :
        /\ envs = [x \in Envs |-> IF x = Default \/ ~(moved \/ old = {}) THEN 1 ELSE 0]
        /\ \E n \in Own, k \in Kubeconfigs, p \in Pods :
              regs = IF moved
                     THEN [NoRegs EXCEPT ![n] = [id |-> 1, kc |-> k, by |-> p]] ELSE NoRegs
        /\ org = [at |-> IF moved THEN 1 ELSE 0, locked |-> FALSE]
        /\ objs = [p \in Places |-> IF p = Home THEN old ELSE {}]
        /\ owed = IF moved THEN {} ELSE {Asked(o) : o \in old}
  BY DEF Init
<1>2. PICK n \in Own, k \in Kubeconfigs, p \in Pods :
        regs = IF moved THEN [NoRegs EXCEPT ![n] = [id |-> 1, kc |-> k, by |-> p]] ELSE NoRegs
  BY <1>1
<1>3. /\ cache = [q \in Pods |-> {}] /\ req = [w \in Workers |-> Idle] /\ served = 1
      /\ excuse = {}
  BY DEF Init
<1>4. k \in Places /\ Home \in Places
  BY <1>2 DEF Places
<1>5. /\ old \subseteq Obj /\ \A o \in old : o.own
      /\ \A o \in old : o.env = NoEnv \/ o.env \in Extra
  BY DEF Olds, Obj, Kinds, Envs
<1>6. /\ regs \in [Own -> RegRows] /\ \A m \in Own : regs[m].id = 0 \/ (moved /\ m = n)
      /\ moved => regs[n].id = 1 /\ regs[n].kc = k /\ regs[n].by = p
  BY <1>2, <1>4 DEF NoRegs, NoReg, RegRows
<1>7. /\ org \in [at : Nat, locked : BOOLEAN] /\ ~org.locked
      /\ org.at = IF moved THEN 1 ELSE 0
  BY <1>1
<1>8. objs \in [Places -> SUBSET Obj] /\ objs[Home] = old /\ \A q \in Kubeconfigs : objs[q] = {}
  BY <1>1, <1>4, <1>5 DEF Places
<1>9. owed \subseteq Debts
  BY <1>1, <1>5 DEF Obj, Debts, Asked
<1>10. /\ envs \in [Envs -> Nat]
       /\ ~moved /\ old # {} => \A e \in Envs : envs[e] = 1
  BY <1>1
<1>11. TypeOK
  <2>1. cache \in [Pods -> SUBSET Handles] /\ req \in [Workers -> Reqs]
        /\ served \in 1..MaxRequests /\ excuse \subseteq Windows
    BY <1>3, IdleIs
  <2> QED
    BY <1>6, <1>7, <1>8, <1>9, <1>10, <2>1 DEF TypeOK, RegRows, Handles, Debts
<1>12. \A w \in Workers : req[w].at = "idle" /\ req[w].op = "idle"
  BY <1>3, IdleIs
<1>13. RowsNumbered
  BY <1>3, <1>6 DEF RowsNumbered
<1>14. ActiveRegistered
  BY <1>6, <1>7 DEF ActiveRegistered, Registered
<1>15. HandleFresh
  BY <1>3, <1>6, FreshIs DEF FreshAt, HandlesOf
<1>16. LockHasHolder
  BY <1>7 DEF LockHasHolder
<1>17. Served = IF moved THEN k ELSE Home
  <2>1. CASE moved
    BY <1>6, <1>7, <1>13, <2>1, ServedIs
  <2>2. CASE ~moved
    BY <1>7, <2>2 DEF Served
  <2> QED
    BY <2>1, <2>2
<1>18. KeepsWhatWasMade
  <2>1. CASE moved
    BY <1>1, <2>1 DEF KeepsWhatWasMade
  <2>2. CASE ~moved
    BY <1>1, <1>5, <1>8, <1>17, <2>2 DEF KeepsWhatWasMade
  <2> QED
    BY <2>1, <2>2
<1>19. LabelHasEnvironment
  BY <1>5, <1>8, <1>10, <1>17 DEF LabelHasEnvironment, Envs
<1>20. ASSUME NEW w \in Workers PROVE RequestInv(w)
  BY <1>12 DEF RequestInv, NewRow, Carries, ToRegistered, MovesAll, NamesEnv, At
<1> QED
  BY <1>11, <1>13, <1>14, <1>15, <1>16, <1>18, <1>19, <1>20 DEF ServiceInv, FleetInv

LEMMA StutterKeeps ==
    ASSUME ServiceInv, UNCHANGED vars
    PROVE  ServiceInv'
<1> USE DEF vars
<1>1. TypeOK'
  BY DEF ServiceInv, FleetInv, TypeOK
<1>2. ActiveRegistered' /\ HandleFresh' /\ LockHasHolder'
  BY DEF ServiceInv, FleetInv, ActiveRegistered, HandleFresh, LockHasHolder, Registered, Cached,
         At, Excused
<1>3. Served' = Served
  BY DEF Served, Kubeconfig
<1>4. RowsNumbered' /\ KeepsWhatWasMade' /\ LabelHasEnvironment'
  BY <1>3 DEF ServiceInv, RowsNumbered, KeepsWhatWasMade, LabelHasEnvironment, Excused
<1>5. ASSUME NEW w \in Workers PROVE RequestInv(w)'
  BY <1>3 DEF ServiceInv, RequestInv, NewRow, Carries, ToRegistered, MovesAll, NamesEnv, At,
              Registered, Excused
<1> QED
  BY <1>1, <1>2, <1>4, <1>5 DEF ServiceInv, FleetInv

LEMMA NextKeeps ==
    ASSUME ServiceInv, [Next]_vars
    PROVE  ServiceInv'
<1>1. ASSUME NEW w \in Workers, Proceed(w) PROVE ServiceInv'
  BY <1>1, InsertEnvKeeps, CheckInUseKeeps, DeleteEnvRowKeeps, ResolveKeeps, NameClusterKeeps,
     CreateKeeps, AddressKeeps, TouchKeeps, InsertRegKeeps, RotateKeeps, InvalidateKeeps,
     DeleteRegKeeps, DestinationKeeps, LockKeeps, CopyKeeps, FlipKeeps
  DEF Proceed
<1>2. ASSUME NEW w \in Workers, Handle(w) \/ Fail(w) \/ FailLookup(w) PROVE ServiceInv'
  BY <1>2, HandleKeeps, FailKeeps, FailLookupKeeps
<1>3. ASSUME NEW p \in Pods, Restart(p) PROVE ServiceInv'
  BY <1>3, RestartKeeps
<1> QED
  BY <1>1, <1>2, <1>3, StutterKeeps DEF Next

(* ServiceInv is inductive: rows, clients, the lock, the requests under way*)
(* and what a move copies fit together however requests interleave, fail   *)
(* or are cut short by the death of their pod.                             *)
THEOREM ServiceInvariant == Spec => []ServiceInv
<1>1. Init => ServiceInv
  BY InitService
<1>2. ServiceInv /\ [Next]_vars => ServiceInv'
  BY NextKeeps
<1> QED
  BY <1>1, <1>2, PTL DEF Spec

(* The organization is on a registered cluster, the pod that stored a      *)
(* kubeconfig last has no client of an older one, and a lock has a move    *)
(* that holds it (upsertOrgReconcilingCluster, DeleteReconcilingCluster,   *)
(* migrateOrganizationToTarget).                                           *)
THEOREM RowsAndClientsAgree == Spec => []FleetInv
<1>1. ServiceInv => FleetInv
  BY DEF ServiceInv
<1> QED
  BY <1>1, ServiceInvariant, PTL

(* What users made and nobody deleted by its name stays where the          *)
(* organization is served (resolveAddressedName, runOrganizationMigration).*)
THEOREM MadeIsKept == Spec => []KeepsWhatWasMade
<1>1. ServiceInv => KeepsWhatWasMade
  BY DEF ServiceInv
<1> QED
  BY <1>1, ServiceInvariant, PTL

(* No environment is deleted under its clusters (environmentInUse).        *)
THEOREM LabelsNameEnvironments == Spec => []LabelHasEnvironment
<1>1. ServiceInv => LabelHasEnvironment
  BY DEF ServiceInv
<1> QED
  BY <1>1, ServiceInvariant, PTL

-----------------------------------------------------------------------------
(* ResourceReconcile: types *)

Vers      == {None} \cup Versions
SpecsOf   == [EntryNames -> {"absent", "present", "delete"}]
PassesOf  == [at : Stages, spec : SpecsOf, files : [Keys -> Vers], todo : SUBSET Keys,
              orphans : SUBSET Keys, applied : [Keys -> Vers], changed : BOOLEAN]
Tally     == [edits : 0 .. MaxEdits, faults : 0 .. MaxFaults]
LiveAs    == {Nothing, Other} \cup (Keys \X Versions)

ResourceTypes ==
    /\ local \in BOOLEAN /\ strict \in BOOLEAN
    /\ entries \in SpecsOf /\ content \in [Keys -> Vers] /\ applied \in [Keys -> Vers]
    /\ live \in [Objects -> LiveAs] /\ release \in [Helms -> Vers] /\ pass \in PassesOf
    /\ loose \subseteq Objects /\ given \subseteq Keys /\ count \in Tally

LEMMA ResourceTyped == ResourceTypeOK <=> ResourceTypes
BY DEF ResourceTypeOK, ResourceTypes, PassesOf, SpecsOf, Vers, Tally, LiveAs

LEMMA KeysAre ==
    /\ DirOf \in [Keys -> Keys] /\ \A k \in Keys : DirOf[k] \in EntryNames
    /\ \A n \in EntryNames : n \in Keys /\ DirOf[n] = n
    /\ Helms \subseteq EntryNames /\ Dirs \subseteq EntryNames
    /\ Versions \subseteq Nat \ {0} /\ 1 \in Versions /\ None \in Vers /\ None \notin Versions /\ Versions \subseteq Vers
    /\ MaxEdits \in Nat /\ MaxFaults \in Nat
BY ResourceAssumption DEF EntryNames, Dirs, Versions, None, Vers

LEMMA MakesAre ==
    /\ \A k \in Keys, v \in Vers : /\ ObjectsOf(k, v) \subseteq Objects
                                   /\ v # None => ObjectsOf(k, v) = Makes[k][v]
                                   /\ v = None => ObjectsOf(k, v) = {}
    /\ \A k \in Keys, v \in Versions : Makes[k][v] \subseteq Objects
<1>1. \A k \in Keys, v \in Versions : Makes[k][v] \subseteq Objects
  BY ResourceAssumption
<1>2. ASSUME NEW k \in Keys, NEW v \in Vers
      PROVE  /\ v # None => ObjectsOf(k, v) = Makes[k][v] /\ v \in Versions
             /\ v = None => ObjectsOf(k, v) = {}
  BY DEF ObjectsOf, Vers
<1> QED
  BY <1>1, <1>2

LEMMA NoPassTyped ==
    /\ NoPass \in PassesOf /\ NoPass.at = "idle" /\ NoPass.todo = {} /\ NoPass.orphans = {}
<1>1. [n \in EntryNames |-> "absent"] \in SpecsOf /\ [k \in Keys |-> None] \in [Keys -> Vers]
  BY KeysAre DEF SpecsOf
<1> QED
  BY <1>1 DEF NoPass, PassesOf, Stages

LEMMA Tallied ==
    ASSUME count \in Tally PROVE (Fault => count' \in Tally) /\ (Edit => count' \in Tally)
BY KeysAre DEF Fault, Edit, Tally

LEMMA VersionTyped ==
    ASSUME ResourceTypes, GivenUp, InHand, NEW k \in Keys, Applying(k)
    PROVE  Version(k) \in Versions
<1>1. Version(k) \in Vers
  BY DEF Version, ResourceTypes, PassesOf
<1>2. Version(k) # None
  BY DEF Applying, Turn, InHand
<1> QED
  BY <1>1, <1>2 DEF Vers

LEMMA OwnedTyped ==
    ASSUME ResourceTypes, NEW k \in Keys
    PROVE  /\ Owned(k) \subseteq Objects
           /\ \A o \in Owned(k) : \E v \in Versions : o \in Makes[k][v]
<1>1. PICK v \in Vers : Owned(k) = ObjectsOf(k, v)
  <2>1. k \in Helms => release[k] \in Vers
    BY DEF ResourceTypes
  <2>2. pass.applied[k] \in Vers
    BY DEF ResourceTypes, PassesOf
  <2> QED
    BY <2>1, <2>2 DEF Owned
<1>2. CASE v = None
  BY <1>1, <1>2, MakesAre
<1>3. CASE v # None
  BY <1>1, <1>3, MakesAre DEF Vers
<1> QED
  BY <1>2, <1>3

-----------------------------------------------------------------------------
(* ResourceReconcile: what each step of the pass makes of it *)

(* The list without a key, if it has gone for good.                        *)
ListWithout(k, done) == [pass.applied EXCEPT ![k] = IF Forgets(done) THEN None ELSE @]

LEMMA WithoutTyped ==
    ASSUME ResourceTypes, NEW k \in Keys, NEW done \in BOOLEAN
    PROVE  /\ ListWithout(k, done) \in [Keys -> Vers]
           /\ \A x \in Keys \ {k} : ListWithout(k, done)[x] = pass.applied[x]
           /\ ListWithout(k, done)[k] = IF done THEN None ELSE pass.applied[k]
<1>1. pass.applied \in [Keys -> Vers]
  BY DEF ResourceTypes, PassesOf
<1> QED
  BY <1>1, KeysAre DEF ListWithout, Forgets

LEMMA DeleteTyped ==
    ASSUME ResourceTypes, NEW k \in Keys, NEW gone \in SUBSET Owned(k), Delete(k, gone)
    PROVE  /\ live' \in [Objects -> LiveAs] /\ release' \in [Helms -> Vers] /\ count' \in Tally
           /\ \A o \in Objects : live'[o] = IF o \in gone THEN Nothing ELSE live[o]
           /\ \A h \in Helms : release'[h] = IF h = k /\ gone = Owned(k) THEN None ELSE release[h]
<1>1. live' = [o \in Objects |-> IF o \in gone THEN Nothing ELSE live[o]]
  BY DEF Delete
<1>2. release' = [h \in Helms |-> IF h = k /\ gone = Owned(k) THEN None ELSE release[h]]
  BY DEF Delete
<1>3. live' \in [Objects -> LiveAs]
  BY <1>1 DEF ResourceTypes, LiveAs
<1>4. release' \in [Helms -> Vers]
  BY <1>2, KeysAre DEF ResourceTypes
<1>5. count' \in Tally
  BY Tallied DEF Delete, ResourceTypes
<1> QED
  BY <1>1, <1>2, <1>3, <1>4, <1>5

(* What is deleted because of a key is on its list.                        *)
LEMMA DeleteAccounted ==
    ASSUME ResourceTypes, Accounted, NEW k \in Keys, NEW gone \in SUBSET Owned(k), Delete(k, gone),
           loose' = loose, ~InStage("idle"), ~InStage("idle")',
           \A x \in Keys \ {k} : pass'.applied[x] = pass.applied[x],
           pass'.applied[k] = IF gone = Owned(k) THEN None ELSE pass.applied[k]
    PROVE  Accounted'
<1> SUFFICES ASSUME NEW o \in Objects, live'[o] # Nothing, o \notin loose
             PROVE  \E x \in Keys : o \in Made(x)'
  BY DEF Accounted
<1>1. live[o] # Nothing /\ o \notin gone
  BY DeleteTyped
<1>2. PICK x \in Keys : o \in Made(x)
  BY <1>1 DEF Accounted
<1>3. List = pass.applied /\ List' = pass'.applied
  BY DEF List
<1>4. CASE x # k
  <2>1. pass'.applied[x] = pass.applied[x] /\ (x \in Helms => release'[x] = release[x])
    BY <1>4, DeleteTyped
  <2>2. o \in Made(x)'
    BY <1>2, <1>3, <2>1 DEF Made, ObjectsOf
  <2> QED
    BY <2>2
<1>5. CASE x = k /\ gone = Owned(k)
  BY <1>1, <1>2, <1>3, <1>5 DEF Made, Owned
<1>6. CASE x = k /\ gone # Owned(k)
  <2>1. pass'.applied[k] = pass.applied[k] /\ (k \in Helms => release'[k] = release[k])
    BY <1>6, DeleteTyped
  <2>2. o \in Made(k)'
    BY <1>2, <1>3, <1>6, <2>1 DEF Made, ObjectsOf
  <2> QED
    BY <2>2
<1> QED
  BY <1>4, <1>5, <1>6

(* Nothing that is there has come or changed hands.                        *)
LEMMA AccountedFrame ==
    ASSUME Accounted, UNCHANGED <<live, release, loose>>, \A k \in Keys : List'[k] = List[k]
    PROVE  Accounted'
<1>1. \A k \in Keys : Made(k)' = Made(k)
  BY DEF Made, ObjectsOf
<1> QED
  BY <1>1 DEF Accounted

ResourceSafe == ResourceTypes /\ Accounted /\ GivenUp /\ InHand

(* The marks of what was given up, where neither the spec nor a source has *)
(* changed, nor the pass taken up more.                                    *)
LEMMA PassFrame ==
    ASSUME ResourceSafe, UNCHANGED <<entries, content, given, applied>>,
           ~InStage("idle"), pass'.spec = pass.spec, pass'.files = pass.files,
           pass'.todo \subseteq pass.todo, pass'.orphans \subseteq pass.orphans,
           pass'.changed \/ \A k \in Keys : pass'.applied[k] \in {None, pass.applied[k]},
           pass.changed => pass'.changed
    PROVE  GivenUp' /\ InHand'
<1>1. GivenUp'
  BY DEF ResourceSafe, GivenUp, InStage
<1>2. InHand'
  BY DEF ResourceSafe, InHand, InStage, Version
<1> QED
  BY <1>1, <1>2

LEMMA DeleteKeySafe ==
    ASSUME ResourceSafe, NEW n \in Keys, NEW k \in Keys, DeleteKey(n, k)
    PROVE  ResourceSafe' /\ k \in given
<1> USE DEF ResourceSafe
<1>1. PICK gone \in SUBSET Owned(k) :
        /\ Delete(k, gone)
        /\ pass' = [pass EXCEPT !.todo = IF gone = Owned(k) THEN @ ELSE {},
                                !.applied[k] = IF Forgets(gone = Owned(k)) THEN None ELSE @]
  BY DEF DeleteKey
<1>2. PICK todo \in SUBSET Keys : todo = IF gone = Owned(k) THEN pass.todo ELSE {}
  BY DEF ResourceTypes, PassesOf
<1>3. PICK list \in [Keys -> Vers] :
        /\ list = ListWithout(k, gone = Owned(k))
        /\ \A x \in Keys \ {k} : list[x] = pass.applied[x]
        /\ list[k] = IF gone = Owned(k) THEN None ELSE pass.applied[k]
  BY WithoutTyped
<1>4. pass' = [pass EXCEPT !.todo = todo, !.applied = list]
  BY <1>1, <1>2, <1>3 DEF ListWithout
<1>5. /\ pass' \in PassesOf /\ pass'.at = pass.at /\ pass'.spec = pass.spec
      /\ pass'.files = pass.files /\ pass'.todo = todo /\ pass'.orphans = pass.orphans
      /\ pass'.changed = pass.changed /\ pass'.applied = list
  <2>1. pass \in PassesOf
    BY DEF ResourceTypes
  <2> HIDE DEF ResourceSafe
  <2> QED
    BY <1>4, <2>1 DEF PassesOf
<1>6. /\ UNCHANGED <<local, strict, entries, content, applied, loose, given>>
      /\ ~InStage("idle") /\ ~InStage("idle")' /\ pass.spec[DirOf[n]] = "delete" /\ DirOf[k] = n
      /\ n \in pass.todo
  BY <1>5 DEF DeleteKey, Turn, InStage
<1>7. Accounted'
  BY <1>1, <1>3, <1>5, <1>6, DeleteAccounted
<1>8. ResourceTypes'
  BY <1>1, <1>3, <1>5, <1>6, DeleteTyped DEF ResourceTypes
<1>9. GivenUp' /\ InHand'
  BY <1>2, <1>3, <1>5, <1>6, PassFrame
<1>10. k \in given
  <2>1. DirOf[n] = n
    BY <1>6, KeysAre DEF InHand
  <2> QED
    BY <1>6, <2>1 DEF GivenUp
<1> QED
  BY <1>7, <1>8, <1>9, <1>10

LEMMA PruneSafe ==
    ASSUME ResourceSafe, NEW k \in Keys, Prune(k)
    PROVE  ResourceSafe' /\ k \in given
<1> USE DEF ResourceSafe
<1>1. PICK gone \in SUBSET Owned(k) :
        /\ Delete(k, gone)
        /\ pass' = [pass EXCEPT !.orphans = @ \ {k}, !.changed = @ \/ gone = Owned(k),
                                !.applied[k] = IF Forgets(gone = Owned(k)) THEN None ELSE @]
  BY DEF Prune
<1>2. PICK orphans \in SUBSET Keys : orphans = pass.orphans \ {k}
  BY DEF ResourceTypes, PassesOf
<1>3. PICK changed \in BOOLEAN : changed = (pass.changed \/ gone = Owned(k))
  OBVIOUS
<1>4. PICK list \in [Keys -> Vers] :
        /\ list = ListWithout(k, gone = Owned(k))
        /\ \A x \in Keys \ {k} : list[x] = pass.applied[x]
        /\ list[k] = IF gone = Owned(k) THEN None ELSE pass.applied[k]
  BY WithoutTyped
<1>5. pass' = [pass EXCEPT !.orphans = orphans, !.changed = changed, !.applied = list]
  BY <1>1, <1>2, <1>3, <1>4 DEF ListWithout
<1>6. /\ pass' \in PassesOf /\ pass'.at = pass.at /\ pass'.spec = pass.spec
      /\ pass'.files = pass.files /\ pass'.todo = pass.todo /\ pass'.orphans = orphans
      /\ pass'.changed = changed /\ pass'.applied = list
  <2>1. pass \in PassesOf
    BY DEF ResourceTypes
  <2> HIDE DEF ResourceSafe
  <2> QED
    BY <1>5, <2>1 DEF PassesOf
<1>7. /\ UNCHANGED <<local, strict, entries, content, applied, loose, given>>
      /\ ~InStage("idle") /\ ~InStage("idle")' /\ k \in pass.orphans
  BY <1>6 DEF Prune, InStage
<1>8. Accounted'
  BY <1>1, <1>4, <1>6, <1>7, DeleteAccounted
<1>9. ResourceTypes'
  BY <1>1, <1>4, <1>6, <1>7, DeleteTyped DEF ResourceTypes
<1>10. GivenUp' /\ InHand'
  BY <1>2, <1>3, <1>4, <1>6, <1>7, PassFrame
<1> QED
  BY <1>7, <1>8, <1>9, <1>10 DEF GivenUp

LEMMA DropEntrySafe ==
    ASSUME ResourceSafe, NEW n \in Keys, DropEntry(n)
    PROVE  ResourceSafe'
<1> USE DEF ResourceSafe
<1>1. /\ Turn(n) /\ pass.spec[DirOf[n]] = "delete"
      /\ UNCHANGED <<local, strict, entries, content, applied, live, release, loose, given, count>>
  BY DEF DropEntry
<1>2. PICK spec \in SpecsOf :
        /\ spec = [pass.spec EXCEPT ![n] = "absent"]
        /\ spec[n] = "absent" /\ \A m \in EntryNames \ {n} : spec[m] = pass.spec[m]
  <2>1. n \in EntryNames /\ pass.spec \in SpecsOf
    BY <1>1, KeysAre DEF Turn, InHand, ResourceTypes, PassesOf
  <2> DEFINE new == [pass.spec EXCEPT ![n] = "absent"]
  <2>2. new \in SpecsOf /\ new[n] = "absent" /\ \A m \in EntryNames \ {n} : new[m] = pass.spec[m]
    BY <2>1 DEF SpecsOf
  <2> HIDE DEF ResourceSafe
  <2> QED
    BY <2>2
<1>3. PICK todo \in SUBSET pass.todo : todo = pass.todo \ {n}
  OBVIOUS
<1>4. pass' = [pass EXCEPT !.todo = todo, !.spec = spec, !.changed = TRUE]
  BY <1>2, <1>3 DEF DropEntry
<1>5. /\ pass' \in PassesOf /\ pass'.at = pass.at /\ pass'.spec = spec
      /\ pass'.files = pass.files /\ pass'.todo = todo /\ pass'.orphans = pass.orphans
      /\ pass'.changed = TRUE /\ pass'.applied = pass.applied
  <2>1. pass \in PassesOf /\ todo \in SUBSET Keys
    BY DEF ResourceTypes, PassesOf
  <2> HIDE DEF ResourceSafe
  <2> QED
    BY <1>2, <1>4, <2>1 DEF PassesOf
<1>6. ResourceTypes'
  BY <1>1, <1>5 DEF ResourceTypes
<1>7. Accounted'
  BY <1>1, <1>5, AccountedFrame DEF List, InStage
<1>8. GivenUp'
  <2>1. \A k \in Keys : spec[DirOf[k]] # "present" => k \in given
    <3>1. TAKE k \in Keys
    <3>2. pass.spec[DirOf[k]] # "present" => k \in given
      BY <1>1 DEF GivenUp, Turn, InStage
    <3>3. CASE DirOf[k] = n
      <4>1. DirOf[n] = n
        BY <3>3, KeysAre
      <4> QED
        BY <1>1, <3>2, <3>3, <4>1
    <3>4. CASE DirOf[k] # n
      BY <1>2, <3>2, <3>4, KeysAre
    <3> QED
      BY <3>3, <3>4
  <2> QED
    BY <1>1, <1>5, <2>1 DEF GivenUp, InStage
<1>9. InHand'
  <2>1. ASSUME NEW k \in todo
        PROVE  /\ spec[DirOf[k]] = "delete" => k \in EntryNames
               /\ spec[DirOf[k]] = "present" => Version(k) # None
    <3>1. k \in Keys /\ k \in pass.todo
      BY <1>3 DEF ResourceTypes, PassesOf
    <3>2. DirOf[k] = n \/ spec[DirOf[k]] = pass.spec[DirOf[k]]
      BY <1>2, <3>1, KeysAre
    <3> QED
      BY <1>2, <3>1, <3>2 DEF InHand
  <2>2. \A k : Version(k)' = Version(k)
    BY <1>1, <1>5 DEF Version
  <2> QED
    BY <1>5, <2>1, <2>2 DEF InHand
<1> QED
  BY <1>6, <1>7, <1>8, <1>9

(* A pass that stops here, or goes on to the next item.                    *)
LEMMA InSyncSafe ==
    ASSUME ResourceSafe, NEW todo \in SUBSET pass.todo, ~InStage("idle"),
           pass' = [pass EXCEPT !.todo = todo], count' \in Tally,
           UNCHANGED <<local, strict, entries, content, applied, live, release, loose, given>>
    PROVE  ResourceSafe'
<1> USE DEF ResourceSafe
<1>1. /\ pass' \in PassesOf /\ pass'.at = pass.at /\ pass'.spec = pass.spec
      /\ pass'.files = pass.files /\ pass'.todo = todo /\ pass'.orphans = pass.orphans
      /\ pass'.changed = pass.changed /\ pass'.applied = pass.applied
  <2>1. pass \in PassesOf
    BY DEF ResourceTypes
  <2> HIDE DEF ResourceSafe
  <2> QED
    BY <2>1 DEF PassesOf
<1>2. ResourceTypes'
  BY <1>1 DEF ResourceTypes
<1>3. Accounted'
  BY <1>1, AccountedFrame DEF List, InStage
<1>4. GivenUp' /\ InHand'
  BY <1>1, PassFrame
<1> QED
  BY <1>2, <1>3, <1>4

LEMMA ToOrphansSafe ==
    ASSUME ResourceSafe, ToOrphans
    PROVE  ResourceSafe'
<1> USE DEF ResourceSafe
<1>1. /\ InStage("items")
      /\ UNCHANGED <<local, strict, entries, content, applied, live, release, loose, given, count>>
  BY DEF ToOrphans
<1>2. PICK orphans \in SUBSET pass.orphans :
        orphans = IF strict THEN {k \in pass.orphans : pass.applied[k] # None} ELSE {}
  OBVIOUS
<1>3. pass' = [pass EXCEPT !.at = "orphans", !.orphans = orphans]
  BY <1>2 DEF ToOrphans
<1>4. /\ pass' \in PassesOf /\ pass'.at = "orphans" /\ pass'.spec = pass.spec
      /\ pass'.files = pass.files /\ pass'.todo = pass.todo /\ pass'.orphans = orphans
      /\ pass'.changed = pass.changed /\ pass'.applied = pass.applied
  <2>1. pass \in PassesOf
    BY DEF ResourceTypes
  <2> HIDE DEF ResourceSafe
  <2> QED
    BY <1>3, <2>1 DEF PassesOf, Stages
<1>5. ResourceTypes'
  BY <1>1, <1>4 DEF ResourceTypes
<1>6. Accounted'
  BY <1>1, <1>4, AccountedFrame DEF List, InStage
<1>7. GivenUp' /\ InHand'
  BY <1>1, <1>4, PassFrame DEF InStage
<1> QED
  BY <1>5, <1>6, <1>7

(* What has been applied goes on the list in place of what was there.      *)
LEMMA ApplySafe ==
    ASSUME ResourceSafe, NEW k \in Keys, Apply(k)
    PROVE  /\ ResourceSafe'
           /\ \A o \in Objects : live'[o] = Nothing =>
                 live[o] = Nothing \/ (k \in Helms /\ release'[k] \notin {release[k], None})
<1> USE DEF ResourceSafe
<1> DEFINE v == Version(k) made == Makes[k][v] before == Superseded(k)
<1>1. /\ Applying(k) /\ InStage("items") /\ k \in pass.todo
      /\ live' = [o \in Objects |-> IF o \in made THEN <<k, v>>
                                      ELSE IF o \in before THEN Nothing ELSE live[o]]
      /\ release' = [h \in Helms |-> IF h = k THEN v ELSE release[h]]
      /\ loose' = (loose \cup (ObjectsOf(k, pass.applied[k]) \ before)) \ made
      /\ UNCHANGED <<local, strict, entries, content, applied, given, count>>
  BY DEF Apply, Applying, Turn
<1>2. v \in Versions /\ v \in Vers /\ v # None
  BY <1>1, VersionTyped, KeysAre
<1>3. /\ made \subseteq Objects /\ ObjectsOf(k, v) = made
      /\ ObjectsOf(k, pass.applied[k]) \subseteq Objects
  BY <1>2, MakesAre DEF ResourceTypes, PassesOf
<1>4. pass.applied \in [Keys -> Vers] /\ pass \in PassesOf
  BY DEF ResourceTypes, PassesOf
<1>5. PICK todo \in SUBSET pass.todo : todo = pass.todo \ {k}
  OBVIOUS
<1>6. PICK list \in [Keys -> Vers] :
        /\ list = [pass.applied EXCEPT ![k] = v]
        /\ list[k] = v /\ \A x \in Keys \ {k} : list[x] = pass.applied[x]
  <2> DEFINE new == [pass.applied EXCEPT ![k] = v]
  <2>1. new \in [Keys -> Vers] /\ new[k] = v /\ \A x \in Keys \ {k} : new[x] = pass.applied[x]
    <3> HIDE DEF v
    <3> QED
      BY <1>2, <1>4
  <2> QED
    BY <2>1
<1>7. pass' = [pass EXCEPT !.todo = todo, !.applied = list, !.changed = TRUE]
  BY <1>5, <1>6 DEF Apply
<1>8. /\ pass' \in PassesOf /\ pass'.at = pass.at /\ pass'.spec = pass.spec
      /\ pass'.files = pass.files /\ pass'.todo = todo /\ pass'.orphans = pass.orphans
      /\ pass'.changed = TRUE /\ pass'.applied = list
  <2>1. pass \in PassesOf /\ todo \in SUBSET Keys
    BY DEF ResourceTypes, PassesOf
  <2> HIDE DEF ResourceSafe
  <2> QED
    BY <1>6, <1>7, <2>1 DEF PassesOf
<1> HIDE DEF v, made, before
<1>9. /\ \A o \in Objects : live'[o] = IF o \in made THEN <<k, v>>
                                       ELSE IF o \in before THEN Nothing ELSE live[o]
      /\ \A h \in Helms : release'[h] = IF h = k THEN v ELSE release[h]
  BY <1>1
<1>10. ResourceTypes'
  <2>1. live' \in [Objects -> LiveAs]
    <3>1. <<k, v>> \in LiveAs /\ Nothing \in LiveAs /\ live \in [Objects -> LiveAs]
      BY <1>2 DEF LiveAs, ResourceTypes
    <3> QED
      BY <1>1, <3>1
  <2>2. release' \in [Helms -> Vers]
    BY <1>1, <1>2 DEF ResourceTypes
  <2>3. loose' \subseteq Objects
    BY <1>1, <1>3 DEF ResourceTypes
  <2> QED
    BY <1>1, <1>8, <2>1, <2>2, <2>3 DEF ResourceTypes
<1>11. Accounted'
  <2> SUFFICES ASSUME NEW o \in Objects, live'[o] # Nothing, o \notin loose'
               PROVE  \E x \in Keys : o \in Made(x)'
    BY DEF Accounted
  <2>1. List = pass.applied /\ List' = list
    BY <1>1, <1>8 DEF List, InStage
  <2>2. CASE o \in made
    <3>1. o \in ObjectsOf(k, v) /\ List'[k] = v /\ (k \in Helms => release'[k] = v)
      BY <1>3, <1>6, <1>9, <2>1, <2>2
    <3>2. o \in Made(k)'
      BY <3>1 DEF Made, ObjectsOf
    <3> QED
      BY <3>2
  <2>3. CASE o \notin made
    <3>1. o \notin before /\ live[o] # Nothing
      BY <1>9, <2>3
    <3>2. o \notin loose /\ o \notin ObjectsOf(k, pass.applied[k])
      BY <1>1, <2>3, <3>1
    <3>3. PICK x \in Keys : o \in Made(x)
      BY <3>1, <3>2 DEF Accounted
    <3>4. x # k
      BY <2>1, <3>2, <3>3 DEF Made
    <3>5. List'[x] = List[x] /\ (x \in Helms => release'[x] = release[x])
      BY <1>6, <1>9, <2>1, <3>4
    <3>6. o \in Made(x)'
      BY <3>3, <3>5 DEF Made, ObjectsOf
    <3> QED
      BY <3>6
  <2> QED
    BY <2>2, <2>3
<1>12. GivenUp' /\ InHand'
  BY <1>1, <1>8, PassFrame DEF InStage
<1>13. ASSUME NEW o \in Objects, live'[o] = Nothing, live[o] # Nothing
       PROVE  k \in Helms /\ release'[k] \notin {release[k], None}
  <2>1. o \notin made
    BY <1>9, <1>13 DEF Nothing
  <2>2. o \in before
    BY <1>9, <1>13, <2>1
  <2>3. k \in Helms /\ o \in ObjectsOf(k, release[k])
    BY <2>2 DEF Superseded, before
  <2>4. release[k] # v
    BY <1>3, <2>1, <2>3
  <2> QED
    BY <1>2, <1>9, <2>3, <2>4
<1> QED
  BY <1>10, <1>11, <1>12, <1>13

LEMMA ApplyFailsSafe ==
    ASSUME ResourceSafe, NEW k \in Keys, ApplyFails(k)
    PROVE  ResourceSafe' /\ \A o \in Objects : live'[o] = Nothing => live[o] = Nothing
<1> USE DEF ResourceSafe
<1> DEFINE v == Version(k)
<1>1. /\ Applying(k) /\ InStage("items") /\ Fault /\ pass' = [pass EXCEPT !.todo = {}]
      /\ release' \in {release, [h \in Helms |-> IF h = k THEN v ELSE release[h]]}
      /\ UNCHANGED <<local, strict, entries, content, applied, given>>
  BY DEF ApplyFails, Applying, Turn
<1>2. PICK part \in SUBSET Makes[k][v] :
        /\ live' = [o \in Objects |-> IF o \in part THEN <<k, v>> ELSE live[o]]
        /\ loose' = loose \cup part \cup (Superseded(k) \ Superseded(k)')
  BY DEF ApplyFails
<1>3. v \in Versions /\ v \in Vers
  BY <1>1, VersionTyped, KeysAre
<1>4. part \subseteq Objects /\ count' \in Tally
  BY <1>1, <1>3, MakesAre, Tallied DEF ResourceTypes
<1>4a. Superseded(k) \subseteq Objects
  <2>1. k \in Helms => release[k] \in Vers
    BY DEF ResourceTypes
  <2> QED
    BY <2>1, MakesAre DEF Superseded
<1>4b. \A h \in Helms \ {k} : release'[h] = release[h]
  BY <1>1
<1> HIDE DEF v
<1>5. /\ pass' \in PassesOf /\ pass'.at = pass.at /\ pass'.spec = pass.spec
      /\ pass'.files = pass.files /\ pass'.todo = {} /\ pass'.orphans = pass.orphans
      /\ pass'.changed = pass.changed /\ pass'.applied = pass.applied
  <2>1. pass \in PassesOf
    BY DEF ResourceTypes
  <2> HIDE DEF ResourceSafe
  <2> QED
    BY <1>1, <2>1 DEF PassesOf
<1>6. ResourceTypes'
  <2>1. <<k, v>> \in LiveAs /\ live \in [Objects -> LiveAs]
    BY <1>3 DEF LiveAs, ResourceTypes
  <2>2. live' \in [Objects -> LiveAs]
    BY <1>2, <2>1
  <2>3. release' \in [Helms -> Vers]
    BY <1>1, <1>3 DEF ResourceTypes
  <2>4. loose' \subseteq Objects
    BY <1>2, <1>4, <1>4a DEF ResourceTypes
  <2> QED
    BY <1>1, <1>4, <1>5, <2>2, <2>3, <2>4 DEF ResourceTypes
<1>7. Accounted'
  <2> SUFFICES ASSUME NEW o \in Objects, live'[o] # Nothing, o \notin loose'
               PROVE  \E x \in Keys : o \in Made(x)'
    BY DEF Accounted
  <2>1. List' = List
    BY <1>1, <1>5 DEF List, InStage
  <2>2. PICK x \in Keys : o \in Made(x)
    BY <1>2 DEF Accounted
  <2>3. CASE x = k /\ k \in Helms
    <3>1. o \in Superseded(k) /\ o \in ObjectsOf(k, List[k])
      BY <2>2, <2>3 DEF Made, Superseded
    <3>2. o \in Superseded(k)'
      BY <1>2, <3>1
    <3> QED
      BY <2>1, <2>3, <3>1, <3>2 DEF Made, Superseded, ObjectsOf
  <2>4. CASE ~(x = k /\ k \in Helms)
    <3>1. x \in Helms => release'[x] = release[x]
      BY <1>4b, <2>4
    <3> QED
      BY <2>1, <2>2, <3>1 DEF Made, ObjectsOf
  <2> QED
    BY <2>3, <2>4
<1>8. GivenUp' /\ InHand'
  BY <1>1, <1>5, PassFrame DEF InStage
<1> QED
  BY <1>2, <1>6, <1>7, <1>8 DEF Nothing

(* The end of a pass, as what was to be saved is saved, or was the same.   *)
LEMMA EndSafe ==
    ASSUME ResourceSafe, Unchanged \/ SaveStatus
    PROVE  ResourceSafe' /\ live' = live
<1> USE DEF ResourceSafe
<1>1. /\ ~InStage("idle") /\ pass' = NoPass
      /\ UNCHANGED <<local, strict, entries, content, live, release, loose, given, count>>
  BY DEF Unchanged, SaveStatus, Done, InStage
<1>2. pass.applied \in [Keys -> Vers]
  BY DEF ResourceTypes, PassesOf
<1>3. /\ applied' \in [Keys -> Vers]
      /\ \A k \in Keys : pass.applied[k] \in {None, applied'[k]}
  <2>1. CASE Unchanged
    BY <1>1, <2>1 DEF Unchanged, InHand, ResourceTypes
  <2>2. CASE SaveStatus
    BY <1>2, <2>2 DEF SaveStatus
  <2> QED
    BY <2>1, <2>2
<1>4. pass' \in PassesOf /\ pass'.at = "idle" /\ pass'.todo = {} /\ pass'.orphans = {}
  BY <1>1, NoPassTyped
<1>5. ResourceTypes'
  BY <1>1, <1>3, <1>4 DEF ResourceTypes
<1>6. Accounted'
  <2> SUFFICES ASSUME NEW o \in Objects, live[o] # Nothing, o \notin loose
               PROVE  \E k \in Keys : o \in Made(k)'
    BY <1>1 DEF Accounted
  <2>1. PICK k \in Keys : o \in Made(k)
    BY DEF Accounted
  <2>2. List[k] = pass.applied[k] /\ List'[k] = applied'[k]
    BY <1>1, <1>4 DEF List, InStage
  <2>3. List[k] # None
    BY <2>1 DEF Made, ObjectsOf
  <2>4. List'[k] = List[k]
    BY <1>3, <2>2, <2>3
  <2>5. o \in Made(k)'
    BY <1>1, <2>1, <2>4 DEF Made, ObjectsOf
  <2> QED
    BY <2>5
<1>7. GivenUp'
  BY <1>1, <1>4 DEF GivenUp, InStage
<1>8. InHand'
  BY <1>4 DEF InHand, InStage
<1> QED
  BY <1>1, <1>5, <1>6, <1>7, <1>8

LEMMA SaveSpecSafe ==
    ASSUME ResourceSafe, SaveSpec
    PROVE  ResourceSafe'
<1> USE DEF ResourceSafe
<1>1. /\ InStage("orphans") /\ pass.changed /\ entries' = pass.spec
      /\ pass' = [pass EXCEPT !.at = "status"]
      /\ UNCHANGED <<local, strict, content, applied, live, release, loose, given, count>>
  BY DEF SaveSpec, Done
<1>2. /\ pass' \in PassesOf /\ pass'.at = "status" /\ pass'.spec = pass.spec
      /\ pass'.files = pass.files /\ pass'.todo = pass.todo /\ pass'.orphans = pass.orphans
      /\ pass'.changed = pass.changed /\ pass'.applied = pass.applied /\ pass.spec \in SpecsOf
  <2>1. pass \in PassesOf
    BY DEF ResourceTypes
  <2> HIDE DEF ResourceSafe
  <2> QED
    BY <1>1, <2>1 DEF PassesOf, Stages
<1>3. ResourceTypes'
  BY <1>1, <1>2 DEF ResourceTypes
<1>4. Accounted'
  BY <1>1, <1>2, AccountedFrame DEF List, InStage
<1>5. GivenUp'
  BY <1>1, <1>2 DEF GivenUp, InStage
<1>6. InHand'
  BY <1>1, <1>2 DEF InHand, InStage, Version
<1> QED
  BY <1>3, <1>4, <1>5, <1>6

LEMMA CrashSafe ==
    ASSUME ResourceSafe, Crash
    PROVE  ResourceSafe' /\ live' = live
<1> USE DEF ResourceSafe
<1>1. /\ ~InStage("idle") /\ Fault /\ pass' = NoPass /\ loose' = loose \cup Lost
      /\ UNCHANGED <<local, strict, entries, content, applied, live, release, given>>
  BY DEF Crash
<1>2. pass' \in PassesOf /\ pass'.at = "idle" /\ pass'.todo = {} /\ pass'.orphans = {}
  BY <1>1, NoPassTyped
<1>3. Lost \subseteq Objects
  BY MakesAre DEF Lost, ResourceTypes, PassesOf
<1>4. ResourceTypes'
  BY <1>1, <1>2, <1>3, Tallied DEF ResourceTypes
<1>5. Accounted'
  <2> SUFFICES ASSUME NEW o \in Objects, live[o] # Nothing, o \notin loose, o \notin Lost
               PROVE  \E k \in Keys : o \in Made(k)'
    BY <1>1 DEF Accounted
  <2>1. PICK k \in Keys : o \in Made(k)
    BY DEF Accounted
  <2>2. List[k] = pass.applied[k] /\ List'[k] = applied[k]
    BY <1>1, <1>2 DEF List, InStage
  <2>3. o \in ObjectsOf(k, pass.applied[k])
    BY <2>1, <2>2 DEF Made
  <2>4. pass.applied[k] = applied[k]
    BY <2>3 DEF Lost
  <2>5. o \in Made(k)'
    BY <1>1, <2>1, <2>2, <2>4 DEF Made, ObjectsOf
  <2> QED
    BY <2>5
<1>6. GivenUp'
  BY <1>1, <1>2 DEF GivenUp, InStage
<1>7. InHand'
  BY <1>2 DEF InHand, InStage
<1> QED
  BY <1>1, <1>4, <1>5, <1>6, <1>7

(* A directory that could not be read makes no orphan: what is neither an  *)
(* item nor held is out of the spec, or its file is gone.                  *)
LEMMA OrphansGiven ==
    ASSUME ResourceSafe, NEW failed, NEW k \in Keys \ Known(failed)
    PROVE  k \in given
<1> USE DEF ResourceSafe
<1>1. DirOf[k] \in EntryNames /\ entries \in SpecsOf
  BY KeysAre DEF ResourceTypes
<1>2. CASE k \in EntryNames
  BY <1>1, <1>2, KeysAre DEF Known, GivenUp, SpecsOf
<1>3. CASE k \notin EntryNames /\ entries[DirOf[k]] # "present"
  BY <1>3 DEF GivenUp
<1>4. CASE k \notin EntryNames /\ entries[DirOf[k]] = "present"
  <2>1. DirOf[k] # k /\ DirOf[k] \in Dirs
    BY <1>1, <1>4 DEF Dirs, Children
  <2>2. Before(DirOf[k], failed)
    BY <1>4, <2>1 DEF Known, Held
  <2>3. content[k] = None
    BY <1>4, <2>1, <2>2 DEF Known, Item
  <2> QED
    BY <2>3 DEF GivenUp
<1> QED
  BY <1>2, <1>3, <1>4

LEMMA StartSafe ==
    ASSUME ResourceSafe, Start
    PROVE  ResourceSafe' /\ live' = live
<1> USE DEF ResourceSafe
<1>1. PICK failed : Begin(failed)
  BY DEF Start
<1>2. /\ InStage("idle") /\ count' \in Tally
      /\ UNCHANGED <<local, strict, entries, content, applied, live, release, loose, given>>
  BY <1>1, Tallied DEF Start, Begin, ResourceTypes
<1>3. PICK todo \in SUBSET Keys : todo = {k \in Keys : Item(k, failed)}
  OBVIOUS
<1>4. PICK orphans \in SUBSET Keys : orphans = Keys \ Known(failed)
  OBVIOUS
<1>5. pass' = [at |-> "items", spec |-> entries, files |-> content, todo |-> todo,
               orphans |-> orphans, applied |-> applied, changed |-> FALSE]
  BY <1>1, <1>3, <1>4 DEF Begin
<1>6. /\ pass' \in PassesOf /\ pass'.at = "items" /\ pass'.spec = entries
      /\ pass'.files = content /\ pass'.todo = todo /\ pass'.orphans = orphans
      /\ ~pass'.changed /\ pass'.applied = applied
  <2>1. entries \in SpecsOf /\ content \in [Keys -> Vers] /\ applied \in [Keys -> Vers]
    BY DEF ResourceTypes
  <2> HIDE DEF ResourceSafe
  <2> QED
    BY <1>5, <2>1 DEF PassesOf, Stages
<1>7. ResourceTypes'
  BY <1>2, <1>6 DEF ResourceTypes
<1>8. Accounted'
  BY <1>2, <1>6, AccountedFrame DEF List, InStage
<1>9. GivenUp'
  <2>1. orphans \subseteq given
    BY <1>4, OrphansGiven
  <2> QED
    BY <1>2, <1>6, <2>1 DEF GivenUp, InStage
<1>10. InHand'
  <2>1. ASSUME NEW k \in todo
        PROVE  /\ entries[DirOf[k]] = "delete" => k \in EntryNames
               /\ entries[DirOf[k]] = "present" => content[k] # None
    <3>1. k \in Keys /\ Item(k, failed)
      BY <1>3
    <3>2. entries[DirOf[k]] = "delete" => k \in EntryNames
      BY <3>1, KeysAre DEF Item
    <3>3. ASSUME entries[DirOf[k]] = "present", content[k] = None PROVE FALSE
      <4>1. k \notin EntryNames
        BY <3>1, <3>3 DEF GivenUp
      <4>2. k # DirOf[k]
        BY <3>1, <4>1, KeysAre
      <4> QED
        BY <3>1, <3>3, <4>2 DEF Item
    <3> QED
      BY <3>2, <3>3
  <2>2. \A k \in todo : Version(k)' = content[k]
    BY <1>2, <1>6 DEF Version
  <2> QED
    BY <1>2, <1>6, <2>1, <2>2 DEF InHand
<1> QED
  BY <1>2, <1>7, <1>8, <1>9, <1>10

-----------------------------------------------------------------------------
(* ResourceReconcile: users *)

LEMMA EditEntrySafe ==
    ASSUME ResourceSafe, NEW n \in EntryNames, NEW to \in {"absent", "present", "delete"},
           EditEntry(n, to)
    PROVE  ResourceSafe'
<1> USE DEF ResourceSafe
<1>1. /\ count' \in Tally /\ entries' = [entries EXCEPT ![n] = to]
      /\ given' = IF to = "present" THEN given ELSE given \cup {k \in Keys : DirOf[k] = n}
      /\ UNCHANGED <<local, strict, content, applied, live, release, pass, loose>>
  BY Tallied DEF EditEntry, ResourceTypes
<1>2. /\ entries' \in SpecsOf /\ entries'[n] = to
      /\ \A m \in EntryNames \ {n} : entries'[m] = entries[m]
  BY <1>1 DEF ResourceTypes, SpecsOf
<1>3. given \subseteq given' /\ given' \subseteq Keys
  BY <1>1 DEF ResourceTypes
<1>4. ResourceTypes'
  BY <1>1, <1>2, <1>3 DEF ResourceTypes
<1>5. Accounted'
  BY <1>1, AccountedFrame DEF List, InStage
<1>6. GivenUp'
  <2>1. ASSUME NEW k \in Keys, entries'[DirOf[k]] # "present" PROVE k \in given'
    <3>1. CASE DirOf[k] = n
      BY <1>1, <1>2, <2>1, <3>1
    <3>2. CASE DirOf[k] # n
      BY <1>2, <1>3, <2>1, <3>2, KeysAre DEF GivenUp
    <3> QED
      BY <3>1, <3>2
  <2>2. \A k \in Keys : /\ ~InStage("idle")' /\ pass'.spec[DirOf[k]] # "present" => k \in given'
                        /\ content'[k] = None => k \in given' \ EntryNames
    BY <1>1, <1>3 DEF GivenUp, InStage
  <2>3. pass'.orphans \subseteq given'
    BY <1>1, <1>3 DEF GivenUp
  <2> QED
    BY <2>1, <2>2, <2>3 DEF GivenUp
<1>7. InHand'
  BY <1>1 DEF InHand, InStage, Version
<1> QED
  BY <1>4, <1>5, <1>6, <1>7

LEMMA EditContentSafe ==
    ASSUME ResourceSafe, NEW k \in Keys, NEW to \in {None} \cup Versions, EditContent(k, to)
    PROVE  ResourceSafe'
<1> USE DEF ResourceSafe
<1>1. /\ count' \in Tally /\ content' = [content EXCEPT ![k] = to]
      /\ to # None \/ k \notin EntryNames
      /\ given' = IF to = None THEN given \cup {k} ELSE given
      /\ UNCHANGED <<local, strict, entries, applied, live, release, pass, loose>>
  BY Tallied DEF EditContent, ResourceTypes
<1>2. /\ content' \in [Keys -> Vers] /\ content'[k] = to
      /\ \A x \in Keys \ {k} : content'[x] = content[x]
  BY <1>1 DEF ResourceTypes, Vers
<1>3. given \subseteq given' /\ given' \subseteq Keys
  BY <1>1 DEF ResourceTypes
<1>4. ResourceTypes'
  BY <1>1, <1>2, <1>3 DEF ResourceTypes
<1>5. Accounted'
  BY <1>1, AccountedFrame DEF List, InStage
<1>6. GivenUp'
  <2>1. \A x \in Keys : content'[x] = None => x \in given' \ EntryNames
    BY <1>1, <1>2, <1>3 DEF GivenUp
  <2>2. \A x \in Keys : /\ entries'[DirOf[x]] # "present" => x \in given'
                        /\ ~InStage("idle")' /\ pass'.spec[DirOf[x]] # "present" => x \in given'
    BY <1>1, <1>3 DEF GivenUp, InStage
  <2>3. pass'.orphans \subseteq given'
    BY <1>1, <1>3 DEF GivenUp
  <2> QED
    BY <2>1, <2>2, <2>3 DEF GivenUp
<1>7. InHand'
  <2>1. ASSUME NEW x \in pass.todo, pass.spec[DirOf[x]] = "present" PROVE Version(x)' # None
    <3>1. Version(x) # None
      BY <2>1 DEF InHand
    <3>2. CASE x \in EntryNames
      BY <1>1, <1>2, <3>1, <3>2, KeysAre DEF Version
    <3>3. CASE x \notin EntryNames
      BY <1>1, <3>1, <3>3 DEF Version
    <3> QED
      BY <3>2, <3>3
  <2> QED
    BY <1>1, <2>1 DEF InHand, InStage
<1> QED
  BY <1>4, <1>5, <1>6, <1>7

LEMMA MeddleSafe ==
    ASSUME ResourceSafe, NEW o \in Objects, NEW to \in {Nothing, Other}, Meddle(o, to)
    PROVE  ResourceSafe' /\ pass' = pass
<1> USE DEF ResourceSafe
<1>1. /\ count' \in Tally /\ live[o] # Nothing /\ live' = [live EXCEPT ![o] = to]
      /\ UNCHANGED <<local, strict, entries, content, applied, release, pass, loose, given>>
  BY Tallied DEF Meddle, ResourceTypes
<1>2. live' \in [Objects -> LiveAs] /\ \A x \in Objects \ {o} : live'[x] = live[x]
  BY <1>1 DEF ResourceTypes, LiveAs
<1>3. ResourceTypes'
  BY <1>1, <1>2 DEF ResourceTypes
<1>4. Accounted'
  <2>1. \A k \in Keys : Made(k)' = Made(k)
    BY <1>1 DEF Made, List, ObjectsOf, InStage
  <2> QED
    BY <1>1, <1>2, <2>1 DEF Accounted
<1>5. GivenUp' /\ InHand'
  BY <1>1 DEF GivenUp, InHand, InStage, Version
<1> QED
  BY <1>1, <1>3, <1>4, <1>5

-----------------------------------------------------------------------------
(* ResourceReconcile: the invariant, and what a pass deletes *)

(* What a step of the pass takes out of the cluster was given up, or is of *)
(* a version that a chart has left behind.                                 *)
TakesOnlyGiven ==
    \A o \in Objects :
       pass' # pass /\ live[o] # Nothing /\ live'[o] = Nothing =>
          \/ \E k \in given : \E v \in Versions : o \in Makes[k][v]
          \/ \E h \in Helms : release'[h] \notin {release[h], None}

LEMMA DeletedIsOwned ==
    ASSUME ResourceTypes, NEW k \in given \cap Keys, NEW gone \in SUBSET Owned(k), Delete(k, gone)
    PROVE  TakesOnlyGiven
<1> SUFFICES ASSUME NEW o \in Objects, live[o] # Nothing, live'[o] = Nothing
             PROVE  \E v \in Versions : o \in Makes[k][v]
  BY DEF TakesOnlyGiven
<1>1. o \in gone
  BY DeleteTyped
<1> QED
  BY <1>1, OwnedTyped

LEMMA ResourceInitSafe ==
    ASSUME ResourceInit PROVE ResourceSafe
<1>1. /\ local \in BOOLEAN /\ strict \in BOOLEAN /\ pass = NoPass
      /\ entries = [n \in EntryNames |-> "present"] /\ content = [k \in Keys |-> 1]
      /\ applied = [k \in Keys |-> None] /\ live = [o \in Objects |-> Nothing]
      /\ release = [h \in Helms |-> None] /\ loose = {} /\ given = {}
      /\ count = [edits |-> 0, faults |-> 0]
  BY DEF ResourceInit
<1>2. pass \in PassesOf /\ pass.at = "idle" /\ pass.todo = {} /\ pass.orphans = {}
  BY <1>1, NoPassTyped
<1>3. ResourceTypes
  <2>1. entries \in SpecsOf /\ applied \in [Keys -> Vers] /\ release \in [Helms -> Vers]
    BY <1>1, KeysAre DEF SpecsOf
  <2>2. content \in [Keys -> Vers] /\ live \in [Objects -> LiveAs]
    BY <1>1, KeysAre DEF LiveAs
  <2>3. count \in Tally
    BY <1>1, KeysAre DEF Tally
  <2> QED
    BY <1>1, <1>2, <2>1, <2>2, <2>3 DEF ResourceTypes
<1>4. Accounted
  BY <1>1 DEF Accounted
<1>5. GivenUp
  BY <1>1, <1>2, KeysAre DEF GivenUp, InStage, None
<1>6. InHand
  BY <1>2 DEF InHand, InStage
<1> QED
  BY <1>3, <1>4, <1>5, <1>6 DEF ResourceSafe

LEMMA ResourceStep ==
    ASSUME ResourceSafe, [ResourceNext]_resourceVars
    PROVE  ResourceSafe' /\ TakesOnlyGiven
<1>1. CASE Start
  BY <1>1, StartSafe DEF TakesOnlyGiven
<1>2. CASE ToOrphans
  BY <1>2, ToOrphansSafe DEF TakesOnlyGiven, ToOrphans
<1>3. ASSUME NEW k \in Keys, DropEntry(k) PROVE ResourceSafe' /\ TakesOnlyGiven
  BY <1>3, DropEntrySafe DEF TakesOnlyGiven, DropEntry
<1>4. ASSUME NEW k \in Keys, InSync(k) \/ Unresolved(k) PROVE ResourceSafe' /\ TakesOnlyGiven
  <2>1. /\ ~InStage("idle") /\ live' = live
        /\ UNCHANGED <<local, strict, entries, content, applied, live, release, loose, given>>
    BY <1>4 DEF InSync, Unresolved, Applying, Turn, InStage
  <2>2. count' \in Tally
    BY <1>4, Tallied DEF InSync, Unresolved, ResourceSafe, ResourceTypes
  <2>3. PICK todo \in SUBSET pass.todo : pass' = [pass EXCEPT !.todo = todo]
    BY <1>4 DEF InSync, Unresolved
  <2> QED
    BY <2>1, <2>2, <2>3, InSyncSafe DEF TakesOnlyGiven
<1>5. ASSUME NEW k \in Keys, Apply(k) PROVE ResourceSafe' /\ TakesOnlyGiven
  BY <1>5, ApplySafe DEF TakesOnlyGiven
<1>6. ASSUME NEW k \in Keys, ApplyFails(k) PROVE ResourceSafe' /\ TakesOnlyGiven
  BY <1>6, ApplyFailsSafe DEF TakesOnlyGiven
<1>7. ASSUME NEW k \in Keys, Prune(k) PROVE ResourceSafe' /\ TakesOnlyGiven
  BY <1>7, PruneSafe, DeletedIsOwned DEF Prune, ResourceSafe
<1>8. ASSUME NEW n \in Keys, NEW k \in Keys, DeleteKey(n, k) PROVE ResourceSafe' /\ TakesOnlyGiven
  BY <1>8, DeleteKeySafe, DeletedIsOwned DEF DeleteKey, ResourceSafe
<1>9. CASE Unchanged \/ SaveStatus
  BY <1>9, EndSafe DEF TakesOnlyGiven
<1>10. CASE SaveSpec
  BY <1>10, SaveSpecSafe DEF TakesOnlyGiven, SaveSpec
<1>11. CASE Crash
  BY <1>11, CrashSafe DEF TakesOnlyGiven
<1>12. ASSUME NEW n \in EntryNames, NEW to \in {"absent", "present", "delete"}, EditEntry(n, to)
       PROVE  ResourceSafe' /\ TakesOnlyGiven
  BY <1>12, EditEntrySafe DEF TakesOnlyGiven, EditEntry
<1>13. ASSUME NEW k \in Keys, NEW to \in {None} \cup Versions, EditContent(k, to)
       PROVE  ResourceSafe' /\ TakesOnlyGiven
  BY <1>13, EditContentSafe DEF TakesOnlyGiven, EditContent
<1>14. ASSUME NEW o \in Objects, NEW to \in {Nothing, Other}, Meddle(o, to)
       PROVE  ResourceSafe' /\ TakesOnlyGiven
  BY <1>14, MeddleSafe DEF TakesOnlyGiven
<1>15. CASE UNCHANGED resourceVars
  BY <1>15 DEF ResourceSafe, ResourceTypes, Accounted, GivenUp, InHand, Made, List, InStage,
               Version, ObjectsOf, TakesOnlyGiven, resourceVars
<1> QED
  BY <1>1, <1>2, <1>3, <1>4, <1>5, <1>6, <1>7, <1>8, <1>9, <1>10, <1>11, <1>12, <1>13, <1>14, <1>15
     DEF ResourceNext, Step, Trouble

LEMMA ResourceIs == ResourceInv <=> ResourceSafe
BY ResourceTyped DEF ResourceInv, ResourceSafe

(* Whatever the manifests make, whatever users, failures and crashes do:   *)
(* an object that was made and is still there is on the list of a key, or  *)
(* is one of those that the code has no way to know of; what is out of the *)
(* spec, or an orphan, somebody gave up; and what is not to be saved is    *)
(* what has been saved.                                                    *)
THEOREM ResourceInvariant == ResourceSpec => []ResourceInv
<1>1. ResourceInit => ResourceSafe
  BY ResourceInitSafe
<1>2. ResourceSafe /\ [ResourceNext]_resourceVars => ResourceSafe'
  BY ResourceStep
<1>3. ResourceSafe => ResourceInv
  BY ResourceIs
<1> QED
  BY <1>1, <1>2, <1>3, PTL DEF ResourceSpec

(* A pass deletes nothing but what somebody has given up, or what a new    *)
(* version of a chart has no more.                                         *)
THEOREM DeletesOnlyGivenUp == ResourceSpec => OnlyGivenUp
<1>1. ResourceInv /\ [ResourceNext]_resourceVars => TakesOnlyGiven
  BY ResourceStep, ResourceIs
<1>2. TakesOnlyGiven =>
        [\A o \in Objects :
           pass' # pass /\ live[o] # Nothing /\ live'[o] = Nothing =>
              \/ \E k \in given : \E v \in Versions : o \in Makes[k][v]
              \/ \E h \in Helms : release'[h] \notin {release[h], None}]_resourceVars
  BY DEF TakesOnlyGiven
<1> QED
  BY <1>1, <1>2, ResourceInvariant, PTL DEF ResourceSpec, OnlyGivenUp

=============================================================================
