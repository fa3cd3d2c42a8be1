------------------------- MODULE ContainerJobsProofs -------------------------
(***************************************************************************)
(* OneJobPerContainer and OneDockurAtATime, for any numbers of starts,     *)
(* pages, users and containers, if the hub did not start the strays and no *)
(* request is a start and a page.                                          *)
(***************************************************************************)
EXTENDS ContainerJobs, FiniteSetTheorems, TLAPS

StartOk(x) ==
    \/ x = Idle \/ x = Over
    \/ /\ DOMAIN x = {"pc", "user", "conv", "dockur"} /\ x.pc \in {"vm", "prepared", "inserted", "started"}
       /\ x.dockur \in BOOLEAN /\ (x.dockur => x.conv = Abstec)

RowOk(r) ==
    /\ DOMAIN r = {"user", "conv", "dockur", "status", "cid", "from"}
    /\ r.dockur \in BOOLEAN /\ (r.dockur => r.conv = Abstec)
    /\ r.from \in Starts => r.cid \in {Nobody, r.from}
    /\ r.dockur => r.from \in Starts

PageOk(x) ==
    \/ x = Idle \/ x = Over
    \/ DOMAIN x = {"pc", "user", "convs", "found", "import"} /\ x.pc = "scan"

Shapes ==
    /\ start = [s \in Starts |-> start[s]] /\ \A s \in Starts : StartOk(start[s])
    /\ page = [p \in Pages |-> page[p]] /\ \A p \in Pages : PageOk(page[p])
    /\ \A r \in rows : RowOk(r)
    /\ \A s \in Starts : start[s].pc \in {"inserted", "started"} => \E r \in rows : r.from = s
    /\ rivals \in BOOLEAN
    /\ accounts = {} => /\ rows = {} /\ \A s \in Starts : start[s] = Idle \/ start[s] = Over
                        /\ \A p \in Pages : page[p] = Idle \/ page[p] = Over

(* A container of the hub's own runs or ran: its start is that far. *)
Ran(st, id) == id \in Starts => st[id].pc \in {"started", "over"}

(* What a page has found and means to import: each container once. *)
ScanOk(st, x) ==
    x.pc = "scan" =>
        /\ \A b \in x.found : Ran(st, b.id)
        /\ \A i \in x.import : Ran(st, i.id) /\ i.new
        /\ \A b, c \in x.found : b.id = c.id => b = c
        /\ \A i, j \in x.import : i.id = j.id => i = j
        /\ \A b \in x.found, i \in x.import : b.id # i.id

BoxesOk(st, bx) == /\ \A b \in bx : Ran(st, b.id)
                   /\ \A b, c \in bx : b.id = c.id => b = c

(* A row has the id of a container whose start has yet to record it only   *)
(* if a page came first.                                                   *)
IdsOk(st, rw, ad) ==
    \A r \in rw : r.cid # Nobody =>
        Ran(st, r.cid) /\ (r.cid \in Starts /\ st[r.cid].pc = "started" => r.cid \in ad)

Once(rw, ad) == \A r, q \in rw : r # q /\ r.cid = q.cid /\ r.cid # Nobody => r.cid \in ad

OnDockur(r) == r.status = "running" /\ r.dockur
Checked(st, s) == st[s].pc \in {"vm", "prepared"} /\ st[s].dockur

(* One dockur job, or one start that may become it. *)
OneDockur(st, rw) ==
    /\ \A s, t \in Starts : Checked(st, s) /\ Checked(st, t) => s = t
    /\ \A s \in Starts, r \in rw : ~(Checked(st, s) /\ OnDockur(r))
    /\ \A r, q \in rw : OnDockur(r) /\ OnDockur(q) => r = q

(* The row of container id, or one of it that was stopped.                 *)
Stands(r, id) ==
    \/ r.from = id /\ OnDockur(r)
    \/ r.status = "stopped" /\ r.cid = id /\ r.cid # Nobody

(* A dockur container of the hub's own has its row, from before it runs    *)
(* until it is gone or stopped.                                            *)
Backed(st, bx, rw) ==
    /\ \A s \in Starts : st[s].pc = "inserted" /\ st[s].dockur => \E r \in rw : r.from = s /\ OnDockur(r)
    /\ \A b \in bx : b.id \in Starts /\ b.dockur => \E r \in rw : Stands(r, b.id)

Inv ==
    /\ Shapes
    /\ \A p \in Pages : ScanOk(start, page[p])
    /\ BoxesOk(start, boxes) /\ IdsOk(start, rows, adopted) /\ Once(rows, adopted)
    /\ Backed(start, boxes, rows)
    /\ rivals \/ OneDockur(start, rows)

-----------------------------------------------------------------------------
(* Before the hub comes up. *)
LEMMA InitOk == ContainersInit => Inv
<1> SUFFICES ASSUME ContainersInit PROVE Inv
  OBVIOUS
<1>1. /\ accounts = {} /\ boxes = {} /\ rows = {} /\ rivals = FALSE
      /\ start = [s \in Starts |-> Over] /\ page = [p \in Pages |-> Over]
  BY DEF ContainersInit
<1>2. Over.pc = "over"
  BY DEF Over
<1>3. Shapes
  BY <1>1, <1>2 DEF Shapes, StartOk, PageOk
<1>4. /\ \A p \in Pages : ScanOk(start, page[p])
      /\ BoxesOk(start, boxes) /\ IdsOk(start, rows, adopted) /\ Once(rows, adopted)
  BY <1>1, <1>2 DEF ScanOk, BoxesOk, IdsOk, Once
<1>5. OneDockur(start, rows) /\ Backed(start, boxes, rows)
  BY <1>1, <1>2 DEF OneDockur, Checked, Backed
<1> QED
  BY <1>3, <1>4, <1>5 DEF Inv

(* A start takes a step; what it may have started stays started. *)
LEMMA StartMoves ==
    ASSUME Inv, NEW s \in Starts, NEW x, StartOk(x), start' = [start EXCEPT ![s] = x],
           start[s].pc \in {"started", "over"} => x.pc \in {"started", "over"}
    PROVE  /\ start' = [t \in Starts |-> start'[t]] /\ start'[s] = x
           /\ \A t \in Starts : StartOk(start'[t])
           /\ \A t \in Starts : t # s => start'[t] = start[t]
           /\ \A id : Ran(start, id) => Ran(start', id)
           /\ \A p \in Pages : ScanOk(start', page[p])
           /\ BoxesOk(start', boxes)
<1>1. /\ start' = [t \in Starts |-> start'[t]] /\ start'[s] = x
      /\ \A t \in Starts : t # s => start'[t] = start[t]
  BY DEF Inv, Shapes
<1>2. \A t \in Starts : StartOk(start'[t])
  BY <1>1 DEF Inv, Shapes
<1>3. \A id : Ran(start, id) => Ran(start', id)
  BY <1>1 DEF Ran
<1>4. /\ \A p \in Pages : ScanOk(start', page[p])
      /\ BoxesOk(start', boxes)
  BY <1>3 DEF Inv, ScanOk, BoxesOk
<1> QED
  BY <1>1, <1>2, <1>3, <1>4

(* A row is replaced by one of the same container that is not more alive. *)
LEMMA RowChanges ==
    ASSUME Inv, NEW r \in rows, NEW q, rows' = (rows \ {r}) \cup {q},
           RowOk(q), q.from = r.from, q.cid = r.cid, q.dockur = r.dockur,
           q.status = "running" => r.status = "running"
    PROVE  /\ \A k \in rows' : RowOk(k)
           /\ \A s : (\E k \in rows : k.from = s) => \E k \in rows' : k.from = s
           /\ \A st : IdsOk(st, rows, adopted) => IdsOk(st, rows', adopted)
           /\ Once(rows', adopted)
           /\ \A st : OneDockur(st, rows) => OneDockur(st, rows')
<1>1. \A k \in rows' : k = q \/ (k \in rows /\ k # r)
  OBVIOUS
<1>2. \A k \in rows : k \in rows' \/ k = r
  OBVIOUS
<1>3. q \in rows'
  OBVIOUS
<1>4. \A k \in rows' : RowOk(k)
  BY <1>1 DEF Inv, Shapes
<1>5. \A s : (\E k \in rows : k.from = s) => \E k \in rows' : k.from = s
  BY <1>2, <1>3
<1>6. \A st : IdsOk(st, rows, adopted) => IdsOk(st, rows', adopted)
  BY <1>1 DEF IdsOk
<1>7. Once(rows', adopted)
  <2> SUFFICES ASSUME NEW k \in rows', NEW l \in rows', k # l, k.cid = l.cid, k.cid # Nobody
               PROVE  k.cid \in adopted
    BY DEF Once
  <2>1. Once(rows, adopted)
    BY DEF Inv
  <2>2. CASE k = q
    <3>1. l \in rows /\ l # r /\ l.cid = r.cid /\ r.cid # Nobody
      BY <1>1, <2>2
    <3> QED
      BY <2>1, <2>2, <3>1 DEF Once
  <2>3. CASE l = q
    <3>1. k \in rows /\ k # r /\ k.cid = r.cid /\ r.cid # Nobody
      BY <1>1, <2>3
    <3> QED
      BY <2>1, <2>3, <3>1 DEF Once
  <2>4. CASE k # q /\ l # q
    BY <1>1, <2>1, <2>4 DEF Once
  <2> QED
    BY <2>2, <2>3, <2>4
<1>8. ASSUME NEW st, OneDockur(st, rows) PROVE OneDockur(st, rows')
  <2>1. OnDockur(q) => OnDockur(r)
    BY DEF OnDockur
  <2> QED
    BY <1>1, <1>8, <2>1 DEF OneDockur
<1> QED
  BY <1>4, <1>5, <1>6, <1>7, <1>8

(* The hub comes up: none of the containers it finds is of a start to come. *)
LEMMA ComesOk ==
    ASSUME Inv, Comes, \A cast \in Casts : cast.strays \cap Starts = {}
    PROVE  Inv'
<1>1. /\ rows = {} /\ \A s \in Starts : start[s] = Idle \/ start[s] = Over
      /\ UNCHANGED <<rows, adopted, rivals>> /\ rivals \in BOOLEAN
  BY DEF Comes, Inv, Shapes
<1>2. PICK cast \in Casts :
          /\ start' = [s \in Starts |-> IF s \in cast.starts THEN Idle ELSE Over]
          /\ page' = [p \in Pages |-> IF p \in cast.pages THEN Idle ELSE Over]
          /\ \E u \in Users \cup {Nobody}, conv \in Converters \cup {Nobody},
                like \in [Converters -> {0, 2}], dockur \in BOOLEAN :
                boxes' = {[id |-> c, user |-> u, conv |-> conv, like |-> like, dockur |-> dockur] :
                            c \in cast.strays}
  BY DEF Comes
<1>3. PICK u \in Users \cup {Nobody}, conv \in Converters \cup {Nobody},
           like \in [Converters -> {0, 2}], dockur \in BOOLEAN :
          boxes' = {[id |-> c, user |-> u, conv |-> conv, like |-> like, dockur |-> dockur] : c \in cast.strays}
  BY <1>2
<1>4. /\ \A b \in boxes' : b.id \in cast.strays
      /\ \A b, c \in boxes' : b.id = c.id => b = c
  BY <1>3
<1>5. BoxesOk(start', boxes')
  BY <1>4 DEF BoxesOk, Ran
<1>6. /\ \A s \in Starts : start'[s] = Idle \/ start'[s] = Over
      /\ \A p \in Pages : page'[p] = Idle \/ page'[p] = Over
      /\ start' = [s \in Starts |-> start'[s]] /\ page' = [p \in Pages |-> page'[p]]
  BY <1>2
<1>7. Idle.pc = "idle" /\ Over.pc = "over"
  BY DEF Idle, Over
<1>8. Shapes'
  BY <1>1, <1>6, <1>7 DEF Shapes, StartOk, PageOk
<1>9. /\ \A p \in Pages : ScanOk(start', page'[p])
      /\ IdsOk(start', rows', adopted') /\ Once(rows', adopted')
      /\ OneDockur(start', rows')
  BY <1>1, <1>6, <1>7 DEF ScanOk, IdsOk, Once, OneDockur, Checked
<1>10. Backed(start', boxes', rows')
  BY <1>4, <1>6, <1>7 DEF Backed
<1> QED
  BY <1>5, <1>8, <1>9, <1>10 DEF Inv

(* A start is checked, and waits for its machine. *)
LEMMA BeginsOk ==
    ASSUME Inv, NEW s \in Starts, NEW u, NEW conv, NEW dockur \in BOOLEAN, Begins(s, u, conv, dockur)
    PROVE  Inv'
<1> DEFINE x == IF ~dockur THEN [pc |-> "prepared", user |-> u, conv |-> conv, dockur |-> FALSE]
                ELSE IF RunsDockur THEN Over
                ELSE [pc |-> "vm", user |-> u, conv |-> conv, dockur |-> TRUE]
<1>1. /\ start[s] = Idle /\ (dockur => conv = Abstec) /\ start' = [start EXCEPT ![s] = x]
      /\ rivals' = (rivals \/ (dockur /\ \E t \in Starts : Checked(start, t)))
      /\ UNCHANGED <<accounts, boxes, rows, page, adopted>> /\ accounts # {}
  BY DEF Begins, Checked
<1>2. /\ StartOk(x) /\ x.pc \in {"prepared", "over", "vm"}
      /\ x.pc \in {"vm", "prepared"} /\ x.dockur => dockur /\ ~RunsDockur
  BY <1>1 DEF StartOk, Over
<1>3. start[s].pc = "idle"
  BY <1>1 DEF Idle
<1> HIDE DEF x
<1>4. /\ start' = [t \in Starts |-> start'[t]] /\ start'[s] = x
      /\ \A t \in Starts : StartOk(start'[t])
      /\ \A t \in Starts : t # s => start'[t] = start[t]
      /\ \A id : Ran(start, id) => Ran(start', id)
      /\ \A p \in Pages : ScanOk(start', page[p])
      /\ BoxesOk(start', boxes)
  BY <1>1, <1>2, <1>3, StartMoves
<1>5. Shapes'
  <2>1. rivals' \in BOOLEAN
    BY <1>1
  <2>2. \A t \in Starts : start'[t].pc \in {"inserted", "started"} => \E r \in rows : r.from = t
    BY <1>2, <1>4 DEF Inv, Shapes
  <2> QED
    BY <1>1, <1>4, <2>1, <2>2 DEF Inv, Shapes
<1>6. IdsOk(start', rows, adopted)
  BY <1>2, <1>4 DEF Inv, IdsOk
<1>7. rivals' \/ OneDockur(start', rows)
  <2> SUFFICES ASSUME ~rivals' PROVE OneDockur(start', rows)
    OBVIOUS
  <2>1. OneDockur(start, rows) /\ (dockur => \A t \in Starts : ~Checked(start, t))
    BY <1>1 DEF Inv
  <2>2. Checked(start', s) => dockur /\ ~RunsDockur
    BY <1>2, <1>4 DEF Checked
  <2>3. \A t \in Starts : t # s => (Checked(start', t) <=> Checked(start, t))
    BY <1>4 DEF Checked
  <2>4. ~RunsDockur => \A r \in rows : ~OnDockur(r)
    BY DEF RunsDockur, OnDockur, Inv, Shapes, RowOk
  <2> QED
    BY <2>1, <2>2, <2>3, <2>4 DEF OneDockur
<1>8. Backed(start', boxes, rows)
  BY <1>2, <1>4 DEF Inv, Backed
<1> QED
  BY <1>1, <1>4, <1>5, <1>6, <1>7, <1>8 DEF Inv

(* The machine is up or missing, or the start breaks off. *)
LEMMA StartGoesOn ==
    ASSUME Inv, NEW s \in Starts, VmIsUp(s) \/ VmIsMissing(s) \/ StartBreaks(s)
    PROVE  Inv'
<1>1. PICK x : /\ start' = [start EXCEPT ![s] = x] /\ StartOk(x)
               /\ x = Over \/ (x.pc = "prepared" /\ start[s].pc = "vm" /\ x.dockur = start[s].dockur)
               /\ start[s].pc \in {"vm", "inserted", "started"}
  <2>1. CASE VmIsUp(s)
    <3> DEFINE x == [start[s] EXCEPT !.pc = "prepared"]
    <3>1. start[s].pc = "vm" /\ start' = [start EXCEPT ![s] = x]
      BY <2>1 DEF VmIsUp
    <3>2. /\ DOMAIN start[s] = {"pc", "user", "conv", "dockur"}
          /\ start[s].dockur \in BOOLEAN /\ (start[s].dockur => start[s].conv = Abstec)
      BY <3>1 DEF Inv, Shapes, StartOk, Idle, Over
    <3>3. DOMAIN x = {"pc", "user", "conv", "dockur"} /\ x.pc = "prepared" /\ x.dockur = start[s].dockur /\ x.conv = start[s].conv
      BY <3>2
    <3> QED
      BY <3>1, <3>2, <3>3 DEF StartOk
  <2>2. CASE VmIsMissing(s) \/ StartBreaks(s)
    <3>1. /\ start' = [start EXCEPT ![s] = Over]
          /\ start[s].pc \in {"vm", "inserted", "started"}
      BY <2>2 DEF VmIsMissing, StartBreaks
    <3>2. StartOk(Over)
      BY DEF StartOk, Over
    <3>3. Over = Over \/ (Over.pc = "prepared" /\ start[s].pc = "vm" /\ Over.dockur = start[s].dockur)
      OBVIOUS
    <3> QED
      BY <3>1, <3>2, <3>3, Zenon
  <2> QED
    BY <2>1, <2>2
<1>2. UNCHANGED <<accounts, boxes, rows, page, adopted, rivals>>
  BY DEF VmIsUp, VmIsMissing, StartBreaks
<1>3. Over.pc = "over" /\ Idle.pc = "idle"
  BY DEF Over, Idle
<1>4. /\ start' = [t \in Starts |-> start'[t]] /\ start'[s] = x
      /\ \A t \in Starts : StartOk(start'[t])
      /\ \A t \in Starts : t # s => start'[t] = start[t]
      /\ \A id : Ran(start, id) => Ran(start', id)
      /\ \A p \in Pages : ScanOk(start', page[p])
      /\ BoxesOk(start', boxes)
  BY <1>1, <1>3, StartMoves
<1>5. Shapes'
  <2>1. \A t \in Starts : start'[t].pc \in {"inserted", "started"} => \E r \in rows : r.from = t
    BY <1>1, <1>3, <1>4 DEF Inv, Shapes
  <2>2. accounts # {}
    BY <1>1, <1>3 DEF Inv, Shapes
  <2> QED
    BY <1>2, <1>4, <2>1, <2>2 DEF Inv, Shapes
<1>6. IdsOk(start', rows, adopted)
  BY <1>1, <1>3, <1>4 DEF Inv, IdsOk
<1>7. rivals \/ OneDockur(start', rows)
  <2>1. \A t \in Starts : Checked(start', t) => Checked(start, t)
    BY <1>1, <1>3, <1>4 DEF Checked
  <2> QED
    BY <2>1 DEF Inv, OneDockur
<1>8. Backed(start', boxes, rows)
  BY <1>1, <1>3, <1>4 DEF Inv, Backed
<1> QED
  BY <1>2, <1>4, <1>5, <1>6, <1>7, <1>8 DEF Inv

(* The row is inserted; it is the one dockur job if the check said so. *)
LEMMA InsertsOk ==
    ASSUME Inv, NEW s \in Starts, InsertsRow(s)
    PROVE  Inv'
<1> DEFINE q == start[s]
           x == [start[s] EXCEPT !.pc = "inserted"]
           new == [user |-> q.user, conv |-> q.conv, dockur |-> q.dockur,
                   status |-> "running", cid |-> Nobody, from |-> s]
<1>1. /\ q.pc = "prepared" /\ rows' = rows \cup {new} /\ start' = [start EXCEPT ![s] = x]
      /\ UNCHANGED <<accounts, boxes, page, adopted, rivals>>
  BY DEF InsertsRow
<1>2. /\ DOMAIN q = {"pc", "user", "conv", "dockur"} /\ q.dockur \in BOOLEAN /\ (q.dockur => q.conv = Abstec)
  BY <1>1 DEF Inv, Shapes, StartOk, Idle, Over
<1>3. /\ DOMAIN x = {"pc", "user", "conv", "dockur"} /\ x.pc = "inserted" /\ x.dockur = q.dockur /\ x.conv = q.conv
  BY <1>2
<1>4. StartOk(x)
  BY <1>2, <1>3 DEF StartOk
<1>5. /\ RowOk(new) /\ new.cid = Nobody /\ new.from = s /\ new.status = "running" /\ new.dockur = q.dockur
  BY <1>2 DEF RowOk
<1>6. accounts # {}
  BY <1>1 DEF Inv, Shapes, Idle, Over
<1> HIDE DEF x, new
<1>7. /\ start' = [t \in Starts |-> start'[t]] /\ start'[s] = x
      /\ \A t \in Starts : StartOk(start'[t])
      /\ \A t \in Starts : t # s => start'[t] = start[t]
      /\ \A id : Ran(start, id) => Ran(start', id)
      /\ \A p \in Pages : ScanOk(start', page[p])
      /\ BoxesOk(start', boxes)
  BY <1>1, <1>3, <1>4, StartMoves
<1>8. Shapes'
  <2>1. \A r \in rows' : RowOk(r)
    BY <1>1, <1>5 DEF Inv, Shapes
  <2>2. \A t \in Starts : start'[t].pc \in {"inserted", "started"} => \E r \in rows' : r.from = t
    BY <1>1, <1>5, <1>7 DEF Inv, Shapes
  <2> QED
    BY <1>1, <1>6, <1>7, <2>1, <2>2 DEF Inv, Shapes
<1>9. IdsOk(start', rows', adopted)
  BY <1>1, <1>3, <1>5, <1>7 DEF Inv, IdsOk
<1>10. Once(rows', adopted)
  BY <1>1, <1>5 DEF Inv, Once
<1>11. rivals \/ OneDockur(start', rows')
  <2> SUFFICES ASSUME ~rivals PROVE OneDockur(start', rows')
    OBVIOUS
  <2>1. OneDockur(start, rows)
    BY DEF Inv
  <2>2. /\ ~Checked(start', s) /\ \A t \in Starts : Checked(start', t) => t # s /\ Checked(start, t)
        /\ OnDockur(new) => Checked(start, s)
    BY <1>1, <1>3, <1>5, <1>7 DEF Checked, OnDockur
  <2>3. ASSUME NEW t \in Starts, NEW r \in rows' PROVE ~(Checked(start', t) /\ OnDockur(r))
    BY <1>1, <2>1, <2>2, <2>3 DEF OneDockur
  <2>4. ASSUME NEW r \in rows', NEW k \in rows', OnDockur(r), OnDockur(k) PROVE r = k
    BY <1>1, <2>1, <2>2, <2>4 DEF OneDockur
  <2> QED
    BY <2>1, <2>2, <2>3, <2>4 DEF OneDockur
<1>12. Backed(start', boxes, rows')
  <2>1. q.dockur => new.from = s /\ OnDockur(new)
    BY <1>5 DEF OnDockur
  <2> QED
    BY <1>1, <1>3, <1>7, <2>1 DEF Inv, Backed
<1> QED
  BY <1>1, <1>7, <1>8, <1>9, <1>10, <1>11, <1>12 DEF Inv

(* The container runs; nobody can have seen it before. *)
LEMMA ContainerOk ==
    ASSUME Inv, NEW s \in Starts, start_container(s)
    PROVE  Inv'
<1> DEFINE x == [start[s] EXCEPT !.pc = "started"]
           box == [id |-> s, user |-> start[s].user, conv |-> start[s].conv,
                   like |-> [c \in Converters |-> IF c = start[s].conv THEN 3 ELSE 0],
                   dockur |-> start[s].dockur]
<1>1. /\ start[s].pc = "inserted" /\ boxes' = boxes \cup {box} /\ start' = [start EXCEPT ![s] = x]
      /\ UNCHANGED <<accounts, rows, page, adopted, rivals>>
  BY DEF start_container
<1>2. /\ DOMAIN start[s] = {"pc", "user", "conv", "dockur"}
      /\ start[s].dockur \in BOOLEAN /\ (start[s].dockur => start[s].conv = Abstec)
  BY <1>1 DEF Inv, Shapes, StartOk, Idle, Over
<1>3. DOMAIN x = {"pc", "user", "conv", "dockur"} /\ x.pc = "started" /\ x.dockur = start[s].dockur /\ x.conv = start[s].conv
  BY <1>2
<1>4. StartOk(x)
  BY <1>2, <1>3 DEF StartOk
<1>5. box.id = s /\ box.dockur = start[s].dockur
  OBVIOUS
<1>6. accounts # {}
  BY <1>1 DEF Inv, Shapes, Idle, Over
<1> HIDE DEF x, box
<1>7. /\ start' = [t \in Starts |-> start'[t]] /\ start'[s] = x
      /\ \A t \in Starts : StartOk(start'[t])
      /\ \A t \in Starts : t # s => start'[t] = start[t]
      /\ \A id : Ran(start, id) => Ran(start', id)
      /\ \A p \in Pages : ScanOk(start', page[p])
      /\ BoxesOk(start', boxes)
  BY <1>1, <1>3, <1>4, StartMoves
<1>8. ~Ran(start, s)
  BY <1>1 DEF Ran
<1>9. BoxesOk(start', boxes')
  <2>1. \A b \in boxes : b.id # s
    BY <1>8 DEF Inv, BoxesOk
  <2>2. Ran(start', s)
    BY <1>3, <1>7 DEF Ran
  <2> QED
    BY <1>1, <1>5, <1>7, <2>1, <2>2 DEF BoxesOk
<1>10. Shapes'
  <2>1. \A t \in Starts : start'[t].pc \in {"inserted", "started"} => \E r \in rows : r.from = t
    BY <1>1, <1>7 DEF Inv, Shapes
  <2> QED
    BY <1>1, <1>6, <1>7, <2>1 DEF Inv, Shapes
<1>11. IdsOk(start', rows, adopted)
  <2>1. \A r \in rows : r.cid # Nobody => r.cid # s
    BY <1>8 DEF Inv, IdsOk
  <2> QED
    BY <1>7, <2>1 DEF Inv, IdsOk
<1>12. rivals \/ OneDockur(start', rows)
  <2>1. \A t \in Starts : Checked(start', t) => Checked(start, t)
    BY <1>3, <1>7 DEF Checked
  <2> QED
    BY <2>1 DEF Inv, OneDockur
<1>13. Backed(start', boxes', rows)
  <2>1. \A t \in Starts : start'[t].pc = "inserted" => t # s
    BY <1>3, <1>7
  <2>2. start[s].dockur => \E r \in rows : Stands(r, s)
    BY <1>1 DEF Inv, Backed, Stands
  <2> QED
    BY <1>1, <1>5, <1>7, <2>1, <2>2 DEF Inv, Backed
<1> QED
  BY <1>1, <1>7, <1>9, <1>10, <1>11, <1>12, <1>13 DEF Inv

(* The start ends: its row gets the id, or the error. *)
LEMMA EndsOk ==
    ASSUME Inv, NEW s \in Starts, StartFails(s) \/ RecordsId(s)
    PROVE  Inv'
<1>1. /\ start[s].pc \in {"inserted", "started"} /\ start' = [start EXCEPT ![s] = Over]
      /\ UNCHANGED <<accounts, boxes, page, adopted, rivals>>
  BY DEF StartFails, RecordsId
<1>2. Over.pc = "over" /\ StartOk(Over)
  BY DEF Over, StartOk
<1>3. accounts # {}
  BY <1>1 DEF Inv, Shapes, Idle, Over
<1>4. /\ start' = [t \in Starts |-> start'[t]] /\ start'[s] = Over
      /\ \A t \in Starts : StartOk(start'[t])
      /\ \A t \in Starts : t # s => start'[t] = start[t]
      /\ \A id : Ran(start, id) => Ran(start', id)
      /\ \A p \in Pages : ScanOk(start', page[p])
      /\ BoxesOk(start', boxes)
  BY <1>1, <1>2, StartMoves
<1>5. RowOf(s) \in rows /\ RowOf(s).from = s
  BY <1>1 DEF Inv, Shapes, RowOf
<1> DEFINE r == RowOf(s)
<1> HIDE DEF r
<1>6. r \in rows /\ r.from = s /\ RowOk(r)
  BY <1>5 DEF r, Inv, Shapes
<1>7. /\ \A t \in Starts : Checked(start', t) => Checked(start, t)
      /\ IdsOk(start', rows, adopted)
      /\ rivals \/ OneDockur(start', rows)
  <2>1. \A t \in Starts : Checked(start', t) => Checked(start, t)
    BY <1>2, <1>4 DEF Checked
  <2>2. IdsOk(start', rows, adopted)
    BY <1>2, <1>4 DEF Inv, IdsOk
  <2> QED
    BY <2>1, <2>2 DEF Inv, OneDockur
<1>8. ASSUME NEW q, rows' = (rows \ {r}) \cup {q}, \A b \in boxes : Stands(r, b.id) => Stands(q, b.id)
      PROVE  Backed(start', boxes, rows')
  <2>1. ASSUME NEW t \in Starts, start'[t].pc = "inserted", start'[t].dockur
        PROVE  \E k \in rows' : k.from = t /\ OnDockur(k)
    <3>1. t # s /\ start[t].pc = "inserted" /\ start[t].dockur
      BY <1>2, <1>4, <2>1
    <3>2. PICK k \in rows : k.from = t /\ OnDockur(k)
      BY <3>1 DEF Inv, Backed
    <3>3. k # r
      BY <1>6, <3>1, <3>2
    <3> QED
      BY <1>8, <3>2, <3>3
  <2>2. ASSUME NEW b \in boxes, b.id \in Starts, b.dockur PROVE \E k \in rows' : Stands(k, b.id)
    <3>1. PICK k \in rows : Stands(k, b.id)
      BY <2>2 DEF Inv, Backed
    <3> QED
      BY <1>8, <3>1
  <2> QED
    BY <2>1, <2>2 DEF Backed
<1>9. CASE StartFails(s)
  <2> DEFINE q == [r EXCEPT !.status = "error"]
  <2>1. rows' = (rows \ {r}) \cup {q}
    BY <1>9 DEF StartFails, r
  <2>2. /\ RowOk(q) /\ q.from = r.from /\ q.cid = r.cid /\ q.dockur = r.dockur /\ q.status = "error"
    BY <1>6 DEF RowOk
  <2> HIDE DEF q
  <2>3. /\ \A k \in rows' : RowOk(k)
        /\ \A t : (\E k \in rows : k.from = t) => \E k \in rows' : k.from = t
        /\ \A st : IdsOk(st, rows, adopted) => IdsOk(st, rows', adopted)
        /\ Once(rows', adopted)
        /\ \A st : OneDockur(st, rows) => OneDockur(st, rows')
    BY <1>6, <2>1, <2>2, RowChanges
  <2>4. Shapes'
    <3>1. \A t \in Starts : start'[t].pc \in {"inserted", "started"} => \E k \in rows' : k.from = t
      BY <1>2, <1>4, <2>3 DEF Inv, Shapes
    <3> QED
      BY <1>1, <1>3, <1>4, <2>3, <3>1 DEF Inv, Shapes
  <2>5. ~Ran(start, s)
    BY <1>9 DEF StartFails, Ran
  <2>6. r.cid = Nobody
    BY <1>6, <2>5 DEF Inv, IdsOk, RowOk
  <2>7. \A b \in boxes : b.id # s
    BY <2>5 DEF Inv, BoxesOk
  <2>8. \A b \in boxes : ~Stands(r, b.id)
    BY <1>6, <2>6, <2>7 DEF Stands
  <2>9. Backed(start', boxes, rows')
    BY <1>8, <2>1, <2>8
  <2> QED
    BY <1>1, <1>4, <1>7, <2>3, <2>4, <2>9 DEF Inv
<1>10. CASE RecordsId(s)
  <2> DEFINE q == [r EXCEPT !.cid = s]
  <2>1. rows' = (rows \ {r}) \cup {q} /\ start[s].pc = "started"
    BY <1>10 DEF RecordsId, r
  <2>2. /\ RowOk(q) /\ q.from = r.from /\ q.cid = s /\ q.dockur = r.dockur /\ q.status = r.status
    BY <1>6 DEF RowOk
  <2> HIDE DEF q
  <2>3. /\ \A k \in rows' : k = q \/ (k \in rows /\ k # r)
        /\ \A k \in rows : k \in rows' \/ k = r
        /\ q \in rows'
    BY <2>1
  <2>4. Shapes'
    <3>1. \A k \in rows' : RowOk(k)
      BY <2>2, <2>3 DEF Inv, Shapes
    <3>2. \A t \in Starts : start'[t].pc \in {"inserted", "started"} => \E k \in rows' : k.from = t
      BY <1>2, <1>4, <1>6, <2>2, <2>3 DEF Inv, Shapes
    <3> QED
      BY <1>1, <1>3, <1>4, <3>1, <3>2 DEF Inv, Shapes
  <2>5. IdsOk(start', rows', adopted)
    <3>1. Ran(start', s) /\ start'[s].pc # "started"
      BY <1>2, <1>4 DEF Ran
    <3> QED
      BY <1>7, <2>2, <2>3, <3>1 DEF IdsOk
  <2>6. Once(rows', adopted)
    <3>1. \A k \in rows : k.cid = s /\ s # Nobody => s \in adopted
      BY <2>1 DEF Inv, IdsOk
    <3> QED
      BY <2>2, <2>3, <3>1 DEF Inv, Once
  <2>7. rivals \/ OneDockur(start', rows')
    <3>1. OnDockur(q) <=> OnDockur(r)
      BY <2>2 DEF OnDockur
    <3> QED
      BY <1>6, <1>7, <2>3, <3>1 DEF OneDockur
  <2>8. \A b \in boxes : Stands(r, b.id) => Stands(q, b.id)
    BY <1>6, <2>2 DEF Stands, OnDockur, RowOk
  <2>9. Backed(start', boxes, rows')
    BY <1>8, <2>1, <2>8
  <2> QED
    BY <1>1, <1>4, <2>4, <2>5, <2>6, <2>7, <2>9 DEF Inv
<1> QED
  BY <1>9, <1>10

(* A page looks what runs. *)
LEMMA ListsOk ==
    ASSUME Inv, NEW p \in Pages, NEW u, NEW convs, list_running_containers(p, u, convs)
    PROVE  Inv'
<1> DEFINE x == [pc |-> "scan", user |-> u, convs |-> convs, found |-> boxes, import |-> {}]
<1>1. /\ page' = [page EXCEPT ![p] = x] /\ accounts # {}
      /\ UNCHANGED <<accounts, boxes, rows, start, adopted, rivals>>
  BY DEF list_running_containers
<1>2. ScanOk(start, x) /\ PageOk(x)
  BY DEF ScanOk, PageOk, Inv, BoxesOk
<1> HIDE DEF x
<1>3. /\ page' = [o \in Pages |-> page'[o]] /\ page'[p] = x
      /\ \A o \in Pages : o # p => page'[o] = page[o]
  BY <1>1 DEF Inv, Shapes
<1>4. Shapes'
  BY <1>1, <1>2, <1>3 DEF Inv, Shapes
<1>5. \A o \in Pages : ScanOk(start', page'[o])
  BY <1>1, <1>2, <1>3 DEF Inv
<1>6. Backed(start', boxes', rows')
  BY <1>1 DEF Inv
<1> QED
  BY <1>1, <1>4, <1>5, <1>6 DEF Inv

(* It takes one container up, or passes it over. *)
LEMMA LooksOk ==
    ASSUME Inv, NEW p \in Pages, LooksAt(p)
    PROVE  Inv'
<1>1. PICK b \in page[p].found :
          IF Known(p, b) \/ ~MayAttach(p, b) \/ Matches(p, b) = {}
          THEN page' = [page EXCEPT ![p].found = @ \ {b}]
          ELSE \E c \in Matches(p, b) :
                  page' = [page EXCEPT ![p].found = @ \ {b},
                              ![p].import = @ \cup {[id |-> b.id, user |-> Owner(p, b), conv |-> c,
                                                    new |-> \A r \in rows : r.cid # b.id]}]
  BY DEF LooksAt
<1>2. page[p].pc = "scan" /\ UNCHANGED <<accounts, boxes, rows, start, adopted, rivals>>
  BY DEF LooksAt
<1>3. /\ DOMAIN page[p] = {"pc", "user", "convs", "found", "import"}
      /\ page = [o \in Pages |-> page[o]] /\ ScanOk(start, page[p])
  BY <1>2 DEF Inv, Shapes, PageOk, Idle, Over
<1>4. PICK x : /\ page' = [page EXCEPT ![p] = x] /\ PageOk(x) /\ x.pc = "scan"
               /\ x.found = page[p].found \ {b}
               /\ \/ x.import = page[p].import
                  \/ \E i : i.id = b.id /\ i.new /\ x.import = page[p].import \cup {i}
  <2>1. CASE page' = [page EXCEPT ![p].found = @ \ {b}]
    <3> DEFINE x == [page[p] EXCEPT !.found = @ \ {b}]
    <3>1. page' = [page EXCEPT ![p] = x]
      BY <2>1
    <3>2. DOMAIN x = {"pc", "user", "convs", "found", "import"} /\ x.pc = "scan" /\ x.found = page[p].found \ {b} /\ x.import = page[p].import
      BY <1>2, <1>3
    <3>3. PageOk(x)
      BY <3>2 DEF PageOk
    <3> QED
      BY <3>1, <3>2, <3>3
  <2>2. CASE ~(Known(p, b) \/ ~MayAttach(p, b) \/ Matches(p, b) = {})
    <3>1. PICK c : page' = [page EXCEPT ![p].found = @ \ {b},
                              ![p].import = @ \cup {[id |-> b.id, user |-> Owner(p, b), conv |-> c,
                                                    new |-> \A r \in rows : r.cid # b.id]}]
      BY <1>1, <2>2
    <3> DEFINE i == [id |-> b.id, user |-> Owner(p, b), conv |-> c, new |-> \A r \in rows : r.cid # b.id]
               x == [page[p] EXCEPT !.found = @ \ {b}, !.import = @ \cup {i}]
    <3>2. i.id = b.id /\ i.new
      BY <2>2 DEF Known
    <3>3. page' = [page EXCEPT ![p] = x]
      BY <1>3, <3>1
    <3> HIDE DEF i
    <3>4. DOMAIN x = {"pc", "user", "convs", "found", "import"} /\ x.pc = "scan" /\ x.found = page[p].found \ {b} /\ x.import = page[p].import \cup {i}
      BY <1>2, <1>3
    <3>5. PageOk(x)
      BY <3>4 DEF PageOk
    <3> HIDE DEF x
    <3> QED
      BY <3>2, <3>3, <3>4, <3>5
  <2> QED
    BY <1>1, <2>1, <2>2
<1>5. ScanOk(start, x)
  BY <1>2, <1>3, <1>4 DEF ScanOk
<1>6. /\ page' = [o \in Pages |-> page'[o]] /\ page'[p] = x
      /\ \A o \in Pages : o # p => page'[o] = page[o]
  BY <1>3, <1>4
<1>7. accounts # {}
  BY <1>2 DEF Inv, Shapes, Idle, Over
<1>8. Shapes'
  BY <1>2, <1>4, <1>6, <1>7 DEF Inv, Shapes
<1>9. \A o \in Pages : ScanOk(start', page'[o])
  BY <1>2, <1>5, <1>6 DEF Inv
<1> QED
  BY <1>2, <1>8, <1>9 DEF Inv

(* It inserts what it took up; what has a row by now is in adopted. *)
LEMMA ImportsOk ==
    ASSUME Inv, NEW p \in Pages, Imports(p), Starts \cap Pages = {}
    PROVE  Inv'
<1> DEFINE Row(i) == [user |-> i.user, conv |-> i.conv, dockur |-> FALSE, status |-> "running",
                      cid |-> i.id, from |-> p]
<1>1. /\ page[p].pc = "scan" /\ rows' = rows \cup {Row(i) : i \in page[p].import}
      /\ adopted' = adopted \cup Contested(p) /\ page' = [page EXCEPT ![p] = Over]
      /\ UNCHANGED <<accounts, boxes, start, rivals>>
  BY DEF Imports
<1>2. \A i : RowOk(Row(i)) /\ Row(i).cid = i.id /\ ~OnDockur(Row(i))
  BY DEF RowOk, OnDockur
<1>3. ASSUME NEW i, NEW j, i.id = j.id, i = j PROVE Row(i) = Row(j)
  BY <1>3
<1> HIDE DEF Row
<1>4. \A r \in rows' : r \in rows \/ \E i \in page[p].import : r = Row(i)
  BY <1>1
<1>5. ScanOk(start, page[p]) /\ Over.pc = "over" /\ accounts # {}
  BY <1>1 DEF Inv, Shapes, Over, Idle
<1>6. /\ page' = [o \in Pages |-> page'[o]] /\ page'[p] = Over
      /\ \A o \in Pages : o # p => page'[o] = page[o]
  BY <1>1 DEF Inv, Shapes
<1>7. Shapes'
  <2>1. \A r \in rows' : RowOk(r)
    BY <1>2, <1>4 DEF Inv, Shapes
  <2>2. \A s \in Starts : start'[s].pc \in {"inserted", "started"} => \E r \in rows' : r.from = s
    BY <1>1 DEF Inv, Shapes
  <2>3. \A o \in Pages : PageOk(page'[o])
    BY <1>6 DEF Inv, Shapes, PageOk
  <2> QED
    BY <1>1, <1>5, <1>6, <2>1, <2>2, <2>3 DEF Inv, Shapes
<1>8. \A o \in Pages : ScanOk(start', page'[o])
  BY <1>1, <1>5, <1>6 DEF Inv, ScanOk
<1>9. \A i \in page[p].import :
          (\E r \in rows : r.cid = i.id) \/ (i.id \in Starts /\ start[i.id].pc = "started") => i.id \in adopted'
  <2>1. \A i \in page[p].import :
            (i.id \in Starts /\ start[i.id] # Over) \/ (\E r \in rows : r.cid = i.id) => i.id \in Contested(p)
    BY <1>1, <1>5 DEF Contested, ScanOk
  <2> QED
    BY <1>1, <1>5, <2>1
<1>10. IdsOk(start', rows', adopted')
  BY <1>1, <1>2, <1>4, <1>5, <1>9 DEF Inv, IdsOk, ScanOk
<1>11. Once(rows', adopted')
  <2> SUFFICES ASSUME NEW r \in rows', NEW k \in rows', r # k, r.cid = k.cid, r.cid # Nobody
               PROVE  r.cid \in adopted'
    BY DEF Once
  <2>1. CASE r \in rows /\ k \in rows
    BY <1>1, <2>1 DEF Inv, Once
  <2>2. CASE r \in rows /\ k \notin rows
    BY <1>2, <1>4, <1>9, <2>2
  <2>3. CASE r \notin rows /\ k \in rows
    BY <1>2, <1>4, <1>9, <2>3
  <2>4. CASE r \notin rows /\ k \notin rows
    BY <1>1, <1>2, <1>4, <1>5, <2>4 DEF ScanOk
  <2> QED
    BY <2>1, <2>2, <2>3, <2>4
<1>12. rivals' \/ OneDockur(start', rows')
  BY <1>1, <1>2, <1>4 DEF Inv, OneDockur
<1>13. Backed(start', boxes', rows')
  BY <1>1 DEF Inv, Backed
<1> QED
  BY <1>1, <1>7, <1>8, <1>10, <1>11, <1>12, <1>13 DEF Inv

(* A container exits, its job is closed, or a job is stopped. *)
LEMMA ClosesOk ==
    ASSUME Inv, (\E b \in boxes : Exits(b)) \/ (\E r \in rows : reconcile_job_state(r) \/ stop_job(r))
    PROVE  Inv'
<1>1. ASSUME NEW b \in boxes, Exits(b) PROVE Inv'
  <2>1. boxes' = boxes \ {b} /\ UNCHANGED <<accounts, rows, start, page, adopted, rivals>>
    BY <1>1 DEF Exits
  <2>2. BoxesOk(start', boxes') /\ Shapes' /\ Backed(start', boxes', rows')
    BY <2>1 DEF Inv, BoxesOk, Shapes, Backed
  <2> QED
    BY <2>1, <2>2 DEF Inv
<1>2. ASSUME NEW r \in rows, reconcile_job_state(r) \/ stop_job(r) PROVE Inv'
  <2>0. PICK end \in {"over", "stopped"} :
            /\ rows' = (rows \ {r}) \cup {[r EXCEPT !.status = end]}
            /\ end = "over" => \A b \in boxes : b.id # r.cid
    BY <1>2 DEF reconcile_job_state, stop_job
  <2> DEFINE q == [r EXCEPT !.status = end]
  <2>1. /\ rows' = (rows \ {r}) \cup {q} /\ UNCHANGED <<accounts, boxes, start, page, adopted, rivals>>
        /\ RowOk(r) /\ r.status = "running" /\ r.cid # Nobody
    BY <1>2, <2>0 DEF reconcile_job_state, stop_job, Inv, Shapes
  <2>2. /\ RowOk(q) /\ q.from = r.from /\ q.cid = r.cid /\ q.dockur = r.dockur /\ q.status = end
    BY <2>1 DEF RowOk
  <2> HIDE DEF q
  <2>3. /\ \A k \in rows' : RowOk(k)
        /\ \A t : (\E k \in rows : k.from = t) => \E k \in rows' : k.from = t
        /\ \A st : IdsOk(st, rows, adopted) => IdsOk(st, rows', adopted)
        /\ Once(rows', adopted)
        /\ \A st : OneDockur(st, rows) => OneDockur(st, rows')
    BY <2>1, <2>2, RowChanges
  <2>4. Shapes'
    BY <2>1, <2>3 DEF Inv, Shapes
  <2>5. \A b \in boxes : b.id \in Starts /\ Stands(r, b.id) => Stands(q, b.id)
    BY <2>0, <2>1, <2>2 DEF Stands, RowOk
  <2>6. \A t \in Starts : start[t].pc = "inserted" => ~(r.from = t)
    <3> SUFFICES ASSUME NEW t \in Starts, start[t].pc = "inserted", r.from = t PROVE FALSE
      OBVIOUS
    <3>1. Ran(start, t)
      BY <2>1 DEF RowOk, Inv, IdsOk
    <3> QED
      BY <3>1 DEF Ran
  <2>7. /\ \A k \in rows : k \in rows' \/ k = r
        /\ q \in rows'
    BY <2>1
  <2>8. Backed(start, boxes, rows')
    BY <2>5, <2>6, <2>7 DEF Inv, Backed
  <2> QED
    BY <2>1, <2>3, <2>4, <2>8 DEF Inv
<1> QED
  BY <1>1, <1>2

(* Every step. *)
LEMMA StepOk ==
    ASSUME Inv, [ContainersNext]_containersVars, \A cast \in Casts : cast.strays \cap Starts = {},
           Starts \cap Pages = {}
    PROVE  Inv'
<1>1. CASE UNCHANGED containersVars
  BY <1>1 DEF Inv, Shapes, Backed, containersVars
<1>2. ASSUME NEW s \in Starts, start_job(s) PROVE Inv'
  BY <1>2, BeginsOk, StartGoesOn, InsertsOk, ContainerOk, EndsOk DEF start_job
<1>3. ASSUME NEW p \in Pages, _discover_running_converter_containers(p) PROVE Inv'
  BY <1>3, ListsOk, LooksOk, ImportsOk DEF _discover_running_converter_containers
<1> QED
  BY <1>1, <1>2, <1>3, ComesOk, ClosesOk DEF ContainersNext

-----------------------------------------------------------------------------
(* The invariant holds throughout. *)
LEMMA Invariant ==
    ASSUME \A cast \in Casts : cast.strays \cap Starts = {}, Starts \cap Pages = {}
    PROVE  ContainersSpec => []Inv
<1>1. ContainersInit => Inv
  BY InitOk
<1>2. Inv /\ [ContainersNext]_containersVars => Inv'
  BY StepOk
<1> QED
  BY <1>1, <1>2, PTL DEF ContainersSpec

(* A container gets one job, whatever pages are opened by whom, but for    *)
(* those that race its start or another page.                              *)
THEOREM OneJob ==
    ASSUME \A cast \in Casts : cast.strays \cap Starts = {}, Starts \cap Pages = {}
    PROVE  ContainersSpec => []OneJobPerContainer
<1>1. Inv => OneJobPerContainer
  BY DEF Inv, Once, OneJobPerContainer
<1> QED
  BY <1>1, Invariant, PTL

(* Only starts that are checked while another has no row yet can make a    *)
(* second dockur job; of two dockur containers of the hub's own one was    *)
(* stopped, unless there were such starts.                                 *)
THEOREM OneDockurJob ==
    ASSUME \A cast \in Casts : cast.strays \cap Starts = {}, Starts \cap Pages = {}
    PROVE  ContainersSpec => []OneDockurAtATime
<1>1. ASSUME Inv, ~rivals PROVE Cardinality({r \in rows : r.status = "running" /\ r.dockur}) <= 1
  <2> DEFINE S == {r \in rows : r.status = "running" /\ r.dockur}
  <2>1. \A r, q \in S : r = q
    BY <1>1 DEF Inv, OneDockur, OnDockur
  <2>2. CASE S = {}
    BY <2>2, FS_EmptySet
  <2>3. CASE S # {}
    <3>1. \E r : S = {r}
      BY <2>1, <2>3
    <3> HIDE DEF S
    <3>2. Cardinality(S) = 1
      BY <3>1, FS_Singleton
    <3> QED
      BY <3>2 DEF S
  <2> QED
    BY <2>2, <2>3
<1>2. ASSUME Inv, ~rivals, NEW b \in boxes, NEW c \in boxes, b.dockur, c.dockur, b.id \in Starts, c.id \in Starts,
             ~\E r \in rows : r.status = "stopped" /\ r.cid \in {b.id, c.id}
      PROVE  b = c
  <2>1. PICK r \in rows : Stands(r, b.id)
    BY <1>2 DEF Inv, Backed
  <2>2. PICK q \in rows : Stands(q, c.id)
    BY <1>2 DEF Inv, Backed
  <2>3. r.from = b.id /\ OnDockur(r) /\ q.from = c.id /\ OnDockur(q)
    BY <1>2, <2>1, <2>2 DEF Stands
  <2>4. r = q
    BY <1>2, <2>3 DEF Inv, OneDockur
  <2> QED
    BY <1>2, <2>3, <2>4 DEF Inv, BoxesOk
<1>3. Inv => OneDockurAtATime
  BY <1>1, <1>2 DEF OneDockurAtATime
<1> QED
  BY <1>3, Invariant, PTL
=============================================================================
