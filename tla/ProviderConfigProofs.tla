------------------------- MODULE ProviderConfigProofs -------------------------
(***************************************************************************)
(* Theorems about the provider settings (ProviderConfig): what a user's    *)
(* rows hold after his updates, and what a request reads, for any numbers  *)
(* of users, providers and concurrent requests.                            *)
(***************************************************************************)
EXTENDS ProviderConfig, FiniteSetTheorems, WellFoundedInduction, TLAPS

Row     == [Providers -> Entry \cup {None}]
Updates == [provider : Providers \cup {None}, field : Fields, entered : 1 .. MaxAsked]

(* What a request answers: the settings of a kind, or those of a provider *)
Answers == Settings \cup UNION {[{p} -> Entry] : p \in Providers}

(* What list_all returned to a request *)
Seen == UNION {[{u, Global} -> [Kinds -> Row]] : u \in Users}

Request ==
    [pc : {"idle", "list", "get", "insert", "flush", "commit", "answered"},
     op : {"none", "read", "health", "update"}, user : Users \cup {None}, kind : Kinds \cup {None},
     payload : {None} \cup [provider : Providers] \cup Updates,
     seen : {None} \cup Seen,
     todo : Seq(Providers), hand : {None} \cup Entry, next : {None} \cup Entry, found : {None} \cup Entry,
     writes : Row, goal : {None} \cup Settings,
     answer : {None} \cup Answers]

AllOrNone(r, k) == r[k] \in Settings \/ r[k] = NoRows[k]

(* The types of the variables; a user's rows of a kind are written together, *)
(* the global ones once                                                      *)
TypeInv ==
    /\ rows \in [Owners -> [Kinds -> Row]] /\ expected \in [Users -> [Kinds -> Row]]
    /\ \A o \in Owners, k \in Kinds : AllOrNone(rows[o], k)
    /\ rows[Global] = NoRows \/ rows[Global] \in [Kinds -> Settings]
    /\ memory \in [Kinds -> Settings]
    /\ request \in [Handlers -> Request]
    /\ asked \in 0 .. MaxAsked /\ mixed \subseteq Users

Left(r) == {p \in Providers : \E i \in DOMAIN r.todo : r.todo[i] = p}

(* Where a request has got, and what it carries there *)
Lists(r) ==
    /\ r.user \in Users /\ r.kind \in Kinds
    /\ r.op = "read" \/ (r.op = "health" /\ r.payload \in [provider : Providers])
                     \/ (r.op = "update" /\ r.payload \in Updates)
    /\ r.seen # None =>
        /\ r.seen \in [{r.user, Global} -> [Kinds -> Row]]
        /\ r.seen[Global] \in [Kinds -> Settings]
        /\ \A k \in Kinds : AllOrNone(r.seen[r.user], k)

Saves(r) ==
    /\ r.user \in Users /\ r.kind \in Kinds /\ r.op = "update"
    /\ r.goal \in Settings
    /\ \A p \in Providers \ Left(r) : r.writes[p] \in Entry
    /\ r.pc # "commit" => r.todo # <<>> /\ r.hand \in Entry
    /\ r.pc = "flush" => IF Tail(r.todo) = <<>> THEN r.next = None ELSE r.next \in Entry
    /\ r.pc = "commit" => r.todo = <<>>

Answered(r) ==
    r.op # "update" =>
        \A p \in DOMAIN r.answer :
            IF r.seen[r.user][r.kind][p] # None THEN r.answer[p] = r.seen[r.user][r.kind][p]
            ELSE r.answer[p].key = None

Stage(h) ==
    LET r == request[h] IN
        /\ r.pc # "idle" => rows[Global] # NoRows
        /\ r.pc = "list" => Lists(r)
        /\ r.pc \in {"get", "insert", "flush", "commit"} => Saves(r)
        /\ r.pc = "flush" => rows[r.user][r.kind] \in Settings
        /\ r.pc = "answered" => Answered(r)

StageInv == \A h \in Handlers : Stage(h)

OneActive(cs) == \E q \in Providers : ActiveIn(cs) = {q}

Recorded(u) ==
    \A k \in Kinds : /\ rows[u][k] = expected[u][k]
                     /\ rows[u][k] # NoRows[k] => OneActive(rows[u][k])

UpdateOf(h, u) == Updating(h) /\ request[h].user = u

(* What a request saves is what it put in the shared settings, as far as it *)
(* has still to take it from there, and what it found of the rows is still  *)
(* there                                                                    *)
Writes(r) ==
    /\ Untaken(r) # <<>> => memory[r.kind] = r.goal
    /\ OneActive(r.goal)
    /\ \A p \in Providers \ Left(r) : r.writes[p] = r.goal[p]
    /\ r.pc # "commit" => r.hand = r.goal[Head(r.todo)]
    /\ r.pc = "insert" => rows[r.user][r.kind][Head(r.todo)] = None
    /\ r.pc = "flush" => /\ rows[r.user][r.kind][Head(r.todo)] = r.found
                         /\ Tail(r.todo) # <<>> => r.next = r.goal[Head(Tail(r.todo))]

(* What is known of a user outside mixed *)
Apart(u) ==
    /\ Recorded(u)
    /\ \A g, h \in Handlers : UpdateOf(g, u) /\ UpdateOf(h, u) => g = h
    /\ \A h \in Handlers : Saving(h) /\ request[h].user = u => Writes(request[h])

ApartInv == \A u \in Users \ mixed : Apart(u)

-----------------------------------------------------------------------------
(* Operators *)

LEMMA Least ==
  ASSUME NEW A \in SUBSET Nat, A # {}
  PROVE  \E i \in A : \A j \in A : ~(j < i)
<1> DEFINE R == OpToRel(<, Nat)
<1>1. PICK i \in A : \A j \in A : ~(<<j, i>> \in R)
  <2>1. IsWellFoundedOn(R, Nat)
    BY NatLessThanWellFounded
  <2> HIDE DEF R
  <2> QED
    BY <2>1, WFMin
<1> QED
  BY <1>1 DEF OpToRel

(* The property chat is an active provider, when there is one *)
LEMMA CurrentIsOne ==
  ASSUME NEW cs, ActiveIn(cs) # {}
  PROVE  Current(cs) \in Providers
<1> DEFINE A == {i \in DOMAIN Order : cs[Order[i]].active}
           First(i) == cs[Order[i]].active /\ \A j \in 1 .. i - 1 : ~cs[Order[j]].active
<1>1. DOMAIN Order = 1 .. Len(Order) /\ Len(Order) \in Nat /\ \A i \in DOMAIN Order : Order[i] \in Providers
  BY ProviderConfigAssumption
<1>2. A \in SUBSET Nat /\ A # {}
  BY <1>1, ProviderConfigAssumption DEF ActiveIn
<1>3. PICK i \in A : \A j \in A : ~(j < i)
  BY <1>2, Least
<1>4. First(i) /\ i \in DOMAIN Order
  BY <1>1, <1>3
<1>5. (CHOOSE x \in DOMAIN Order : First(x)) \in DOMAIN Order
  BY <1>4
<1> QED
  BY <1>1, <1>5 DEF Current

(* An update leaves exactly its target active *)
LEMMA ChangedSettings ==
  ASSUME NEW cs \in Settings, NEW payload \in Updates, payload.provider = None => ActiveIn(cs) # {}
  PROVE  Changed(cs, payload) \in Settings /\ OneActive(Changed(cs, payload))
<1>1. PICK q : q = Target(cs, payload)
  OBVIOUS
<1>2. q \in Providers
  BY <1>1, CurrentIsOne DEF Target, Updates
<1>3. payload.field \in {"value", "key"} /\ payload.entered \in Entered
  BY ProviderConfigAssumption DEF Updates, Entered
<1>4. PICK ds : ds = [cs EXCEPT ![q][payload.field] = payload.entered]
  OBVIOUS
<1>5. ds \in Settings
  <2>1. CASE payload.field = "value"
    BY <1>2, <1>3, <1>4, <2>1 DEF Settings, Entry
  <2>2. CASE payload.field = "key"
    BY <1>2, <1>3, <1>4, <2>2 DEF Settings, Entry
  <2> QED
    BY <1>3, <2>1, <2>2
<1>6. Changed(cs, payload) = [p \in Providers |-> [ds[p] EXCEPT !.active = (p = q)]]
  BY <1>1, <1>4 DEF Changed, Activate
<1>7. PICK es : es = Changed(cs, payload)
  OBVIOUS
<1>8. ASSUME NEW p \in Providers PROVE es[p] \in Entry /\ es[p].active = (p = q)
  <2>1. PICK b \in BOOLEAN : b = (p = q)
    OBVIOUS
  <2>2. es[p] = [ds[p] EXCEPT !.active = b] /\ ds[p] \in Entry
    BY <1>5, <1>6, <1>7, <2>1 DEF Settings
  <2> QED
    BY <2>1, <2>2 DEF Entry
<1>9. es \in Settings
  BY <1>6, <1>7, <1>8 DEF Settings
<1>10. ActiveIn(es) = {q}
  BY <1>2, <1>8 DEF ActiveIn
<1> QED
  BY <1>2, <1>7, <1>9, <1>10 DEF OneActive

(* What load_from_db overlays is settings, of the user where he has any *)
LEMMA LoadedSettings ==
  ASSUME NEW u \in Users, NEW seen \in [{u, Global} -> [Kinds -> Row]], seen[Global] \in [Kinds -> Settings],
         \A k \in Kinds : AllOrNone(seen[u], k)
  PROVE  /\ Loaded(seen, u) \in [Kinds -> Settings]
         /\ \A k \in Kinds, p \in Providers :
                IF seen[u][k][p] # None THEN Loaded(seen, u)[k][p] = seen[u][k][p]
                ELSE Loaded(seen, u)[k][p].key = None
<1>1. ASSUME NEW k \in Kinds, NEW p \in Providers
      PROVE  /\ Loaded(seen, u)[k][p] \in Entry
             /\ IF seen[u][k][p] # None THEN Loaded(seen, u)[k][p] = seen[u][k][p]
                ELSE Loaded(seen, u)[k][p].key = None
  <2>1. PICK own, global : own = seen[u][k][p] /\ global = seen[Global][k][p]
    OBVIOUS
  <2>2. Loaded(seen, u)[k][p] = IF own # None THEN own ELSE [global EXCEPT !.key = None]
    BY <2>1 DEF Loaded, Overlaid, Shared
  <2>3. global \in Entry
    BY <2>1 DEF Settings
  <2>4. [global EXCEPT !.key = None] \in Entry /\ [global EXCEPT !.key = None].key = None
    BY <2>3 DEF Entry, Entered
  <2>5. own # None => own \in Entry
    BY <2>1 DEF AllOrNone, NoRows, Settings
  <2> QED
    BY <2>1, <2>2, <2>4, <2>5
<1>2. /\ Loaded(seen, u) = [k \in Kinds |-> Loaded(seen, u)[k]]
      /\ \A k \in Kinds : Loaded(seen, u)[k] = [p \in Providers |-> Loaded(seen, u)[k][p]]
  BY DEF Loaded
<1> QED
  BY <1>1, <1>2 DEF Settings

Assigned(hand, found, now) ==
    [f \in DOMAIN hand |-> IF f = "key" \/ hand[f] # found[f] THEN hand[f] ELSE now[f]]

(* The UPDATE of a row writes the whole entry over the row it found *)
LEMMA AssignedEntry ==
  ASSUME NEW hand \in Entry, NEW now \in Entry, NEW found
  PROVE  /\ Assigned(hand, found, now) \in Entry
         /\ found = now => Assigned(hand, found, now) = hand
<1>1. DOMAIN hand = {"value", "key", "active"} /\ hand = [f \in {"value", "key", "active"} |-> hand[f]]
  BY DEF Entry
<1>2. PICK mix : mix = Assigned(hand, found, now)
  OBVIOUS
<1>3. /\ mix = [f \in {"value", "key", "active"} |->
                    IF f = "key" \/ hand[f] # found[f] THEN hand[f] ELSE now[f]]
  BY <1>1, <1>2 DEF Assigned
<1>4. /\ mix["value"] \in Entered /\ mix["key"] \in Entered /\ mix["active"] \in BOOLEAN
  <2>1. hand["value"] \in Entered /\ now["value"] \in Entered /\ hand["key"] \in Entered
    BY DEF Entry
  <2>2. hand["active"] \in BOOLEAN /\ now["active"] \in BOOLEAN
    BY DEF Entry
  <2> QED
    BY <1>3, <2>1, <2>2
<1>5. mix \in Entry
  BY <1>3, <1>4 DEF Entry
<1>6. found = now => mix = hand
  BY <1>1, <1>3
<1> QED
  BY <1>2, <1>5, <1>6

LEMMA Rest ==
  ASSUME NEW todo \in Seq(Providers), todo # <<>>
  PROVE  /\ Head(todo) \in Providers /\ Tail(todo) \in Seq(Providers)
         /\ \A p : (\E i \in DOMAIN todo : todo[i] = p) =>
                p = Head(todo) \/ \E i \in DOMAIN Tail(todo) : Tail(todo)[i] = p
<1>1. /\ DOMAIN todo = 1 .. Len(todo) /\ Len(todo) \in Nat \ {0} /\ Head(todo) = todo[1]
      /\ DOMAIN Tail(todo) = 1 .. (Len(todo) - 1)
      /\ \A i \in 1 .. (Len(todo) - 1) : Tail(todo)[i] = todo[i + 1]
  OBVIOUS
<1>2. ASSUME NEW i \in DOMAIN todo, i # 1 PROVE \E j \in DOMAIN Tail(todo) : Tail(todo)[j] = todo[i]
  <2>1. i - 1 \in 1 .. (Len(todo) - 1) /\ (i - 1) + 1 = i
    BY <1>1, <1>2
  <2> QED
    BY <1>1, <2>1
<1> QED
  BY <1>1, <1>2

-----------------------------------------------------------------------------
(* Steps of one request *)

LEMMA IdleRequest == Idle \in Request
<1>1. <<>> \in Seq(Providers) /\ [p \in Providers |-> None] \in Row
  BY DEF Row
<1> QED
  BY <1>1 DEF Idle, Request

LEMMA StageStays ==
  ASSUME TypeInv, NEW g \in Handlers, Stage(g), request'[g] = request[g],
         rows[Global] # NoRows => rows'[Global] # NoRows,
         \A u \in Users, k \in Kinds : rows[u][k] \in Settings => rows'[u][k] \in Settings
  PROVE  Stage(g)'
<1>1. /\ Lists(request[g])' <=> Lists(request[g])
      /\ Saves(request[g])' <=> Saves(request[g])
      /\ Answered(request[g])' <=> Answered(request[g])
  BY DEF Lists, Saves, Answered, Left, AllOrNone
<1> QED
  BY <1>1 DEF Stage, Saves

LEMMA OneRequest ==
  ASSUME TypeInv, StageInv, NEW h \in Handlers, NEW r \in Request, request' = [request EXCEPT ![h] = r],
         rows' = rows, expected' = expected, memory' \in [Kinds -> Settings],
         asked' \in 0 .. MaxAsked, mixed' \subseteq Users, Stage(h)'
  PROVE  TypeInv' /\ StageInv'
<1>1. request' \in [Handlers -> Request] /\ \A g \in Handlers \ {h} : request'[g] = request[g]
  BY DEF TypeInv
<1>2. TypeInv'
  BY <1>1 DEF TypeInv, AllOrNone
<1>3. ASSUME NEW g \in Handlers, g # h PROVE Stage(g)'
  BY <1>1, <1>3, StageStays DEF StageInv
<1> QED
  BY <1>2, <1>3 DEF StageInv

LEMMA WritesStay ==
  ASSUME NEW g \in Handlers, Writes(request[g]), request'[g] = request[g], rows' = rows,
         memory' = memory \/ Untaken(request[g]) = <<>>
  PROVE  Writes(request[g])'
BY DEF Writes, Untaken, Left

(* A step that changes no row: it takes the memory from other updates only  *)
(* in front of witnesses                                                    *)
LEMMA ApartStays ==
  ASSUME TypeInv, StageInv, ApartInv, NEW h \in Handlers,
         \A g \in Handlers \ {h} : request'[g] = request[g],
         rows' = rows, expected' = expected, mixed \subseteq mixed',
         memory' = memory \/ \A g \in Handlers \ {h} : Untaken(request[g]) # <<>> => request[g].user \in mixed',
         \A u \in Users \ mixed' : UpdateOf(h, u)' =>
            UpdateOf(h, u) \/ \A g \in Handlers \ {h} : ~UpdateOf(g, u),
         Saving(h)' /\ request'[h].user \in Users \ mixed' => Writes(request[h])'
  PROVE  ApartInv'
<1> SUFFICES ASSUME NEW u \in Users, u \notin mixed' PROVE Apart(u)'
  BY DEF ApartInv
<1>1. Apart(u)
  BY DEF ApartInv
<1>2. \A g \in Handlers \ {h} : (UpdateOf(g, u)' <=> UpdateOf(g, u)) /\ (Saving(g)' <=> Saving(g))
  BY DEF UpdateOf, Saving, Updating
<1>3. Recorded(u)'
  BY <1>1 DEF Apart, Recorded
<1>4. ASSUME NEW f \in Handlers, NEW g \in Handlers, UpdateOf(f, u)', UpdateOf(g, u)' PROVE f = g
  <2>1. \A x, y \in Handlers : UpdateOf(x, u) /\ UpdateOf(y, u) => x = y
    BY <1>1 DEF Apart
  <2> QED
    BY <1>2, <1>4, <2>1
<1>5. ASSUME NEW g \in Handlers, Saving(g)', request'[g].user = u PROVE Writes(request[g])'
  <2>1. CASE g = h
    BY <1>5, <2>1
  <2>2. CASE g # h
    <3>1. Saving(g) /\ request[g].user = u
      BY <1>2, <1>5, <2>2
    <3>2. Writes(request[g]) /\ (memory' = memory \/ Untaken(request[g]) = <<>>)
      BY <1>1, <2>2, <3>1 DEF Apart
    <3> QED
      BY <2>2, <3>2, WritesStay
  <2> QED
    BY <2>1, <2>2
<1> QED
  BY <1>3, <1>4, <1>5 DEF Apart

Inv == TypeInv /\ StageInv /\ ApartInv

LEMMA AskStep ==
  ASSUME Inv, NEW h \in Handlers, NEW u \in Users, NEW op, NEW k \in Kinds, NEW payload, Ask(h, u, op, k, payload),
         \/ op = "read" /\ payload = None
         \/ op = "health" /\ payload \in [provider : Providers]
         \/ op = "update" /\ payload \in Updates
  PROVE  Inv'
<1> USE DEF Inv
<1>1. PICK r : r = [Idle EXCEPT !.pc = "list", !.op = op, !.user = u, !.kind = k, !.payload = payload]
  OBVIOUS
<1>2. r \in Request
  BY <1>1, IdleRequest DEF Request
<1>3. request' = [request EXCEPT ![h] = r]
  BY <1>1 DEF Ask
<1>4. /\ r.pc = "list" /\ r.op = op /\ r.user = u /\ r.kind = k /\ r.payload = payload /\ r.seen = None
  BY <1>1 DEF Idle
<1>5. request'[h] = r /\ \A g \in Handlers \ {h} : request'[g] = request[g]
  BY <1>3 DEF TypeInv
<1>6. Lists(r)
  BY <1>4 DEF Lists
<1>7. Lists(r)' /\ rows' = rows /\ rows[Global] # NoRows
  BY <1>6 DEF Lists, AllOrNone, Ask
<1>8. Stage(h)'
  BY <1>4, <1>5, <1>7 DEF Stage
<1>9. asked' \in 0 .. MaxAsked
  BY ProviderConfigAssumption DEF Ask, TypeInv
<1>10. mixed \subseteq mixed' /\ mixed' \subseteq Users
  BY DEF Ask, TypeInv
<1>11. UNCHANGED <<rows, memory, expected>> /\ memory' \in [Kinds -> Settings]
  BY DEF Ask, TypeInv
<1>12. TypeInv' /\ StageInv'
  BY <1>2, <1>3, <1>8, <1>9, <1>10, <1>11, OneRequest
<1>13. \A v : ~UpdateOf(h, v)'
  BY <1>4, <1>5 DEF UpdateOf, Updating, Saving
<1>14. ~Saving(h)'
  BY <1>4, <1>5 DEF Saving
<1>15. ApartInv'
  BY <1>5, <1>10, <1>11, <1>13, <1>14, ApartStays
<1> QED
  BY <1>12, <1>15

LEMMA ListAllStep ==
  ASSUME Inv, NEW h \in Handlers, ListAll(h)
  PROVE  Inv'
<1> USE DEF Inv
<1>1. request[h] \in Request /\ request[h].pc = "list" /\ Stage(h)
  BY DEF ListAll, TypeInv, StageInv
<1>2. Lists(request[h]) /\ rows[Global] # NoRows
  BY <1>1 DEF Stage
<1>3. PICK seen : seen = [o \in {request[h].user, Global} |-> rows[o]]
  OBVIOUS
<1>4. /\ seen \in [{request[h].user, Global} -> [Kinds -> Row]]
      /\ seen[Global] \in [Kinds -> Settings]
      /\ \A k \in Kinds : AllOrNone(seen[request[h].user], k)
  BY <1>2, <1>3 DEF Lists, TypeInv, Owners
<1>5. PICK r : r = [request[h] EXCEPT !.seen = seen]
  OBVIOUS
<1>6. r \in Request
  <2>1. request[h].user \in Users
    BY <1>2 DEF Lists
  <2>2. seen \in Seen
    BY <1>4, <2>1 DEF Seen
  <2> QED
    BY <1>1, <1>5, <2>2 DEF Request
<1>7. request' = [request EXCEPT ![h] = r]
  BY <1>3, <1>5 DEF ListAll
<1>8. /\ r.pc = "list" /\ r.op = request[h].op /\ r.user = request[h].user /\ r.kind = request[h].kind
      /\ r.payload = request[h].payload /\ r.seen = seen
  BY <1>1, <1>5 DEF Request
<1>9. request'[h] = r /\ \A g \in Handlers \ {h} : request'[g] = request[g]
  BY <1>7 DEF TypeInv
<1>10. Lists(r)
  BY <1>2, <1>4, <1>8 DEF Lists
<1>11. /\ UNCHANGED <<rows, memory, asked, expected>> /\ mixed \subseteq mixed' /\ mixed' \subseteq Users
       /\ r.op = "update" /\ (\E g \in Handlers : UpdateOf(g, r.user)) => r.user \in mixed'
  BY <1>2, <1>8 DEF ListAll, TypeInv, Lists, UpdateOf
<1>12. Lists(r)'
  BY <1>10 DEF Lists, AllOrNone
<1>13. Stage(h)'
  BY <1>2, <1>8, <1>9, <1>11, <1>12 DEF Stage
<1>14. TypeInv' /\ StageInv'
  BY <1>6, <1>7, <1>11, <1>13, OneRequest DEF TypeInv
<1>15. \A v \in Users \ mixed' : UpdateOf(h, v)' => \A g \in Handlers \ {h} : ~UpdateOf(g, v)
  BY <1>8, <1>9, <1>11 DEF UpdateOf, Updating, Saving
<1>16. ~Saving(h)'
  BY <1>8, <1>9 DEF Saving
<1>17. ApartInv'
  BY <1>9, <1>11, <1>15, <1>16, ApartStays
<1> QED
  BY <1>14, <1>17

LoadedBy(h) == Loaded(request[h].seen, request[h].user)

ConfigOf(h) ==
    IF request[h].op = "update" /\ ~Stops(h, LoadedBy(h))
    THEN [LoadedBy(h) EXCEPT ![request[h].kind] = Changed(@, request[h].payload)] ELSE LoadedBy(h)

LEMMA LoadsSettings ==
  ASSUME Inv, NEW h \in Handlers, request[h].pc = "list", request[h].seen # None
  PROVE  /\ Lists(request[h]) /\ rows[Global] # NoRows
         /\ LoadedBy(h) \in [Kinds -> Settings] /\ ConfigOf(h) \in [Kinds -> Settings]
         /\ \A k \in Kinds, p \in Providers :
                IF request[h].seen[request[h].user][k][p] # None
                THEN LoadedBy(h)[k][p] = request[h].seen[request[h].user][k][p]
                ELSE LoadedBy(h)[k][p].key = None
         /\ request[h].op = "update" /\ ~Stops(h, LoadedBy(h)) => OneActive(ConfigOf(h)[request[h].kind])
<1>1. Lists(request[h]) /\ rows[Global] # NoRows
  BY DEF Inv, StageInv, Stage
<1>2. /\ LoadedBy(h) \in [Kinds -> Settings]
      /\ \A k \in Kinds, p \in Providers :
                IF request[h].seen[request[h].user][k][p] # None
                THEN LoadedBy(h)[k][p] = request[h].seen[request[h].user][k][p]
                ELSE LoadedBy(h)[k][p].key = None
  BY <1>1, LoadedSettings DEF Lists, LoadedBy
<1>3. CASE request[h].op = "update" /\ ~Stops(h, LoadedBy(h))
  <2>1. PICK k, cs : k = request[h].kind /\ cs = LoadedBy(h)[k]
    OBVIOUS
  <2>2. k \in Kinds /\ cs \in Settings /\ request[h].payload \in Updates
    BY <1>1, <1>2, <1>3, <2>1 DEF Lists
  <2>3. request[h].payload.provider = None => ActiveIn(cs) # {}
    BY <1>3, <2>1 DEF Stops
  <2>4. Changed(cs, request[h].payload) \in Settings /\ OneActive(Changed(cs, request[h].payload))
    BY <2>2, <2>3, ChangedSettings
  <2>5. ConfigOf(h) = [LoadedBy(h) EXCEPT ![k] = Changed(cs, request[h].payload)]
    BY <1>3, <2>1 DEF ConfigOf
  <2>6. PICK ds : ds = Changed(cs, request[h].payload)
    OBVIOUS
  <2>7. ConfigOf(h) \in [Kinds -> Settings] /\ ConfigOf(h)[k] = ds
    BY <1>2, <2>2, <2>4, <2>5, <2>6
  <2> QED
    BY <1>1, <1>2, <2>1, <2>4, <2>6, <2>7
<1>4. CASE ~(request[h].op = "update" /\ ~Stops(h, LoadedBy(h)))
  BY <1>1, <1>2, <1>4 DEF ConfigOf
<1> QED
  BY <1>3, <1>4

LEMMA DisturbedUsers ==
  ASSUME Inv, NEW h \in Handlers
  PROVE  /\ Disturbed(h) \subseteq Users
         /\ \A g \in Handlers \ {h} : Untaken(request[g]) # <<>> => request[g].user \in Disturbed(h)
<1>1. ASSUME NEW g \in Handlers, Untaken(request[g]) # <<>> PROVE request[g].user \in Users
  BY <1>1 DEF Inv, StageInv, Stage, Saves, Untaken
<1> QED
  BY <1>1 DEF Disturbed

(* A request that ends, with an answer or without *)
LEMMA EndStep ==
  ASSUME Inv, NEW h \in Handlers, NEW r \in Request, request' = [request EXCEPT ![h] = r],
         r.pc \in {"idle", "answered"}, r.pc = "answered" => rows[Global] # NoRows /\ Answered(r),
         UNCHANGED <<rows, asked, expected>>, memory' \in [Kinds -> Settings],
         mixed \subseteq mixed', mixed' \subseteq Users,
         memory' = memory \/ Disturbed(h) \subseteq mixed'
  PROVE  Inv'
<1>1. request'[h] = r /\ \A g \in Handlers \ {h} : request'[g] = request[g]
  BY DEF Inv, TypeInv
<1>2. Answered(r)' <=> Answered(r)
  BY DEF Answered
<1>3. Stage(h)'
  BY <1>1, <1>2 DEF Stage
<1>4. TypeInv' /\ StageInv'
  BY <1>3, OneRequest DEF Inv, TypeInv
<1>5. ~Updating(h)' /\ ~Saving(h)'
  BY <1>1 DEF Updating, Saving
<1>6. \A u : ~UpdateOf(h, u)'
  BY <1>5 DEF UpdateOf
<1>7. memory' = memory \/ \A g \in Handlers \ {h} : Untaken(request[g]) # <<>> => request[g].user \in mixed'
  BY DisturbedUsers
<1>8. ApartInv'
  BY <1>1, <1>5, <1>6, <1>7, ApartStays DEF Inv
<1> QED
  BY <1>4, <1>8 DEF Inv

LEMMA AnswerRequest ==
  ASSUME Inv, NEW h \in Handlers, NEW answer \in Answers
  PROVE  \E r \in Request :
            /\ Answer(h, answer) = [request EXCEPT ![h] = r]
            /\ r.pc = "answered" /\ r.op = request[h].op /\ r.user = request[h].user
            /\ r.kind = request[h].kind /\ r.seen = request[h].seen /\ r.answer = answer
<1>1. PICK r : r = [Idle EXCEPT !.pc = "answered", !.op = request[h].op,
                        !.user = request[h].user, !.kind = request[h].kind,
                        !.seen = request[h].seen, !.answer = answer]
  OBVIOUS
<1>2. request[h] \in Request
  BY DEF Inv, TypeInv
<1>3. PICK q : q = request[h]
  OBVIOUS
<1>4. q.op \in {"none", "read", "health", "update"} /\ q.user \in Users \cup {None} /\ q.kind \in Kinds \cup {None}
      /\ q.seen \in {None} \cup Seen
  BY <1>2, <1>3 DEF Request
<1>5. r \in Request
  BY <1>1, <1>3, <1>4, IdleRequest DEF Request
<1>6. r.pc = "answered" /\ r.op = request[h].op /\ r.user = request[h].user
            /\ r.kind = request[h].kind /\ r.seen = request[h].seen /\ r.answer = answer
  BY <1>1 DEF Idle
<1> QED
  BY <1>1, <1>5, <1>6 DEF Answer

(* A request that goes on with its update *)
LEMMA SaverStep ==
  ASSUME Inv, NEW h \in Handlers, NEW r \in Request, request' = [request EXCEPT ![h] = r],
         Updating(h), r.user = request[h].user, r.pc \in {"get", "insert", "flush", "commit"},
         rows[Global] # NoRows, Saves(r), r.pc = "flush" => rows[r.user][r.kind] \in Settings,
         UNCHANGED <<rows, asked, expected>>, memory' \in [Kinds -> Settings],
         mixed \subseteq mixed', mixed' \subseteq Users,
         memory' = memory \/ Disturbed(h) \subseteq mixed',
         r.user \notin mixed' => Writes(r)'
  PROVE  Inv'
<1>1. request'[h] = r /\ \A g \in Handlers \ {h} : request'[g] = request[g]
  BY DEF Inv, TypeInv
<1>2. Saves(r)'
  BY DEF Saves, Left
<1>3. Stage(h)'
  BY <1>1, <1>2 DEF Stage
<1>4. TypeInv' /\ StageInv'
  BY <1>3, OneRequest DEF Inv, TypeInv
<1>5. \A u : UpdateOf(h, u)' => UpdateOf(h, u)
  BY <1>1 DEF UpdateOf
<1>6. Saving(h)' /\ request'[h].user \in Users \ mixed' => Writes(request[h])'
  BY <1>1 DEF Writes, Untaken, Left
<1>7. memory' = memory \/ \A g \in Handlers \ {h} : Untaken(request[g]) # <<>> => request[g].user \in mixed'
  BY DisturbedUsers
<1>8. ApartInv'
  BY <1>1, <1>5, <1>6, <1>7, ApartStays DEF Inv
<1> QED
  BY <1>4, <1>8 DEF Inv

LEMMA LoadStep ==
  ASSUME Inv, NEW h \in Handlers, Load(h)
  PROVE  Inv'
<1>1. request[h] \in Request /\ request[h].pc = "list" /\ request[h].seen # None
  BY DEF Load, Inv, TypeInv
<1>2. PICK config, k, loaded : config = ConfigOf(h) /\ k = request[h].kind /\ loaded = LoadedBy(h)
  OBVIOUS
<1>3. Lists(request[h]) /\ rows[Global] # NoRows /\ config \in [Kinds -> Settings] /\ k \in Kinds
  BY <1>1, <1>2, LoadsSettings DEF Lists
<1>4. /\ UNCHANGED <<rows, asked, expected>> /\ memory' \in [Kinds -> Settings] /\ memory' = config
      /\ mixed \subseteq mixed' /\ mixed' \subseteq Users /\ Disturbed(h) \subseteq mixed'
  BY <1>2, <1>3, DisturbedUsers DEF Load, ConfigOf, LoadedBy, Inv, TypeInv
<1>5. CASE Stops(h, loaded)
  <2>1. request' = [request EXCEPT ![h] = Idle]
    BY <1>2, <1>5 DEF Load, LoadedBy
  <2> QED
    BY <1>4, <2>1, IdleRequest, EndStep DEF Idle
<1>6. CASE ~Stops(h, loaded) /\ request[h].op = "read"
  <2>1. request' = Answer(h, config[k])
    BY <1>2, <1>6 DEF Load, ConfigOf, LoadedBy
  <2>2. config[k] \in Settings /\ config[k] \in Answers
    BY <1>3 DEF Answers
  <2>3. PICK r \in Request :
            /\ request' = [request EXCEPT ![h] = r]
            /\ r.pc = "answered" /\ r.op = request[h].op /\ r.user = request[h].user
            /\ r.kind = request[h].kind /\ r.seen = request[h].seen /\ r.answer = config[k]
    BY <2>1, <2>2, AnswerRequest
  <2>4. DOMAIN config[k] = Providers /\ config = LoadedBy(h)
    BY <1>2, <1>6, <2>2 DEF Settings, ConfigOf
  <2>5. Answered(r)
    BY <1>1, <1>2, <1>3, <2>3, <2>4, LoadsSettings DEF Answered
  <2> QED
    BY <1>3, <1>4, <2>3, <2>5, EndStep
<1>7. CASE ~Stops(h, loaded) /\ request[h].op = "health"
  <2>1. PICK q : q = request[h].payload.provider
    OBVIOUS
  <2>2. q \in Providers
    BY <1>3, <1>7, <2>1 DEF Lists
  <2>3. PICK answer : answer = [p \in {q} |-> config[k][p]]
    OBVIOUS
  <2>4. request' = Answer(h, answer)
    BY <1>2, <1>7, <2>1, <2>3 DEF Load, ConfigOf, LoadedBy
  <2>5. answer \in [{q} -> Entry] /\ answer[q] = config[k][q]
    BY <1>3, <2>2, <2>3 DEF Settings
  <2>6. answer \in Answers
    BY <2>2, <2>5 DEF Answers
  <2>7. PICK r \in Request :
            /\ request' = [request EXCEPT ![h] = r]
            /\ r.pc = "answered" /\ r.op = request[h].op /\ r.user = request[h].user
            /\ r.kind = request[h].kind /\ r.seen = request[h].seen /\ r.answer = answer
    BY <2>4, <2>6, AnswerRequest
  <2>8. DOMAIN answer = {q} /\ config = LoadedBy(h)
    BY <1>2, <1>7, <2>5 DEF ConfigOf
  <2>9. Answered(r)
    BY <1>1, <1>2, <1>3, <2>2, <2>5, <2>7, <2>8, LoadsSettings DEF Answered
  <2> QED
    BY <1>3, <1>4, <2>7, <2>9, EndStep
<1>8. CASE ~Stops(h, loaded) /\ request[h].op = "update"
  <2>1. PICK goal : goal = config[k]
    OBVIOUS
  <2>2. PICK r : r = [request[h] EXCEPT !.pc = "get", !.todo = Order, !.hand = goal[Order[1]], !.goal = goal]
    OBVIOUS
  <2>3. request' = [request EXCEPT ![h] = r]
    <3>1. request' = [request EXCEPT ![h].pc = "get", ![h].todo = Order,
                                     ![h].hand = config[k][Order[1]], ![h].goal = config[k]]
      BY <1>2, <1>8 DEF Load, ConfigOf, LoadedBy
    <3>2. request' = [request EXCEPT ![h].pc = "get", ![h].todo = Order,
                                     ![h].hand = goal[Order[1]], ![h].goal = goal]
      BY <2>1, <3>1
    <3> QED
      BY <2>2, <3>2
  <2>4. Order \in Seq(Providers) /\ Order # <<>> /\ Head(Order) = Order[1] /\ Order[1] \in Providers
    BY ProviderConfigAssumption
  <2>5. goal \in Settings /\ goal[Order[1]] \in Entry
    BY <1>3, <2>1, <2>4 DEF Settings
  <2>6. r \in Request
    BY <1>1, <2>2, <2>4, <2>5 DEF Request
  <2>7. /\ r.pc = "get" /\ r.todo = Order /\ r.hand = goal[Order[1]] /\ r.goal = goal
        /\ r.user = request[h].user /\ r.kind = k /\ r.op = "update"
    BY <1>1, <1>2, <1>8, <2>2 DEF Request
  <2>8. Left(r) = Providers
    BY <2>7, ProviderConfigAssumption DEF Left
  <2>9. Saves(r)
    BY <1>3, <2>4, <2>5, <2>7, <2>8 DEF Saves, Lists
  <2>10. OneActive(goal)
    BY <1>1, <1>2, <1>8, <2>1, LoadsSettings
  <2>11. Writes(r)'
    BY <1>4, <2>1, <2>4, <2>7, <2>8, <2>10 DEF Writes, Left
  <2>12. Updating(h)
    BY <1>1, <1>8 DEF Updating
  <2> QED
    BY <1>1, <1>3, <1>4, <1>8, <2>3, <2>6, <2>7, <2>9, <2>11, <2>12, SaverStep
<1> QED
  BY <1>3, <1>5, <1>6, <1>7, <1>8 DEF Lists

LEMMA RejectStep ==
  ASSUME Inv, NEW h \in Handlers, Reject(h)
  PROVE  Inv'
<1>1. /\ request[h].pc = "list" /\ request[h].seen # None /\ request[h].op = "update"
      /\ ~Stops(h, LoadedBy(h))
  BY DEF Reject, LoadedBy
<1>2. PICK loaded, k, payload : loaded = LoadedBy(h) /\ k = request[h].kind /\ payload = request[h].payload
  OBVIOUS
<1>3. PICK q, v : q = Target(loaded[k], payload) /\ v = payload.entered
  OBVIOUS
<1>4. loaded \in [Kinds -> Settings] /\ k \in Kinds /\ payload \in Updates
  BY <1>1, <1>2, LoadsSettings DEF Lists
<1>5. v \in Entered /\ q \in Providers
  <2>1. payload.provider = None => ActiveIn(loaded[k]) # {}
    BY <1>1, <1>2 DEF Stops
  <2> QED
    BY <1>3, <1>4, <2>1, CurrentIsOne DEF Target, Updates, Entered
<1>6. memory' = loaded \/ memory' = [loaded EXCEPT ![k][q].value = v]
  BY <1>2, <1>3 DEF Reject, LoadedBy
<1>7. [loaded EXCEPT ![k][q].value = v] \in [Kinds -> Settings]
  <2>1. loaded[k] \in [Providers -> Entry] /\ loaded[k][q] \in Entry
    BY <1>4, <1>5 DEF Settings
  <2>2. PICK e : e = [loaded[k][q] EXCEPT !.value = v]
    OBVIOUS
  <2>3. e \in Entry
    BY <1>5, <2>1, <2>2 DEF Entry
  <2>4. PICK s : s = [loaded[k] EXCEPT ![q] = e]
    OBVIOUS
  <2>5. s \in Settings
    BY <2>1, <2>3, <2>4 DEF Settings
  <2>6. [loaded EXCEPT ![k][q].value = v] = [loaded EXCEPT ![k] = s]
    BY <2>2, <2>4
  <2> QED
    BY <1>4, <2>5, <2>6
<1>8. /\ UNCHANGED <<rows, asked, expected>> /\ request' = [request EXCEPT ![h] = Idle]
      /\ mixed \subseteq mixed' /\ mixed' \subseteq Users /\ Disturbed(h) \subseteq mixed'
  BY DisturbedUsers DEF Reject, Inv, TypeInv
<1> QED
  BY <1>4, <1>6, <1>7, <1>8, IdleRequest, EndStep DEF Idle

LEMMA NextTaken ==
  ASSUME Inv, NEW h \in Handlers, Saves(request[h]), request[h].pc \in {"get", "insert"}
  PROVE  /\ Tail(request[h].todo) = <<>> => NextHand(h) = None
         /\ Tail(request[h].todo) # <<>> =>
                /\ NextHand(h) \in Entry
                /\ request[h].user \notin mixed => NextHand(h) = request[h].goal[Head(Tail(request[h].todo))]
<1>1. PICK k, rest : k = request[h].kind /\ rest = Tail(request[h].todo)
  OBVIOUS
<1>2. k \in Kinds /\ rest \in Seq(Providers)
  BY <1>1, Rest DEF Saves, Inv, TypeInv, Request
<1>3. NextHand(h) = IF rest = <<>> THEN None ELSE memory[k][Head(rest)]
  BY <1>1 DEF NextHand
<1>4. ASSUME rest # <<>>
      PROVE  /\ NextHand(h) \in Entry
             /\ request[h].user \notin mixed => NextHand(h) = request[h].goal[Head(rest)]
  <2>1. Head(rest) \in Providers
    BY <1>2, <1>4
  <2>2. memory[k][Head(rest)] \in Entry
    BY <1>2, <2>1 DEF Inv, TypeInv, Settings
  <2>3. ASSUME request[h].user \notin mixed PROVE memory[k] = request[h].goal
    <3>1. Writes(request[h])
      BY <2>3 DEF Inv, ApartInv, Apart, Saving, Saves
    <3>2. Untaken(request[h]) # <<>>
      BY <1>1, <1>4 DEF Untaken
    <3> QED
      BY <1>1, <3>1, <3>2 DEF Writes
  <2> QED
    BY <1>3, <1>4, <2>2, <2>3
<1> QED
  BY <1>1, <1>3, <1>4

LEMMA GetOwnStep ==
  ASSUME Inv, NEW h \in Handlers, GetOwn(h)
  PROVE  Inv'
<1>1. request[h] \in Request /\ request[h].pc = "get" /\ Stage(h)
  BY DEF GetOwn, Inv, TypeInv, StageInv
<1>2. Saves(request[h]) /\ rows[Global] # NoRows
  BY <1>1 DEF Stage
<1>3. PICK u, k, p, own : u = request[h].user /\ k = request[h].kind /\ p = Head(request[h].todo) /\ own = rows[u][k][p]
  OBVIOUS
<1>4. u \in Users /\ k \in Kinds /\ u \in Owners /\ request[h].op = "update"
  BY <1>2, <1>3 DEF Saves, Owners
<1>5. request[h].todo \in Seq(Providers) /\ request[h].todo # <<>>
  BY <1>1, <1>2 DEF Saves, Request
<1>6. p \in Providers
  BY <1>3, <1>5
<1>7. own \in {None} \cup Entry
  BY <1>3, <1>4, <1>6 DEF Inv, TypeInv, Row
<1>8. PICK next : next = NextHand(h)
  OBVIOUS
<1>9. /\ next \in {None} \cup Entry
      /\ Tail(request[h].todo) = <<>> => next = None
      /\ Tail(request[h].todo) # <<>> =>
            /\ next \in Entry
            /\ u \notin mixed => next = request[h].goal[Head(Tail(request[h].todo))]
  BY <1>1, <1>2, <1>3, <1>8, NextTaken
<1>10. UNCHANGED <<rows, memory, asked, expected, mixed>>
  BY DEF GetOwn
<1>11. memory' \in [Kinds -> Settings] /\ mixed' \subseteq Users /\ Updating(h)
  BY <1>1, <1>10 DEF Inv, TypeInv, Updating, Saving
<1>12. u \notin mixed' => Writes(request[h])
  BY <1>1, <1>3, <1>4, <1>10 DEF Inv, ApartInv, Apart, Saving
<1>13. CASE own = None
  <2>1. PICK r : r = [request[h] EXCEPT !.pc = "insert"]
    OBVIOUS
  <2>2. request' = [request EXCEPT ![h] = r]
    BY <1>3, <1>13, <2>1 DEF GetOwn, Own, Provider
  <2>3. r \in Request
    BY <1>1, <2>1 DEF Request
  <2>4. /\ r.pc = "insert" /\ r.user = u /\ r.kind = k /\ r.op = "update" /\ r.todo = request[h].todo
        /\ r.hand = request[h].hand /\ r.writes = request[h].writes /\ r.goal = request[h].goal
    BY <1>1, <1>3, <1>4, <2>1 DEF Request
  <2>5. Left(r) = Left(request[h]) /\ Untaken(r) = Untaken(request[h])
    BY <1>1, <2>4 DEF Left, Untaken
  <2>6. Saves(r)
    BY <1>1, <1>2, <1>3, <2>4, <2>5 DEF Saves
  <2>7. ASSUME u \notin mixed' PROVE Writes(r)'
    <3>1. Writes(r)
      BY <1>1, <1>3, <1>12, <1>13, <2>4, <2>5, <2>7 DEF Writes
    <3> QED
      BY <1>10, <3>1 DEF Writes, Untaken, Left
  <2> QED
    BY <1>2, <1>3, <1>10, <1>11, <2>2, <2>3, <2>4, <2>6, <2>7, SaverStep
<1>14. CASE own # None
  <2>1. PICK r : r = [request[h] EXCEPT !.pc = "flush", !.found = own, !.next = next]
    OBVIOUS
  <2>2. request' = [request EXCEPT ![h] = r]
    <3>1. request' = [request EXCEPT ![h].pc = "flush", ![h].found = own, ![h].next = next]
      BY <1>3, <1>8, <1>14 DEF GetOwn, Own, Provider
    <3> QED
      BY <2>1, <3>1
  <2>3. r \in Request
    BY <1>1, <1>7, <1>9, <2>1 DEF Request
  <2>4. /\ r.pc = "flush" /\ r.user = u /\ r.kind = k /\ r.op = "update" /\ r.todo = request[h].todo
        /\ r.hand = request[h].hand /\ r.writes = request[h].writes /\ r.goal = request[h].goal
        /\ r.found = own /\ r.next = next
    BY <1>1, <1>3, <1>4, <2>1 DEF Request
  <2>5. Left(r) = Left(request[h])
    BY <2>4 DEF Left
  <2>6. Saves(r)
    BY <1>1, <1>2, <1>3, <1>9, <2>4, <2>5 DEF Saves
  <2>7. rows[u][k] \in Settings
    BY <1>3, <1>4, <1>6, <1>14 DEF Inv, TypeInv, AllOrNone, NoRows
  <2>8. ASSUME u \notin mixed' PROVE Writes(r)'
    <3>1. Untaken(r) # <<>> => Untaken(request[h]) # <<>>
      BY <1>1, <1>9, <2>4 DEF Untaken
    <3>2. Writes(r)
      BY <1>1, <1>3, <1>9, <1>10, <1>12, <2>4, <2>5, <2>8, <3>1 DEF Writes
    <3> QED
      BY <1>10, <3>2 DEF Writes, Untaken, Left
  <2> QED
    BY <1>2, <1>3, <1>10, <1>11, <2>2, <2>3, <2>4, <2>6, <2>7, <2>8, SaverStep
<1> QED
  BY <1>13, <1>14

(* The loop moves on after it has written an entry *)
LEMMA AdvanceStep ==
  ASSUME Inv, NEW h \in Handlers, NEW write \in Entry, NEW hand, Advance(h, write, hand),
         request[h].pc \in {"insert", "flush"}, UNCHANGED <<rows, memory, asked, expected, mixed>>,
         request[h].user \notin mixed => write = request[h].hand,
         Tail(request[h].todo) = <<>> => hand = None,
         Tail(request[h].todo) # <<>> =>
            /\ hand \in Entry
            /\ request[h].user \notin mixed => hand = request[h].goal[Head(Tail(request[h].todo))]
  PROVE  Inv'
<1>1. request[h] \in Request /\ Stage(h)
  BY DEF Inv, TypeInv, StageInv
<1>2. Saves(request[h]) /\ rows[Global] # NoRows
  BY <1>1 DEF Stage
<1>3. PICK u, k, p, rest : u = request[h].user /\ k = request[h].kind
                           /\ p = Head(request[h].todo) /\ rest = Tail(request[h].todo)
  OBVIOUS
<1>4. u \in Users /\ k \in Kinds /\ request[h].op = "update"
  BY <1>2, <1>3 DEF Saves
<1>5. request[h].todo \in Seq(Providers) /\ request[h].todo # <<>>
  BY <1>1, <1>2 DEF Saves, Request
<1>6. /\ p \in Providers /\ rest \in Seq(Providers)
      /\ \A q \in Left(request[h]) : q = p \/ \E i \in DOMAIN rest : rest[i] = q
  BY <1>3, <1>5, Rest DEF Left
<1>7. hand \in {None} \cup Entry
  BY <1>3
<1>8. PICK writes : writes = [request[h].writes EXCEPT ![p] = write]
  OBVIOUS
<1>9. writes \in Row /\ writes[p] = write /\ \A q \in Providers \ {p} : writes[q] = request[h].writes[q]
  BY <1>1, <1>6, <1>8 DEF Request, Row
<1>10. PICK pc \in {"commit", "get"} : pc = IF rest = <<>> THEN "commit" ELSE "get"
  OBVIOUS
<1>11. PICK r : r = [request[h] EXCEPT !.writes = writes, !.todo = rest, !.found = None, !.next = None,
                                       !.hand = hand, !.pc = pc]
  OBVIOUS
<1>12. request' = [request EXCEPT ![h] = r]
  BY <1>3, <1>8, <1>10, <1>11 DEF Advance, Provider
<1>13. r \in Request
  BY <1>1, <1>6, <1>7, <1>9, <1>11 DEF Request
<1>14. /\ r.writes = writes /\ r.todo = rest /\ r.pc = pc /\ r.hand = hand
       /\ r.user = u /\ r.kind = k /\ r.op = "update" /\ r.goal = request[h].goal
  BY <1>1, <1>3, <1>4, <1>11 DEF Request
<1>15. \A q \in Providers \ Left(r) : q = p \/ q \in Providers \ Left(request[h])
  BY <1>6, <1>14 DEF Left
<1>16. Saves(r)
  <2>1. \A q \in Providers \ Left(r) : r.writes[q] \in Entry
    BY <1>2, <1>9, <1>14, <1>15 DEF Saves
  <2> QED
    BY <1>2, <1>3, <1>4, <1>10, <1>14, <2>1 DEF Saves
<1>17. ASSUME u \notin mixed' PROVE Writes(r)'
  <2>1. Writes(request[h]) /\ write = request[h].hand
    BY <1>1, <1>3, <1>4, <1>17 DEF Inv, ApartInv, Apart, Saving
  <2>2. write = request[h].goal[p]
    BY <1>3, <2>1 DEF Writes
  <2>3. \A q \in Providers \ Left(r) : r.writes[q] = r.goal[q]
    BY <1>9, <1>14, <1>15, <2>1, <2>2 DEF Writes
  <2>4. r.pc # "commit" => r.hand = r.goal[Head(r.todo)]
    BY <1>3, <1>10, <1>14, <1>17
  <2>5. Untaken(r) # <<>> => Untaken(request[h]) # <<>>
    BY <1>2, <1>3, <1>10, <1>14 DEF Untaken, Saves
  <2>6. Writes(r)
    BY <1>3, <1>10, <1>14, <2>1, <2>3, <2>4, <2>5 DEF Writes
  <2> QED
    BY <2>6 DEF Writes, Untaken, Left
<1>18. memory' \in [Kinds -> Settings] /\ mixed' \subseteq Users /\ Updating(h)
  BY DEF Inv, TypeInv, Updating, Saving
<1>19. r.pc \in {"get", "commit"} /\ r.user = request[h].user
  BY <1>3, <1>10, <1>14
<1> QED
  BY <1>2, <1>4, <1>12, <1>13, <1>14, <1>16, <1>17, <1>18, <1>19, SaverStep

LEMMA AddRowStep ==
  ASSUME Inv, NEW h \in Handlers, AddRow(h)
  PROVE  Inv'
<1>1. Saves(request[h]) /\ request[h].pc = "insert" /\ UNCHANGED <<rows, memory, asked, expected, mixed>>
  BY DEF AddRow, Inv, StageInv, Stage
<1>2. CASE Own(h, Provider(h)) = None
  <2>1. Advance(h, request[h].hand, NextHand(h)) /\ request[h].hand \in Entry
    BY <1>1, <1>2 DEF AddRow, Saves
  <2> QED
    BY <1>1, <2>1, NextTaken, AdvanceStep
<1>3. CASE Own(h, Provider(h)) # None
  <2>1. request' = [request EXCEPT ![h] = Idle]
    BY <1>3 DEF AddRow
  <2>2. memory' \in [Kinds -> Settings] /\ mixed' \subseteq Users
    BY <1>1 DEF Inv, TypeInv
  <2> QED
    BY <1>1, <2>1, <2>2, IdleRequest, EndStep DEF Idle
<1> QED
  BY <1>2, <1>3

LEMMA AssignRowStep ==
  ASSUME Inv, NEW h \in Handlers, AssignRow(h)
  PROVE  Inv'
<1>1. Saves(request[h]) /\ request[h].pc = "flush" /\ UNCHANGED <<rows, memory, asked, expected, mixed>>
  BY DEF AssignRow, Inv, StageInv, Stage
<1>2. PICK hand, found, now : hand = request[h].hand /\ found = request[h].found /\ now = Own(h, Provider(h))
  OBVIOUS
<1>3. hand \in Entry /\ request[h].todo \in Seq(Providers) /\ request[h].todo # <<>>
  BY <1>1, <1>2 DEF Saves, Inv, TypeInv, Request
<1>4. now \in Entry
  <2>1. rows[request[h].user][request[h].kind] \in Settings
    BY <1>1 DEF Inv, StageInv, Stage
  <2>2. Head(request[h].todo) \in Providers
    BY <1>3
  <2> QED
    BY <1>2, <2>1, <2>2 DEF Own, Provider, Settings
<1>5. Advance(h, Assigned(hand, found, now), request[h].next)
  BY <1>2 DEF AssignRow, Assigned
<1>6. Assigned(hand, found, now) \in Entry /\ (found = now => Assigned(hand, found, now) = hand)
  BY <1>3, <1>4, AssignedEntry
<1>7. ASSUME request[h].user \notin mixed PROVE Assigned(hand, found, now) = hand
  <2>1. Writes(request[h])
    BY <1>1, <1>7 DEF Inv, ApartInv, Apart, Saving, Updating, Saves
  <2>2. found = now
    BY <1>1, <1>2, <2>1 DEF Writes, Own, Provider
  <2> QED
    BY <1>6, <2>2
<1>8. /\ Tail(request[h].todo) = <<>> => request[h].next = None
      /\ Tail(request[h].todo) # <<>> =>
            /\ request[h].next \in Entry
            /\ request[h].user \notin mixed => request[h].next = request[h].goal[Head(Tail(request[h].todo))]
  <2>1. IF Tail(request[h].todo) = <<>> THEN request[h].next = None ELSE request[h].next \in Entry
    BY <1>1 DEF Saves
  <2>2. request[h].user \notin mixed => Writes(request[h])
    BY <1>1 DEF Inv, ApartInv, Apart, Saving, Saves
  <2> QED
    BY <1>1, <2>1, <2>2 DEF Writes
<1> QED
  BY <1>1, <1>2, <1>5, <1>6, <1>7, <1>8, AdvanceStep

(* The commit of an update: the user's rows become what the request wrote *)
LEMMA SaveAllStep ==
  ASSUME Inv, NEW h \in Handlers, SaveAll(h)
  PROVE  Inv'
<1>1. request[h] \in Request /\ Saves(request[h]) /\ request[h].pc = "commit" /\ rows[Global] # NoRows
  BY DEF SaveAll, Inv, TypeInv, StageInv, Stage
<1>2. PICK u, k, w, goal : u = request[h].user /\ k = request[h].kind
                           /\ w = request[h].writes /\ goal = request[h].goal
  OBVIOUS
<1>3. u \in Users /\ k \in Kinds /\ request[h].op = "update" /\ u \in Owners /\ u # Global
      /\ goal \in Settings /\ w \in Row
  BY <1>1, <1>2, ProviderConfigAssumption DEF Saves, Owners, Request
<1>4. \A p \in Providers : w[p] \in Entry
  BY <1>1, <1>2 DEF Saves, Left
<1>5. w \in Settings
  BY <1>3, <1>4 DEF Row, Settings
<1>6. /\ rows' = [rows EXCEPT ![u][k] = w] /\ expected' = [expected EXCEPT ![u][k] = goal]
      /\ UNCHANGED <<memory, asked, mixed>>
  BY <1>2 DEF SaveAll
<1>7. goal \in Row
  BY <1>3 DEF Settings, Row
<1>8. /\ rows' \in [Owners -> [Kinds -> Row]] /\ expected' \in [Users -> [Kinds -> Row]]
      /\ \A o \in Owners : o # u => rows'[o] = rows[o]
      /\ \A v \in Users : v # u => expected'[v] = expected[v]
      /\ \A j \in Kinds : j # k => rows'[u][j] = rows[u][j] /\ expected'[u][j] = expected[u][j]
      /\ rows'[u][k] = w /\ expected'[u][k] = goal
  BY <1>3, <1>6, <1>7 DEF Inv, TypeInv
<1>9. rows'[Global] = rows[Global]
  BY <1>3, <1>8 DEF Owners
<1>10. PICK r \in Request : request' = [request EXCEPT ![h] = r]
                            /\ (r.pc = "idle" \/ (r.pc = "answered" /\ r.op = "update"))
  <2>1. CASE NoneActive(memory)
    BY <2>1, IdleRequest DEF SaveAll, Idle
  <2>2. CASE ~NoneActive(memory)
    <3>1. request' = Answer(h, memory[k])
      BY <1>2, <2>2 DEF SaveAll
    <3>2. memory[k] \in Answers
      BY <1>3 DEF Inv, TypeInv, Answers
    <3>3. PICK r \in Request : request' = [request EXCEPT ![h] = r] /\ r.pc = "answered" /\ r.op = request[h].op
      BY <3>1, <3>2, AnswerRequest
    <3> QED
      BY <1>3, <3>3
  <2> QED
    BY <2>1, <2>2
<1>11. /\ request' \in [Handlers -> Request] /\ request'[h] = r
       /\ \A g \in Handlers \ {h} : request'[g] = request[g]
  BY <1>10 DEF Inv, TypeInv
<1>12. TypeInv'
  <2>1. \A o \in Owners, j \in Kinds : AllOrNone(rows'[o], j)
    BY <1>3, <1>5, <1>8 DEF Inv, TypeInv, AllOrNone
  <2>2. AllOrNone(rows'[Global], k) <=> AllOrNone(rows[Global], k)
    BY <1>9
  <2> QED
    BY <1>6, <1>8, <1>9, <1>11, <2>1 DEF Inv, TypeInv, AllOrNone
<1>13. StageInv'
  <2>1. \A v \in Users, j \in Kinds : rows[v][j] \in Settings => rows'[v][j] \in Settings
    BY <1>5, <1>8 DEF Owners
  <2>2. ASSUME NEW g \in Handlers, g # h PROVE Stage(g)'
    BY <1>9, <1>11, <2>1, <2>2, StageStays DEF Inv, StageInv
  <2>3. Stage(h)'
    BY <1>1, <1>9, <1>10, <1>11 DEF Stage, Answered
  <2> QED
    BY <2>2, <2>3 DEF StageInv
<1>14. ASSUME NEW v \in Users \ mixed PROVE Apart(v)'
  <2>1. Apart(v)
    BY DEF Inv, ApartInv
  <2>2. /\ ~Updating(h)' /\ ~Saving(h)'
        /\ \A g \in Handlers \ {h} : (Updating(g)' <=> Updating(g)) /\ (Saving(g)' <=> Saving(g))
    BY <1>10, <1>11 DEF Updating, Saving
  <2>3. Recorded(v)'
    <3>1. CASE v # u
      BY <1>8, <2>1, <3>1 DEF Apart, Recorded, Owners
    <3>2. CASE v = u
      <4>1. Writes(request[h])
        BY <1>1, <1>2, <1>3, <2>1, <3>2 DEF Apart, Saving, Updating
      <4>2. \A p \in Providers : w[p] = goal[p]
        BY <1>1, <1>2, <4>1 DEF Writes, Saves, Left
      <4>3. w = goal
        BY <1>3, <1>5, <4>2 DEF Settings
      <4>4. OneActive(goal)
        BY <1>2, <4>1 DEF Writes
      <4>5. \A j \in Kinds : /\ rows[u][j] = expected[u][j]
                             /\ rows[u][j] # NoRows[j] => OneActive(rows[u][j])
        BY <2>1, <3>2 DEF Apart, Recorded
      <4> QED
        BY <1>8, <3>2, <4>3, <4>4, <4>5 DEF Recorded
    <3> QED
      BY <3>1, <3>2
  <2>4. \A f, g \in Handlers : UpdateOf(f, v)' /\ UpdateOf(g, v)' => f = g
    BY <1>11, <2>1, <2>2 DEF Apart, UpdateOf
  <2>5. ASSUME NEW g \in Handlers, Saving(g)', request'[g].user = v PROVE Writes(request[g])'
    <3>1. g # h /\ request'[g] = request[g] /\ Saving(g) /\ request[g].user = v
      BY <1>11, <2>2, <2>5
    <3>2. Writes(request[g]) /\ UpdateOf(g, v)
      BY <2>1, <3>1 DEF Apart, UpdateOf, Saving, Updating
    <3>3. v # u
      BY <1>1, <1>2, <1>3, <2>1, <3>1, <3>2 DEF Apart, UpdateOf, Updating, Saving
    <3>4. rows'[v] = rows[v]
      BY <1>8, <3>3 DEF Owners
    <3> QED
      BY <1>6, <3>1, <3>2, <3>4 DEF Writes, Left
  <2> QED
    BY <2>3, <2>4, <2>5 DEF Apart
<1> QED
  BY <1>6, <1>12, <1>13, <1>14 DEF Inv, ApartInv

LEMMA RespondStep ==
  ASSUME Inv, NEW h \in Handlers, Respond(h)
  PROVE  Inv'
<1>1. /\ request' = [request EXCEPT ![h] = Idle]
      /\ UNCHANGED <<rows, memory, asked, expected, mixed>>
  BY DEF Respond
<1>2. memory' \in [Kinds -> Settings] /\ mixed' \subseteq Users
  BY <1>1 DEF Inv, TypeInv
<1> QED
  BY <1>1, <1>2, IdleRequest, EndStep DEF Idle

LEMMA SeedStep ==
  ASSUME Inv, SeedDefaults
  PROVE  Inv'
<1>1. /\ rows' = [rows EXCEPT ![Global] = memory] /\ rows[Global] = NoRows
      /\ UNCHANGED <<memory, request, asked, expected, mixed>>
  BY DEF SeedDefaults
<1>2. Global \in Owners /\ memory \in [Kinds -> Row]
  <2>1. Settings \subseteq Row
    BY DEF Settings, Row
  <2> QED
    BY <2>1 DEF Inv, TypeInv, Owners
<1>3. /\ rows' \in [Owners -> [Kinds -> Row]] /\ rows'[Global] = memory
      /\ \A u \in Users : rows'[u] = rows[u]
  BY <1>1, <1>2, ProviderConfigAssumption DEF Inv, TypeInv, Owners
<1>4. \A h \in Handlers : request[h].pc = "idle"
  BY <1>1 DEF Inv, StageInv, Stage
<1>5. TypeInv'
  <2>1. \A o \in Owners, k \in Kinds : AllOrNone(rows'[o], k)
    BY <1>3 DEF Inv, TypeInv, AllOrNone, Owners
  <2> QED
    BY <1>1, <1>3, <2>1 DEF Inv, TypeInv, AllOrNone
<1>6. StageInv'
  BY <1>1, <1>4 DEF StageInv, Stage
<1>7. ASSUME NEW u \in Users \ mixed PROVE Apart(u)'
  <2>1. Recorded(u)'
    BY <1>1, <1>3 DEF Inv, ApartInv, Apart, Recorded
  <2>2. \A h \in Handlers : ~Updating(h)' /\ ~Saving(h)'
    BY <1>1, <1>4 DEF Updating, Saving
  <2> QED
    BY <2>1, <2>2 DEF Apart, UpdateOf
<1> QED
  BY <1>1, <1>5, <1>6, <1>7 DEF Inv, ApartInv

LEMMA InvInit == ConfigInit => Inv
<1> SUFFICES ASSUME ConfigInit PROVE Inv
  OBVIOUS
<1>1. NoRows \in [Kinds -> Row]
  BY DEF NoRows, Row
<1>2. \A p \in Providers : Initial(p) \in Entry
  <2>1. ASSUME NEW p \in Providers PROVE Initial(p) \in Entry
    <3>1. PICK b \in BOOLEAN : b = (p = Order[1])
      OBVIOUS
    <3>2. PICK v \in Entered : v = IF p = Order[1] THEN Default ELSE None
      BY DEF Entered
    <3>3. Initial(p) = [value |-> v, key |-> v, active |-> b]
      BY <3>1, <3>2 DEF Initial
    <3> QED
      BY <3>3 DEF Entry
  <2> QED
    BY <2>1
<1>3. memory \in [Kinds -> Settings]
  BY <1>2 DEF ConfigInit, Settings
<1>4. \A h \in Handlers : request[h].pc = "idle"
  BY DEF ConfigInit, Idle
<1>5. TypeInv
  <2>1. rows \in [Owners -> [Kinds -> Row]] /\ \A o \in Owners : rows[o] = NoRows
    BY <1>1 DEF ConfigInit
  <2>2. rows[Global] = NoRows
    BY <2>1 DEF Owners
  <2>3. request \in [Handlers -> Request]
    BY IdleRequest DEF ConfigInit
  <2>4. asked \in 0 .. MaxAsked
    BY ProviderConfigAssumption DEF ConfigInit
  <2> QED
    BY <1>1, <1>3, <2>1, <2>2, <2>3, <2>4 DEF ConfigInit, TypeInv, AllOrNone
<1>6. StageInv
  BY <1>4 DEF StageInv, Stage
<1>7. ASSUME NEW u \in Users PROVE Apart(u)
  <2>1. Recorded(u)
    BY DEF ConfigInit, Recorded, Owners
  <2>2. \A h \in Handlers : ~Updating(h) /\ ~Saving(h)
    BY <1>4 DEF Updating, Saving
  <2> QED
    BY <2>1, <2>2 DEF Apart, UpdateOf
<1> QED
  BY <1>5, <1>6, <1>7 DEF Inv, ApartInv

LEMMA InvNext == Inv /\ [ConfigNext]_configVars => Inv'
<1> SUFFICES ASSUME Inv, [ConfigNext]_configVars PROVE Inv'
  OBVIOUS
<1>1. CASE SeedDefaults
  BY <1>1, SeedStep
<1>2. ASSUME NEW h \in Handlers, NEW u \in Users,
             ListProviders(h, u) \/ UpdateDefaults(h, u) \/ \E p \in Providers : CheckHealth(h, u, p)
      PROVE  Inv'
  <2>1. CASE ListProviders(h, u)
    <3>1. PICK k \in Kinds : Ask(h, u, "read", k, None)
      BY <2>1 DEF ListProviders
    <3> QED
      BY <3>1, AskStep
  <2>2. CASE UpdateDefaults(h, u)
    <3>1. PICK k \in Kinds, p \in Providers \cup {None}, f \in Fields :
              Ask(h, u, "update", k, [provider |-> p, field |-> f, entered |-> asked + 1])
      BY <2>2 DEF UpdateDefaults
    <3>2. PICK n : n = asked + 1
      OBVIOUS
    <3>3. n \in 1 .. MaxAsked
      BY <3>1, <3>2, ProviderConfigAssumption DEF Ask, Inv, TypeInv
    <3>4. PICK payload : payload = [provider |-> p, field |-> f, entered |-> n]
      OBVIOUS
    <3>5. payload \in Updates
      BY <3>3, <3>4 DEF Updates
    <3>6. Ask(h, u, "update", k, payload)
      BY <3>1, <3>2, <3>4
    <3> QED
      BY <3>5, <3>6, AskStep
  <2>3. ASSUME NEW p \in Providers, CheckHealth(h, u, p) PROVE Inv'
    <3>1. PICK payload : payload = [provider |-> p]
      OBVIOUS
    <3>2. PICK k \in Kinds : Ask(h, u, "health", k, payload)
      BY <2>3, <3>1 DEF CheckHealth
    <3>3. payload \in [provider : Providers]
      BY <3>1
    <3> QED
      BY <3>2, <3>3, AskStep
  <2> QED
    BY <1>2, <2>1, <2>2, <2>3
<1>3. ASSUME NEW h \in Handlers,
             ListAll(h) \/ Load(h) \/ Reject(h) \/ GetOwn(h) \/ AddRow(h) \/ AssignRow(h)
                \/ SaveAll(h) \/ Respond(h)
      PROVE  Inv'
  BY <1>3, ListAllStep, LoadStep, RejectStep, GetOwnStep, AddRowStep, AssignRowStep, SaveAllStep, RespondStep
<1>4. CASE UNCHANGED configVars
  <2>1. UNCHANGED <<rows, memory, request, asked, expected, mixed>>
    BY <1>4 DEF configVars
  <2>2. TypeInv'
    BY <2>1 DEF Inv, TypeInv, AllOrNone
  <2>3. StageInv'
    BY <2>1, StageStays DEF Inv, StageInv
  <2>4. ASSUME NEW u \in Users \ mixed PROVE Apart(u)'
    BY <2>1, SMTT(30) DEF Inv, ApartInv, Apart, Recorded, UpdateOf, Saving, Updating, Writes, Untaken, Left
  <2> QED
    BY <2>1, <2>2, <2>3, <2>4 DEF Inv, ApartInv
<1> QED
  BY <1>1, <1>2, <1>3, <1>4 DEF ConfigNext

(* The variables keep their types, and a user's rows of a kind are written  *)
(* all together or not at all, even by updates that ran into each other     *)
THEOREM SettingsTypes == ConfigSpec => []ConfigTypeOK
<1>1. Inv => ConfigTypeOK
  BY DEF Inv, TypeInv, ConfigTypeOK, AllOrNone, Request
<1> QED
  BY <1>1, InvInit, InvNext, PTL DEF ConfigSpec

(* A user finds in his rows what he had saved before, changed as he asked,  *)
(* with one provider active (SavedAsEntered), unless another request        *)
(* replaced the shared settings before his update had taken all of them, or *)
(* two of his updates saved at the same time.                               *)
THEOREM SavesWhatWasEntered == ConfigSpec => []SavedAsEntered
<1>1. Inv => SavedAsEntered
  <2>1. \A q \in Providers : Cardinality({q}) = 1
    BY FS_Singleton
  <2> QED
    BY <2>1 DEF Inv, ApartInv, Apart, Recorded, OneActive, SavedAsEntered
<1> QED
  BY <1>1, InvInit, InvNext, PTL DEF ConfigSpec

(* The answer to a read contains no other user's row and no global key      *)
(* (AnsweredOwn), whatever other requests do to the shared settings: it is  *)
(* made from what the request itself loaded, without an await in between.   *)
THEOREM ReadsOwnSettings == ConfigSpec => []AnsweredOwn
<1>1. Inv => AnsweredOwn
  BY DEF Inv, StageInv, Stage, Answered, AnsweredOwn
<1> QED
  BY <1>1, InvInit, InvNext, PTL DEF ConfigSpec
=============================================================================
