---------------------------- MODULE ProviderConfig ----------------------------
(***************************************************************************)
(* The provider settings of the users: app/services/provider_config.py,    *)
(* app/repositories/provider_configs.py and app/api/routes/providers.py.   *)
(*                                                                         *)
(* The routes share one ProviderConfigService per API process.  A request  *)
(* loads the global rows and those of its user over the shared settings,   *)
(* without an await in between; an update then changes the settings in     *)
(* memory and writes one row per provider, with awaits in between, during  *)
(* which another request may load another user's settings.                 *)
(***************************************************************************)
EXTENDS Naturals, Sequences, FiniteSets

CONSTANTS
    Users,       \* users.id values
    Global,      \* the owner of the rows whose user_id is NULL
    Kinds,       \* the kinds of provider: chat, embedding
    Providers,   \* the providers of a kind
    Order,       \* ... in the order of the enumeration: a sequence
    Fields,      \* what a payload may set: value (model, URLs, sizes), key
    Handlers,    \* concurrent requests
    MaxAsked,    \* bound on the requests of a behaviour
    Default,     \* the settings the process starts with
    None

ASSUME ProviderConfigAssumption ==
    /\ Global \notin Users
    /\ Order \in Seq(Providers) /\ Order # <<>>
    /\ \A p \in Providers : \E i \in DOMAIN Order : Order[i] = p
    /\ Fields \subseteq {"value", "key"}
    /\ MaxAsked \in Nat

VARIABLES
    rows,      \* committed provider_configs: owner, kind, provider
    memory,    \* chat_configs and embedding_configs of the shared service
    request,   \* what each request is doing
    asked,     \* requests so far
    expected,  \* what each user's rows should hold after his updates (history)
    mixed      \* users whose updates concurrent requests may have spoiled (history)

configVars == <<rows, memory, request, asked, expected, mixed>>

Owners == Users \cup {Global}

(* What a user entered is told apart by the number of the request *)
Entered == {Default, None} \cup (1 .. MaxAsked)
Entry   == [value : Entered, key : Entered, active : BOOLEAN]

Initial(p) == [value |-> IF p = Order[1] THEN Default ELSE None,
               key   |-> IF p = Order[1] THEN Default ELSE None,
               active |-> p = Order[1]]

Idle == [pc |-> "idle", op |-> "none", user |-> None, kind |-> None, payload |-> None, seen |-> None,
         todo |-> <<>>, hand |-> None, next |-> None, found |-> None, writes |-> [p \in Providers |-> None],
         goal |-> None, answer |-> None]

NoRows == [k \in Kinds |-> [p \in Providers |-> None]]

ConfigInit ==
    /\ rows = [o \in Owners |-> NoRows]
    /\ memory = [k \in Kinds |-> [p \in Providers |-> Initial(p)]]
    /\ request = [h \in Handlers |-> Idle]
    /\ asked = 0
    /\ expected = [u \in Users |-> NoRows]
    /\ mixed = {}

-----------------------------------------------------------------------------
(* Faulty forms of definitions below, for the mutation runs of the README *)

Overlaid_Unsorted(o, g, p)   == IF g[p] # None THEN g[p] ELSE o[p]
Activate_Keep(cs, q)         == [p \in Providers |-> [cs[p] EXCEPT !.active = @ \/ p = q]]

-----------------------------------------------------------------------------
(* seed_defaults, in the lifespan of the process: before any request *)
SeedDefaults ==
    /\ rows[Global] = NoRows /\ asked = 0
    /\ rows' = [rows EXCEPT ![Global] = memory]
    /\ UNCHANGED <<memory, request, asked, expected, mixed>>

(* load_from_db: the global rows without their keys, then the user's own    *)
Overlaid(own, global, p) == IF own[p] # None THEN own[p] ELSE global[p]

Shared(entry) == [entry EXCEPT !.key = None]

Loaded(seen, u) ==
    [k \in Kinds |-> [p \in Providers |->
        Overlaid(seen[u][k], [q \in Providers |-> Shared(seen[Global][k][q])], p)]]

(* update_chat, update_embeddings *)
Activate(cs, q) == [p \in Providers |-> [cs[p] EXCEPT !.active = (p = q)]]

ActiveIn(cs) == {p \in Providers : cs[p].active}

(* The property chat: the first active provider of the enumeration *)
Current(cs) == Order[CHOOSE i \in DOMAIN Order :
                        cs[Order[i]].active /\ \A j \in 1 .. i - 1 : ~cs[Order[j]].active]

Target(cs, payload) == IF payload.provider = None THEN Current(cs) ELSE payload.provider

Changed(cs, payload) ==
    Activate([cs EXCEPT ![Target(cs, payload)][payload.field] = payload.entered],
             Target(cs, payload))

-----------------------------------------------------------------------------
(* A request and the rows its list_all returns *)

Saving(h)   == request[h].pc \in {"get", "insert", "flush", "commit"}

(* An update that has read the rows it starts from, and not yet committed *)
Updating(h) ==
    Saving(h) \/ (request[h].pc = "list" /\ request[h].op = "update" /\ request[h].seen # None)

Ask(h, u, op, k, payload) ==
    /\ request[h].pc = "idle" /\ asked < MaxAsked /\ rows[Global] # NoRows
    /\ asked' = asked + 1
    /\ request' = [request EXCEPT ![h] = [Idle EXCEPT !.pc = "list", !.op = op, !.user = u,
                        !.kind = k, !.payload = payload]]
    /\ UNCHANGED <<rows, memory, expected, mixed>>

(* GET /providers and /providers/config; the health checks read likewise *)
ListProviders(h, u) == \E k \in Kinds : Ask(h, u, "read", k, None)

CheckHealth(h, u, p) == \E k \in Kinds : Ask(h, u, "health", k, [provider |-> p])

(* PATCH /providers/chat/defaults and /providers/embeddings/defaults *)
UpdateDefaults(h, u) ==
    \E k \in Kinds, p \in Providers \cup {None}, f \in Fields :
        Ask(h, u, "update", k, [provider |-> p, field |-> f, entered |-> asked + 1])

ListAll(h) ==
    /\ request[h].pc = "list" /\ request[h].seen = None
    /\ request' = [request EXCEPT ![h].seen = [o \in {request[h].user, Global} |-> rows[o]]]
    /\ mixed' = IF request[h].op = "update" /\ \E g \in Handlers : Updating(g) /\ request[g].user = request[h].user
                THEN mixed \cup {request[h].user} ELSE mixed
    /\ UNCHANGED <<rows, memory, asked, expected>>

Answer(h, answer) == [request EXCEPT ![h] = [Idle EXCEPT !.pc = "answered", !.op = request[h].op,
                        !.user = request[h].user, !.kind = request[h].kind,
                        !.seen = request[h].seen, !.answer = answer]]

(* chat and embeddings raise StopIteration when no provider is active,      *)
(* which the request answers with 500.  An update reads them for a provider *)
(* it is not given, a health check in the constructor of its service.       *)
NoneActive(configs) == \E k \in Kinds : ActiveIn(configs[k]) = {}

Stops(h, loaded) ==
    \/ request[h].op = "read" /\ NoneActive(loaded)
    \/ /\ request[h].op = "health" \/ (request[h].op = "update" /\ request[h].payload.provider = None)
       /\ ActiveIn(loaded[request[h].kind]) = {}

(* What the loop of an update has still to take from memory: it holds the   *)
(* settings of the provider it is at, and during a flush the next ones      *)
Untaken(r) ==
    CASE r.pc \in {"get", "insert"} -> Tail(r.todo)
      [] r.pc = "flush" /\ Tail(r.todo) # <<>> -> Tail(Tail(r.todo))
      [] OTHER -> <<>>

Disturbed(h) == {request[g].user : g \in {x \in Handlers \ {h} : Untaken(request[x]) # <<>>}}

(* From the result of list_all to the next await: every other update reads  *)
(* from now on what this request put in memory                              *)
Load(h) ==
    /\ request[h].pc = "list" /\ request[h].seen # None
    /\ LET k      == request[h].kind
           loaded == Loaded(request[h].seen, request[h].user)
           config == IF request[h].op = "update" /\ ~Stops(h, loaded)
                     THEN [loaded EXCEPT ![k] = Changed(@, request[h].payload)] ELSE loaded
       IN IF Stops(h, loaded)
          THEN memory' = config /\ request' = [request EXCEPT ![h] = Idle]
          ELSE /\ memory' = config
               /\ request' =
                    CASE request[h].op = "read"   -> Answer(h, config[k])
                      [] request[h].op = "health" ->
                            Answer(h, [p \in {request[h].payload.provider} |-> config[k][p]])
                      [] OTHER -> [request EXCEPT ![h].pc = "get", ![h].todo = Order,
                                    ![h].hand = config[k][Order[1]], ![h].goal = config[k]]
    /\ mixed' = mixed \cup Disturbed(h)
    /\ UNCHANGED <<rows, asked, expected>>

(* `dimensions` is checked after the model was assigned, when the payload   *)
(* has one: the request is answered with an error and the shared settings   *)
(* keep the model                                                           *)
Reject(h) ==
    /\ request[h].pc = "list" /\ request[h].seen # None
    /\ request[h].op = "update" /\ request[h].kind = "embedding"
    /\ LET k       == request[h].kind
           payload == request[h].payload
           loaded  == Loaded(request[h].seen, request[h].user)
       IN /\ ~Stops(h, loaded)
          /\ memory' = IF payload.field = "value"
                       THEN [loaded EXCEPT ![k][Target(loaded[k], payload)].value = payload.entered]
                       ELSE loaded
    /\ request' = [request EXCEPT ![h] = Idle]
    /\ mixed' = mixed \cup Disturbed(h)
    /\ UNCHANGED <<rows, asked, expected>>

-----------------------------------------------------------------------------
(* _save_all_chat, _save_all_embeddings: the loop takes a provider's        *)
(* settings (hand) from memory and then awaits the lookup of its row        *)

Own(h, p)    == rows[request[h].user][request[h].kind][p]
Provider(h)  == Head(request[h].todo)
Waits(h, p)  == \E g \in Handlers \ {h} :
                    /\ request[g].user = request[h].user /\ request[g].kind = request[h].kind
                    /\ request[g].writes[p] # None

(* What the iterator gives next, and its move once the row is written *)
NextHand(h) ==
    LET rest == Tail(request[h].todo) IN
    IF rest = <<>> THEN None ELSE memory[request[h].kind][Head(rest)]

Advance(h, write, hand) ==
    request' = [request EXCEPT ![h].writes[Provider(h)] = write, ![h].todo = Tail(@),
        ![h].found = None, ![h].next = None, ![h].hand = hand,
        ![h].pc = IF Tail(request[h].todo) = <<>> THEN "commit" ELSE "get"]

(* A row that is found is assigned at once, and the loop takes the next     *)
(* settings before the await that flushes the assignment: the lookup of     *)
(* the next row, or the commit                                              *)
GetOwn(h) ==
    /\ request[h].pc = "get"
    /\ LET own == Own(h, Provider(h)) IN
       request' = IF own = None
                  THEN [request EXCEPT ![h].pc = "insert"]
                  ELSE [request EXCEPT ![h].pc = "flush", ![h].found = own, ![h].next = NextHand(h)]
    /\ UNCHANGED <<rows, memory, asked, expected, mixed>>

(* add() flushes: it waits for another insert of the same key, and fails    *)
(* when that one was committed (uq_provider_configs_user_kind_provider)     *)
AddRow(h) ==
    /\ request[h].pc = "insert" /\ ~Waits(h, Provider(h))
    /\ IF Own(h, Provider(h)) = None
       THEN Advance(h, request[h].hand, NextHand(h))
       ELSE request' = [request EXCEPT ![h] = Idle]
    /\ UNCHANGED <<rows, memory, asked, expected, mixed>>

(* The UPDATE of the row found waits for another transaction's, and names   *)
(* the fields that differ, and the key, whose ciphertext always does        *)
AssignRow(h) ==
    /\ request[h].pc = "flush" /\ ~Waits(h, Provider(h))
    /\ LET hand  == request[h].hand
           found == request[h].found
           now   == Own(h, Provider(h))
       IN Advance(h, [f \in DOMAIN hand |-> IF f = "key" \/ hand[f] # found[f] THEN hand[f] ELSE now[f]],
                  request[h].next)
    /\ UNCHANGED <<rows, memory, asked, expected, mixed>>

(* The commit, then the answer, which is read from memory *)
SaveAll(h) ==
    /\ request[h].pc = "commit"
    /\ rows' = [rows EXCEPT ![request[h].user][request[h].kind] = request[h].writes]
    /\ expected' = [expected EXCEPT ![request[h].user][request[h].kind] = request[h].goal]
    /\ request' = IF NoneActive(memory)
                  THEN [request EXCEPT ![h] = Idle]
                  ELSE Answer(h, memory[request[h].kind])
    /\ UNCHANGED <<memory, asked, mixed>>

Respond(h) ==
    /\ request[h].pc = "answered"
    /\ request' = [request EXCEPT ![h] = Idle]
    /\ UNCHANGED <<rows, memory, asked, expected, mixed>>

-----------------------------------------------------------------------------
ConfigNext ==
    \/ SeedDefaults
    \/ \E h \in Handlers :
        \/ \E u \in Users : \/ ListProviders(h, u) \/ UpdateDefaults(h, u)
                            \/ \E p \in Providers : CheckHealth(h, u, p)
        \/ ListAll(h) \/ Load(h) \/ Reject(h) \/ GetOwn(h) \/ AddRow(h) \/ AssignRow(h)
        \/ SaveAll(h) \/ Respond(h)

ConfigSpec == ConfigInit /\ [][ConfigNext]_configVars

-----------------------------------------------------------------------------
(* Properties *)

Settings == [Providers -> Entry]

(* Types of the variables, and that the rows of a user and a kind are       *)
(* written all together or not at all: what makes the overlay of own rows   *)
(* over global ones come from one save.                                     *)
ConfigTypeOK ==
    /\ \A o \in Owners, k \in Kinds : rows[o][k] \in Settings \/ rows[o][k] = NoRows[k]
    /\ memory \in [Kinds -> Settings]
    /\ \A h \in Handlers : request[h].pc \in {"idle", "list", "get", "insert", "flush", "commit", "answered"}
    /\ asked \in 0 .. MaxAsked /\ mixed \subseteq Users

(* After his updates a user's rows hold what he had saved before, changed   *)
(* as he asked, with one provider active: not what another user loaded into *)
(* the shared settings in the meantime, unless that load came before the    *)
(* loop of _save_all_... had taken all it saves, and not what two updates   *)
(* of his own make of each other when both save at the same time (mixed).   *)
SavedAsEntered ==
    \A u \in Users \ mixed, k \in Kinds :
        /\ rows[u][k] = expected[u][k]
        /\ rows[u][k] # NoRows[k] => Cardinality(ActiveIn(rows[u][k])) = 1

(* "Only a row that actually belongs to user_id may contribute its key"     *)
(* (load_from_db): the answer to a read is the user's own rows where he has *)
(* any and the global ones without their keys elsewhere, whatever another   *)
(* request does to the shared settings.                                     *)
AnsweredOwn ==
    \A h \in Handlers : request[h].pc = "answered" /\ request[h].op # "update" =>
        LET own == request[h].seen[request[h].user][request[h].kind] IN
        \A p \in DOMAIN request[h].answer :
            IF own[p] # None THEN request[h].answer[p] = own[p]
            ELSE request[h].answer[p].key = None
=============================================================================
