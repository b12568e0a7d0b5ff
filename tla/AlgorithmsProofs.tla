--------------------------- MODULE AlgorithmsProofs ---------------------------
(***************************************************************************)
(* The theorems of the four parts that MCAlgorithms checks together: the   *)
(* providers tried for a request (Failover), the context of an answer and  *)
(* its sources (Retrieval), the search for cycles (CycleDetection) and the *)
(* cutting of a text (Chunker).  They share no state, and no lemma but those *)
(* of OrderingProofs.                                                      *)
(***************************************************************************)
EXTENDS Integers, Failover, Retrieval, CycleDetection, Chunker, OrderingProofs, SequenceTheorems, TLAPS

-----------------------------------------------------------------------------
(***************************************************************************)
(* Failover.  AskOK relates, for one request, the providers reported, those *)
(* left and what came out: the reported ones and the ones left are the     *)
(* attempts, of which none is there twice, and what came out is from the   *)
(* first one left.                                                         *)
(***************************************************************************)

Reported == [provider : Providers, skipped : BOOLEAN]

AskType ==
    [pc : {"waiting", "next", "retry", "calling", "streaming", "returned", "all_failed", "partial"},
     op : Ops \cup {"none"}, attempts : Seq(Providers), todo : Seq(Providers), retry : Nat,
     report : Seq(Reported), output : Seq(Providers)]

Once(s) == \A i, j \in DOMAIN s : s[i] = s[j] => i = j

(* A request that tries a provider has it before it, and nothing has come   *)
(* out of a provider that it goes on from                                   *)
AskOK(a) ==
    /\ Named(a.report) \o a.todo = a.attempts /\ Once(a.attempts)
    /\ a.pc \in {"retry", "calling", "streaming", "returned", "partial"} => a.todo # <<>>
    /\ a.pc \in {"next", "retry", "calling"} => a.output = <<>>
    /\ a.output # <<>> => a.todo # <<>> /\ a.output = <<Head(a.todo)>>
    /\ a.pc = "all_failed" => a.todo = <<>>
    /\ a.retry <= MaxRetries

FailoverInv == ask \in [Requests -> AskType] /\ \A r \in Requests : AskOK(ask[r])

LEMMA RetriesType == MaxRetries \in Nat
BY FailoverAssumption

LEMMA WaitingOK == Waiting \in AskType /\ AskOK(Waiting)
<1>1. Waiting \in AskType
  <2>1. <<>> \in Seq(Providers) /\ <<>> \in Seq(Reported)
    OBVIOUS
  <2> QED
    BY <2>1 DEF Waiting, AskType
<1>2. /\ Waiting.pc = "waiting" /\ Waiting.attempts = <<>> /\ Waiting.todo = <<>>
      /\ Waiting.report = <<>> /\ Waiting.output = <<>> /\ Waiting.retry = 0
  BY DEF Waiting
<1>3. Named(<<>>) = <<>> /\ <<>> \o <<>> = <<>> /\ Once(<<>>)
  BY DEF Named, Once
<1>4. Named(Waiting.report) \o Waiting.todo = Waiting.attempts /\ Once(Waiting.attempts)
  BY <1>2, <1>3
<1>5. Waiting.retry <= MaxRetries
  BY <1>2, RetriesType
<1> QED
  BY <1>1, <1>2, <1>4, <1>5 DEF AskOK

LEMMA Answers ==
  ASSUME FailoverInv
  PROVE  OneAnswer
<1> SUFFICES ASSUME NEW r \in Requests
             PROVE  /\ Named(ask[r].report) \o ask[r].todo = ask[r].attempts
                    /\ Len(ask[r].output) <= 1
                    /\ ask[r].output # <<>> => ask[r].todo # <<>> /\ ask[r].output[1] = Current(r)
                    /\ ask[r].pc = "all_failed" => ask[r].todo = <<>>
  BY DEF OneAnswer
<1>1. AskOK(ask[r]) /\ ask[r] \in AskType
  BY DEF FailoverInv
<1>2. PICK out : out = ask[r].output
  OBVIOUS
<1>3. PICK head : head = Current(r)
  OBVIOUS
<1>4. out = <<>> \/ (out = <<head>> /\ ask[r].todo # <<>>)
  BY <1>1, <1>2, <1>3 DEF AskOK, Current
<1>5. Len(out) <= 1 /\ (out # <<>> => out[1] = head)
  <2>1. Len(<<head>>) = 1 /\ <<head>>[1] = head /\ Len(<<>>) = 0
    OBVIOUS
  <2>2. CASE out = <<>>
    BY <2>1, <2>2
  <2>3. CASE out = <<head>>
    BY <2>1, <2>3
  <2> QED
    BY <1>4, <2>2, <2>3
<1> QED
  BY <1>1, <1>2, <1>3, <1>4, <1>5 DEF AskOK

LEMMA Moved ==
  ASSUME FailoverInv, NEW r \in Requests, NEW a \in AskType, AskOK(a), ask' = [ask EXCEPT ![r] = a]
  PROVE  FailoverInv'
<1>1. ask' \in [Requests -> AskType]
  BY DEF FailoverInv
<1>2. ASSUME NEW q \in Requests PROVE AskOK(ask'[q])
  BY <1>2 DEF FailoverInv
<1>3. \A q \in Requests : AskOK(ask[q])' <=> AskOK(ask'[q])
  BY DEF AskOK, Once, Named
<1> QED
  BY <1>1, <1>2, <1>3 DEF FailoverInv

-----------------------------------------------------------------------------
(* The attempts: providers of the chain, none of them twice *)

LEMMA OfferedOnce ==
  ASSUME NEW s \in Seq(Providers), Once(s), NEW usable
  PROVE  Offering(s, usable) \in Seq(Providers) /\ Once(Offering(s, usable))
<1> DEFINE I == {i \in DOMAIN s : s[i] \in usable}
<1>1. I \in SUBSET DOMAIN s
  OBVIOUS
<1>2. \A i, j \in DOMAIN s : s[i] = s[j] => i = j
  BY DEF Once
<1> HIDE DEF I
<1>3. Keeping(s, I) \in Seq(Providers)
  BY <1>1, Kept
<1>4. \A m, n \in DOMAIN Keeping(s, I) : Keeping(s, I)[m] = Keeping(s, I)[n] => m = n
  BY <1>1, <1>2, KeptOnce
<1>5. Offering(s, usable) = Keeping(s, I)
  BY DEF Offering, I
<1> QED
  BY <1>3, <1>4, <1>5 DEF Once

LEMMA ChainedOnce ==
  ASSUME NEW first \in Providers
  PROVE  ChainFrom(first) \in Seq(Providers) /\ Once(ChainFrom(first))
<1> DEFINE I == {i \in DOMAIN Chain : Chain[i] # first}
           rest == Keeping(Chain, I)
           all == <<first>> \o rest
<1>1. Chain \in Seq(Providers) /\ I \in SUBSET DOMAIN Chain
  BY FailoverAssumption DEF Providers
<1>2. \A i, j \in DOMAIN Chain : Chain[i] = Chain[j] => i = j
  BY FailoverAssumption
<1>3. \A i \in I : Chain[i] # first
  OBVIOUS
<1>4. ChainFrom(first) = all
  BY DEF ChainFrom
<1> HIDE DEF I
<1>5. rest \in Seq(Providers) /\ \A n \in DOMAIN rest : Positions(I)[n] \in I /\ rest[n] = Chain[Positions(I)[n]]
  BY <1>1, Kept
<1>6. \A m, n \in DOMAIN rest : rest[m] = rest[n] => m = n
  BY <1>1, <1>2, KeptOnce
<1>7. \A n \in DOMAIN rest : rest[n] # first
  BY <1>3, <1>5
<1> HIDE DEF rest
<1>8. /\ all \in Seq(Providers) /\ DOMAIN all = 1 .. Len(rest) + 1 /\ Len(rest) \in Nat
      /\ DOMAIN rest = 1 .. Len(rest)
      /\ all[1] = first /\ \A n \in 2 .. Len(rest) + 1 : all[n] = rest[n - 1] /\ n - 1 \in DOMAIN rest
  BY <1>5
<1> HIDE DEF all
<1>9. ASSUME NEW i \in DOMAIN all, NEW j \in DOMAIN all, all[i] = all[j] PROVE i = j
  <2>1. CASE i = 1 /\ j = 1
    BY <2>1
  <2>2. CASE i # 1 /\ j # 1
    <3>1. i \in 2 .. Len(rest) + 1 /\ j \in 2 .. Len(rest) + 1
      BY <1>8, <1>9, <2>2
    <3>2. rest[i - 1] = rest[j - 1] /\ i - 1 \in DOMAIN rest /\ j - 1 \in DOMAIN rest
      BY <1>8, <1>9, <3>1
    <3>3. i - 1 = j - 1
      BY <1>6, <3>2
    <3> QED
      BY <3>1, <3>3
  <2>3. CASE i = 1 /\ j # 1
    <3>1. j \in 2 .. Len(rest) + 1
      BY <1>8, <1>9, <2>3
    <3> QED
      BY <1>7, <1>8, <1>9, <2>3, <3>1
  <2>4. CASE i # 1 /\ j = 1
    <3>1. i \in 2 .. Len(rest) + 1
      BY <1>8, <1>9, <2>4
    <3> QED
      BY <1>7, <1>8, <1>9, <2>4, <3>1
  <2> QED
    BY <2>1, <2>2, <2>3, <2>4
<1> QED
  BY <1>4, <1>8, <1>9 DEF Once

LEMMA AsksStep ==
  ASSUME FailoverInv, NEW r \in Requests, NEW op \in Ops, NEW attempts \in Seq(Providers), Once(attempts),
         Asks(r, op, attempts)
  PROVE  FailoverInv'
<1>1. PICK a : a = [Waiting EXCEPT !.op = op, !.attempts = attempts, !.todo = attempts, !.pc = "next"]
  OBVIOUS
<1>2. ask' = [ask EXCEPT ![r] = a]
  BY <1>1 DEF Asks
<1>3. a \in AskType
  BY <1>1, WaitingOK DEF AskType
<1>4. /\ a.pc = "next" /\ a.attempts = attempts /\ a.todo = attempts /\ a.report = <<>>
      /\ a.output = <<>> /\ a.retry = 0
  BY <1>1 DEF Waiting
<1>5. Named(a.report) \o a.todo = a.attempts
  <2>1. Named(<<>>) = <<>>
    BY DEF Named
  <2>2. <<>> \o attempts = attempts
    OBVIOUS
  <2> QED
    BY <1>4, <2>1, <2>2
<1>6. a.retry <= MaxRetries /\ Once(a.attempts)
  BY <1>4, RetriesType
<1>7. AskOK(a)
  BY <1>4, <1>5, <1>6 DEF AskOK
<1> QED
  BY <1>2, <1>3, <1>7, Moved

LEMMA NewStep ==
  ASSUME FailoverInv, NEW r \in Requests,
         GenerateChatResponse(r) \/ GenerateToolCall(r) \/ StreamChatResponse(r) \/ EmbedTexts(r)
  PROVE  FailoverInv'
<1>1. ASSUME NEW first \in Providers, NEW usable
      PROVE  /\ AvailableChatConfigs(first, usable) \in Seq(Providers)
             /\ Once(AvailableChatConfigs(first, usable))
             /\ EmbeddingAttempts(first, usable) \in Seq(Providers)
             /\ Once(EmbeddingAttempts(first, usable))
  BY ChainedOnce, OfferedOnce DEF AvailableChatConfigs, EmbeddingAttempts
<1>2. CASE GenerateChatResponse(r)
  BY <1>1, <1>2, AsksStep DEF GenerateChatResponse, Ops
<1>3. CASE GenerateToolCall(r)
  <2>1. PICK first \in Providers, usable \in SUBSET Providers, calling \in SUBSET Providers :
            Asks(r, "chat", Offering(AvailableChatConfigs(first, usable), calling))
    BY <1>3 DEF GenerateToolCall
  <2>2. /\ Offering(AvailableChatConfigs(first, usable), calling) \in Seq(Providers)
        /\ Once(Offering(AvailableChatConfigs(first, usable), calling))
    BY <1>1, OfferedOnce
  <2> QED
    BY <2>1, <2>2, AsksStep DEF Ops
<1>4. CASE StreamChatResponse(r)
  BY <1>1, <1>4, AsksStep DEF StreamChatResponse, Ops
<1>5. CASE EmbedTexts(r)
  BY <1>1, <1>5, AsksStep DEF EmbedTexts, Ops
<1> QED
  BY <1>2, <1>3, <1>4, <1>5

-----------------------------------------------------------------------------
(* The loop *)

(* The provider given up passes from what is left to what is reported *)
LEMMA Passes ==
  ASSUME NEW report \in Seq(Reported), NEW todo \in Seq(Providers), todo # <<>>,
         NEW x \in Reported, x.provider = Head(todo)
  PROVE  Named(Append(report, x)) \o Tail(todo) = Named(report) \o todo
<1> DEFINE more == Append(report, x)
           n == Len(report)
<1>0. \A y \in Reported : y.provider \in Providers
  BY DEF Reported
<1>1. /\ n \in Nat /\ more \in Seq(Reported) /\ Len(more) = n + 1 /\ DOMAIN more = 1 .. n + 1 /\ more[n + 1] = x
      /\ DOMAIN report = 1 .. n /\ \A i \in 1 .. n : more[i] = report[i] /\ report[i] \in Reported
  OBVIOUS
<1>2. PICK named, longer : named = Named(report) /\ longer = Named(more)
  OBVIOUS
<1> HIDE DEF more
<1>3. named \in Seq(Providers) /\ Len(named) = n /\ \A i \in 1 .. n : named[i] = report[i].provider
  BY <1>0, <1>1, <1>2 DEF Named
<1>4. longer \in Seq(Providers) /\ Len(longer) = n + 1 /\ \A i \in 1 .. n + 1 : longer[i] = more[i].provider
  <2>1. \A i \in 1 .. n + 1 : more[i].provider \in Providers
    BY <1>0, <1>1
  <2> QED
    BY <1>1, <1>2, <2>1 DEF Named
<1>5. \A i \in 1 .. n : longer[i] = named[i]
  BY <1>1, <1>3, <1>4
<1>6. longer[n + 1] = Head(todo)
  BY <1>1, <1>4
<1>7. longer = Append(named, Head(todo))
  <2>1. \A i \in 1 .. n + 1 : longer[i] = Append(named, Head(todo))[i]
    BY <1>1, <1>3, <1>5, <1>6
  <2> QED
    BY <1>1, <1>3, <1>4, <2>1
<1>8. Append(named, Head(todo)) \o Tail(todo) = named \o todo
  BY <1>3
<1> QED
  BY <1>2, <1>7, <1>8 DEF more

LEMMA GiveUpStep ==
  ASSUME FailoverInv, NEW r \in Requests, ask[r].todo # <<>>, ask[r].output = <<>>, NEW category,
         GiveUp(r, category)
  PROVE  FailoverInv'
<1>1. /\ ask[r].todo \in Seq(Providers) /\ ask[r].report \in Seq(Reported) /\ ask[r].attempts \in Seq(Providers)
      /\ ask[r].op \in Ops \cup {"none"} /\ ask[r].output \in Seq(Providers)
  BY DEF FailoverInv, AskType
<1>2. AskOK(ask[r]) /\ ask[r] \in AskType
  BY DEF FailoverInv
<1>3. PICK x : x = Summary(r, category)
  OBVIOUS
<1>4. x \in Reported /\ x.provider = Head(ask[r].todo)
  <2>1. Head(ask[r].todo) \in Providers
    BY <1>1
  <2>2. PICK skipped \in BOOLEAN : skipped = (category = "circuit_open")
    OBVIOUS
  <2>3. x = [provider |-> Head(ask[r].todo), skipped |-> skipped]
    BY <1>3, <2>2 DEF Summary, Current
  <2> QED
    BY <2>1, <2>3 DEF Reported
<1>6. Named(Append(ask[r].report, x)) \o Tail(ask[r].todo) = Named(ask[r].report) \o ask[r].todo
  BY <1>1, <1>4, Passes
<1>7. PICK a : a = [ask[r] EXCEPT !.report = Append(ask[r].report, x), !.todo = Tail(ask[r].todo),
                                  !.pc = "next", !.retry = 0]
  OBVIOUS
<1>8. ask' = [ask EXCEPT ![r] = a]
  BY <1>3, <1>7 DEF GiveUp, FailoverInv
<1>9. /\ a.report = Append(ask[r].report, x) /\ a.todo = Tail(ask[r].todo) /\ a.pc = "next" /\ a.retry = 0
      /\ a.attempts = ask[r].attempts /\ a.output = <<>> /\ a.op = ask[r].op
  BY <1>2, <1>7 DEF AskType
<1>10. Append(ask[r].report, x) \in Seq(Reported) /\ Tail(ask[r].todo) \in Seq(Providers)
  BY <1>1, <1>4
<1>11. a \in AskType
  BY <1>2, <1>7, <1>10 DEF AskType
<1>12. AskOK(a)
  <2>1. Named(a.report) \o a.todo = a.attempts /\ Once(a.attempts)
    BY <1>2, <1>6, <1>9 DEF AskOK
  <2>2. a.pc = "next" /\ a.output = <<>> /\ a.retry <= MaxRetries
    BY <1>9, RetriesType
  <2> QED
    BY <2>1, <2>2 DEF AskOK
<1> QED
  BY <1>8, <1>11, <1>12, Moved

LEMMA FailStep ==
  ASSUME FailoverInv, NEW r \in Requests, ask[r].todo # <<>>, ask[r].output = <<>>, NEW category,
         Fail(r, category)
  PROVE  FailoverInv'
<1>1. CASE ~MayRetry(r, category)
  BY <1>1, GiveUpStep DEF Fail
<1>2. CASE MayRetry(r, category)
  <2>1. PICK a : a = [ask[r] EXCEPT !.retry = ask[r].retry + 1, !.pc = "retry"]
    OBVIOUS
  <2>2. ask[r] \in AskType /\ AskOK(ask[r]) /\ ask[r].retry < MaxRetries /\ ask[r].retry \in Nat
    BY <1>2 DEF FailoverInv, MayRetry, AskType
  <2>3. ask' = [ask EXCEPT ![r] = a]
    BY <1>2, <2>1 DEF Fail, NextRetry, FailoverInv
  <2>4. a \in AskType
    <3>1. ask[r].retry + 1 \in Nat
      BY <2>2
    <3> QED
      BY <2>1, <2>2, <3>1 DEF AskType
  <2>5. /\ a.pc = "retry" /\ a.todo = ask[r].todo /\ a.output = ask[r].output
        /\ a.report = ask[r].report /\ a.attempts = ask[r].attempts /\ a.retry = ask[r].retry + 1
    BY <2>1, <2>2 DEF AskType
  <2>6. AskOK(a)
    <3>1. Named(a.report) \o a.todo = a.attempts /\ Once(a.attempts)
      BY <2>2, <2>5 DEF AskOK
    <3>2. a.pc = "retry" /\ a.output = <<>> /\ a.todo # <<>>
      BY <2>5
    <3>3. a.retry <= MaxRetries
      BY <2>2, <2>5, RetriesType
    <3> QED
      BY <3>1, <3>2, <3>3 DEF AskOK
  <2> QED
    BY <2>3, <2>4, <2>6, Moved
<1> QED
  BY <1>1, <1>2

(* A provider that had delivered nothing delivers *)
LEMMA Delivered ==
  ASSUME FailoverInv, NEW r \in Requests, NEW pc \in {"streaming", "returned"},
         NEW output \in Seq(Providers), output = <<Current(r)>>, ask[r].todo # <<>>,
         NEW a, a = [ask[r] EXCEPT !.pc = pc, !.output = output], ask' = [ask EXCEPT ![r] = a]
  PROVE  FailoverInv'
<1>1. ask[r] \in AskType /\ AskOK(ask[r])
  BY DEF FailoverInv
<1>2. a \in AskType
  BY <1>1 DEF AskType
<1>3. /\ a.pc = pc /\ a.todo = ask[r].todo /\ a.output = output /\ a.retry = ask[r].retry
      /\ a.report = ask[r].report /\ a.attempts = ask[r].attempts
  BY <1>1 DEF AskType
<1>4. AskOK(a)
  BY <1>1, <1>3 DEF AskOK, Current
<1> QED
  BY <1>2, <1>4, Moved

(* A step that only changes where a request is *)
LEMMA GoesTo ==
  ASSUME FailoverInv, NEW r \in Requests,
         NEW pc \in {"calling", "streaming", "returned", "all_failed", "partial"},
         ask' = [ask EXCEPT ![r].pc = pc],
         pc = "all_failed" => ask[r].todo = <<>>, pc # "all_failed" => ask[r].todo # <<>>,
         pc \in {"calling", "all_failed"} => ask[r].output = <<>>
  PROVE  FailoverInv'
<1>1. PICK a : a = [ask[r] EXCEPT !.pc = pc]
  OBVIOUS
<1>2. ask[r] \in AskType /\ AskOK(ask[r])
  BY DEF FailoverInv
<1>3. ask' = [ask EXCEPT ![r] = a]
  BY <1>1
<1>4. a \in AskType
  BY <1>1, <1>2 DEF AskType
<1>5. /\ a.pc = pc /\ a.todo = ask[r].todo /\ a.output = ask[r].output /\ a.retry = ask[r].retry
      /\ a.report = ask[r].report /\ a.attempts = ask[r].attempts
  BY <1>1, <1>2 DEF AskType
<1>6. AskOK(a)
  BY <1>2, <1>5 DEF AskOK
<1> QED
  BY <1>3, <1>4, <1>6, Moved

(* Before a provider is called nothing has come out; where there is one to  *)
(* call it is the first one left                                            *)
LEMMA BeforeCall ==
  ASSUME FailoverInv, NEW r \in Requests
  PROVE  /\ ask[r].pc \in {"next", "retry", "calling"} => ask[r].output = <<>>
         /\ ask[r].pc \in {"retry", "calling", "streaming", "returned", "partial"} => ask[r].todo # <<>>
         /\ ask[r].todo # <<>> => Current(r) \in Providers /\ <<Current(r)>> \in Seq(Providers)
         /\ ask[r].output # <<>> => OutputStarted(r)
<1>1. ask[r] \in AskType /\ AskOK(ask[r])
  BY DEF FailoverInv
<1>2. ask[r].todo \in Seq(Providers)
  BY <1>1 DEF AskType
<1>3. ask[r].todo # <<>> => Current(r) \in Providers /\ <<Current(r)>> \in Seq(Providers)
  BY <1>2 DEF Current
<1>4. ASSUME ask[r].output # <<>> PROVE OutputStarted(r)
  <2>1. PICK head : head = Current(r)
    OBVIOUS
  <2>2. ask[r].output = <<head>>
    BY <1>1, <1>4, <2>1 DEF AskOK, Current
  <2>3. 1 \in DOMAIN <<head>> /\ <<head>>[1] = head
    OBVIOUS
  <2> QED
    BY <2>1, <2>2, <2>3 DEF OutputStarted
<1> QED
  BY <1>1, <1>3, <1>4 DEF AskOK

LEMMA FailoverStep == FailoverInv /\ [FailoverNext]_failoverVars => FailoverInv'
<1> SUFFICES ASSUME FailoverInv, [FailoverNext]_failoverVars PROVE FailoverInv'
  OBVIOUS
<1>1. ASSUME ask' = ask PROVE FailoverInv'
  BY <1>1 DEF FailoverInv, AskOK, Once, Named
<1>2. ASSUME NEW r \in Requests,
             GenerateChatResponse(r) \/ GenerateToolCall(r) \/ StreamChatResponse(r) \/ EmbedTexts(r)
      PROVE  FailoverInv'
  BY <1>2, NewStep
<1>3. ASSUME NEW r \in Requests, Skip(r) PROVE FailoverInv'
  BY <1>3, BeforeCall, GiveUpStep DEF Skip
<1>4. ASSUME NEW r \in Requests, Tries(r) PROVE ask[r].todo # <<>> /\ ask[r].output = <<>>
  BY <1>4, BeforeCall DEF Tries
<1>5. ASSUME NEW r \in Requests, CheckRateLimit(r) PROVE FailoverInv'
  <2>1. Fail(r, "retryable") \/ Call(r)
    BY <1>5 DEF CheckRateLimit
  <2>2. ask[r].todo # <<>> /\ ask[r].output = <<>>
    BY <1>4, <1>5 DEF CheckRateLimit
  <2>3. CASE Fail(r, "retryable")
    BY <2>2, <2>3, FailStep
  <2>4. CASE Call(r)
    BY <2>2, <2>4, GoesTo DEF Call
  <2> QED
    BY <2>1, <2>3, <2>4
<1>6. ASSUME NEW r \in Requests, FailOpen(r) PROVE FailoverInv'
  <2>1. ask[r].todo # <<>> /\ ask[r].output = <<>> /\ ask' = [ask EXCEPT ![r].pc = "calling"]
    BY <1>4, <1>6 DEF FailOpen, Call
  <2> QED
    BY <2>1, GoesTo
<1>7. ASSUME NEW r \in Requests, CallReturns(r) PROVE FailoverInv'
  <2>1. ask[r].todo # <<>> /\ <<Current(r)>> \in Seq(Providers)
    BY <1>7, BeforeCall DEF CallReturns
  <2>2. PICK out : out = <<Current(r)>>
    OBVIOUS
  <2>3. PICK a : a = [ask[r] EXCEPT !.pc = "returned", !.output = out]
    OBVIOUS
  <2>4. ask' = [ask EXCEPT ![r] = a]
    BY <1>7, <2>2, <2>3 DEF CallReturns
  <2> QED
    BY <2>1, <2>2, <2>3, <2>4, Delivered
<1>8. ASSUME NEW r \in Requests, CallRaises(r) PROVE FailoverInv'
  BY <1>8, BeforeCall, FailStep DEF CallRaises
<1>9. ASSUME NEW r \in Requests, Exhausted(r) PROVE FailoverInv'
  <2>1. ask[r].todo = <<>> /\ ask[r].output = <<>> /\ ask' = [ask EXCEPT ![r].pc = "all_failed"]
    BY <1>9, BeforeCall DEF Exhausted
  <2> QED
    BY <2>1, GoesTo
<1>10. ASSUME NEW r \in Requests, StartStream(r) PROVE FailoverInv'
  <2>1. ask[r].todo # <<>> /\ ask' = [ask EXCEPT ![r].pc = "streaming"]
    BY <1>10 DEF StartStream
  <2> QED
    BY <2>1, GoesTo
<1>11. ASSUME NEW r \in Requests, Chunk(r) PROVE FailoverInv'
  <2>1. /\ ask[r].todo # <<>> /\ ask[r].output = <<>> /\ <<Current(r)>> \in Seq(Providers)
        /\ ask[r].pc = "streaming" /\ ask[r] \in AskType
    BY <1>11, BeforeCall DEF Chunk, FailoverInv
  <2>2. PICK out : out = <<Current(r)>>
    OBVIOUS
  <2>3. PICK a : a = [ask[r] EXCEPT !.pc = "streaming", !.output = out]
    OBVIOUS
  <2>4. a = [ask[r] EXCEPT !.output = out]
    BY <2>1, <2>3 DEF AskType
  <2>5. Append(ask[r].output, Current(r)) = out
    BY <2>1, <2>2
  <2>6. ask' = [ask EXCEPT ![r] = a]
    BY <1>11, <2>4, <2>5 DEF Chunk
  <2> QED
    BY <2>1, <2>2, <2>3, <2>6, Delivered
<1>12. ASSUME NEW r \in Requests, StreamEnds(r) PROVE FailoverInv'
  <2>1. ask[r].todo # <<>> /\ ask' = [ask EXCEPT ![r].pc = "returned"]
    BY <1>12, BeforeCall DEF StreamEnds
  <2> QED
    BY <2>1, GoesTo
<1>13. ASSUME NEW r \in Requests, StreamRaises(r) PROVE FailoverInv'
  <2>1. ask[r].todo # <<>>
    BY <1>13, BeforeCall DEF StreamRaises
  <2>2. CASE SwitchesAfter(r)
    <3>1. ask[r].output = <<>>
      BY <2>2, BeforeCall DEF SwitchesAfter
    <3>2. PICK category \in Categories : GiveUp(r, category)
      BY <1>13, <2>2 DEF StreamRaises
    <3> QED
      BY <2>1, <3>1, <3>2, GiveUpStep
  <2>3. CASE ~SwitchesAfter(r)
    <3>1. ask' = [ask EXCEPT ![r].pc = "partial"]
      BY <1>13, <2>3 DEF StreamRaises
    <3> QED
      BY <2>1, <3>1, GoesTo
  <2> QED
    BY <2>2, <2>3
<1>14. ASSUME NEW r \in Requests, Answered(r) PROVE FailoverInv'
  BY <1>14, WaitingOK, Moved DEF Answered
<1>15. CASE Tick
  BY <1>1, <1>15 DEF Tick
<1>16. CASE UNCHANGED failoverVars
  BY <1>1, <1>16 DEF failoverVars
<1> QED
  BY <1>2, <1>3, <1>5, <1>6, <1>7, <1>8, <1>9, <1>10, <1>11, <1>12, <1>13, <1>14, <1>15, <1>16
  DEF FailoverNext, Progress

LEMMA FailoverStart == FailoverInit => FailoverInv
BY WaitingOK DEF FailoverInit, FailoverInv

(* A request has one answer, whole, from the provider that follows those it *)
(* reports, in the order of its chain; that all failed is said only when    *)
(* none is left (OneAnswer).  It holds for any requests, chains, budgets    *)
(* and failures.                                                            *)
THEOREM AnsweredByOne == FailoverSpec => []OneAnswer
<1>1. FailoverInv => OneAnswer
  BY Answers
<1> QED
  BY <1>1, FailoverStart, FailoverStep, PTL DEF FailoverSpec

(* No provider is tried twice for a request, but for its retries, which are *)
(* at most PROVIDER_MAX_RETRIES: the chain names each of them once, and     *)
(* putting the active one first does not repeat it                          *)
THEOREM TriedOnce ==
  FailoverSpec => [](\A r \in Requests : Once(ask[r].attempts) /\ ask[r].retry <= MaxRetries)
<1>1. FailoverInv => \A r \in Requests : Once(ask[r].attempts) /\ ask[r].retry <= MaxRetries
  BY DEF FailoverInv, AskOK
<1> QED
  BY <1>1, FailoverStart, FailoverStep, PTL DEF FailoverSpec

(* How far a request is from its end: the providers left, the retries left  *)
(* to the one it is at, and where it is with it.                            *)
AskStage(a) ==
    CASE a.pc \in {"next", "retry"}                                  -> 4
      [] a.pc \in {"calling", "streaming"} /\ a.output = <<>>        -> 3
      [] a.pc \in {"calling", "streaming"} /\ a.output # <<>>        -> 2
      [] a.pc \in {"returned", "all_failed", "partial"}              -> 1
      [] a.pc = "waiting"                                            -> 0

Nearer(a, b) ==
    \/ b.pc = "waiting"
    \/ Len(b.todo) < Len(a.todo)
    \/ b.todo = a.todo /\ a.retry < b.retry /\ b.retry <= MaxRetries
    \/ b.todo = a.todo /\ b.retry = a.retry /\ AskStage(b) < AskStage(a)

LEMMA GoesNearer ==
  ASSUME FailoverInv, NEW r \in Requests, NEW pc, ask' = [ask EXCEPT ![r].pc = pc],
         \/ ask[r].pc \in {"next", "retry"} /\ pc \in {"calling", "streaming", "all_failed"}
         \/ ask[r].pc \in {"calling", "streaming"} /\ pc \in {"returned", "partial"}
  PROVE  Nearer(ask[r], ask'[r])
<1>1. ask[r] \in AskType
  BY DEF FailoverInv
<1>2. ask'[r] = [ask[r] EXCEPT !.pc = pc]
  BY DEF FailoverInv
<1>3. PICK a, b : a = ask[r] /\ b = ask'[r]
  OBVIOUS
<1>4. b.pc = pc /\ b.todo = a.todo /\ b.retry = a.retry /\ b.output = a.output
  BY <1>1, <1>2, <1>3 DEF AskType
<1>5. AskStage(b) < AskStage(a)
  <2>1. CASE a.pc \in {"next", "retry"} /\ pc \in {"calling", "streaming", "all_failed"}
    BY <1>4, <2>1 DEF AskStage
  <2>2. CASE a.pc \in {"calling", "streaming"} /\ pc \in {"returned", "partial"}
    BY <1>4, <2>2 DEF AskStage
  <2> QED
    BY <1>3, <2>1, <2>2
<1> QED
  BY <1>3, <1>4, <1>5 DEF Nearer

LEMMA GivesUpNearer ==
  ASSUME FailoverInv, NEW r \in Requests, ask[r].todo # <<>>, NEW category, GiveUp(r, category)
  PROVE  Nearer(ask[r], ask'[r])
<1>1. ask[r] \in AskType /\ ask[r].todo \in Seq(Providers)
  BY DEF FailoverInv, AskType
<1>2. ask'[r].todo = Tail(ask[r].todo)
  BY <1>1 DEF GiveUp, FailoverInv, AskType
<1>3. PICK todo \in Seq(Providers) : todo = ask[r].todo /\ todo # <<>>
  BY <1>1
<1>4. Len(Tail(todo)) < Len(todo)
  BY <1>3
<1> QED
  BY <1>2, <1>3, <1>4 DEF Nearer

LEMMA FailsNearer ==
  ASSUME FailoverInv, NEW r \in Requests, ask[r].todo # <<>>, NEW category, Fail(r, category)
  PROVE  Nearer(ask[r], ask'[r])
<1>1. CASE ~MayRetry(r, category)
  BY <1>1, GivesUpNearer DEF Fail
<1>2. CASE MayRetry(r, category)
  <2>1. ask[r] \in AskType /\ ask[r].retry \in Nat /\ ask[r].retry < MaxRetries /\ MaxRetries \in Nat
    BY <1>2, RetriesType DEF FailoverInv, AskType, MayRetry
  <2>2. ask'[r].retry = ask[r].retry + 1 /\ ask'[r].todo = ask[r].todo
    BY <1>2, <2>1 DEF Fail, NextRetry, FailoverInv, AskType
  <2>3. ask[r].retry < ask'[r].retry /\ ask'[r].retry <= MaxRetries
    BY <2>1, <2>2
  <2> QED
    BY <2>2, <2>3 DEF Nearer
<1> QED
  BY <1>1, <1>2

LEMMA StepNearer ==
  ASSUME FailoverInv, NEW r \in Requests, Progress(r) \/ Chunk(r)
  PROVE  Nearer(ask[r], ask'[r])
<1>1. CASE Skip(r)
  BY <1>1, GivesUpNearer DEF Skip
<1>2. ASSUME Tries(r) PROVE ask[r].todo # <<>> /\ ask[r].pc \in {"next", "retry"}
  BY <1>2, BeforeCall DEF Tries
<1>3. ASSUME Tries(r), Call(r) PROVE Nearer(ask[r], ask'[r])
  BY <1>2, <1>3, GoesNearer DEF Call
<1>4. CASE CheckRateLimit(r)
  <2>1. Tries(r) /\ (Fail(r, "retryable") \/ Call(r))
    BY <1>4 DEF CheckRateLimit
  <2> QED
    BY <1>2, <1>3, <2>1, FailsNearer
<1>5. CASE FailOpen(r)
  BY <1>3, <1>5 DEF FailOpen
<1>6. CASE CallReturns(r)
  <2>1. PICK out : out = <<Current(r)>>
    OBVIOUS
  <2>2. ask[r] \in AskType /\ ask[r].pc = "calling"
    BY <1>6 DEF CallReturns, FailoverInv
  <2>3. ask'[r] = [ask[r] EXCEPT !.pc = "returned", !.output = out]
    BY <1>6, <2>1 DEF CallReturns, FailoverInv
  <2>4. PICK a, b : a = ask[r] /\ b = ask'[r]
    OBVIOUS
  <2>5. b.pc = "returned" /\ a.pc = "calling" /\ b.todo = a.todo /\ b.retry = a.retry
    BY <2>2, <2>3, <2>4 DEF AskType
  <2>6. AskStage(b) < AskStage(a)
    BY <2>5 DEF AskStage
  <2> QED
    BY <2>4, <2>5, <2>6 DEF Nearer
<1>7. CASE CallRaises(r)
  BY <1>7, BeforeCall, FailsNearer DEF CallRaises
<1>8. CASE Exhausted(r)
  BY <1>8, GoesNearer DEF Exhausted
<1>9. CASE StartStream(r)
  BY <1>9, GoesNearer DEF StartStream
<1>10. CASE StreamEnds(r)
  BY <1>10, GoesNearer DEF StreamEnds
<1>11. CASE StreamRaises(r)
  <2>1. ask[r].todo # <<>> /\ ask[r].pc = "streaming"
    BY <1>11, BeforeCall DEF StreamRaises
  <2>2. CASE SwitchesAfter(r)
    BY <1>11, <2>1, <2>2, GivesUpNearer DEF StreamRaises
  <2>3. CASE ~SwitchesAfter(r)
    BY <1>11, <2>1, <2>3, GoesNearer DEF StreamRaises
  <2> QED
    BY <2>2, <2>3
<1>12. CASE Answered(r)
  BY <1>12 DEF Answered, Waiting, FailoverInv, Nearer
<1>13. CASE Chunk(r)
  <2>1. ask[r] \in AskType /\ ask[r].pc = "streaming" /\ ask[r].output = <<>> /\ ask[r].todo # <<>>
    BY <1>13, BeforeCall DEF Chunk, FailoverInv
  <2>2. PICK out : out = Append(ask[r].output, Current(r))
    OBVIOUS
  <2>3. out # <<>>
    BY <2>1, <2>2
  <2>4. ask'[r] = [ask[r] EXCEPT !.output = out]
    BY <1>13, <2>2 DEF Chunk, FailoverInv
  <2>5. PICK a, b : a = ask[r] /\ b = ask'[r]
    OBVIOUS
  <2>6. /\ b.pc = "streaming" /\ a.pc = "streaming" /\ b.todo = a.todo /\ b.retry = a.retry
        /\ a.output = <<>> /\ b.output # <<>>
    BY <2>1, <2>3, <2>4, <2>5 DEF AskType
  <2>7. AskStage(b) < AskStage(a)
    BY <2>6 DEF AskStage
  <2> QED
    BY <2>5, <2>6, <2>7 DEF Nearer
<1> QED
  BY <1>1, <1>4, <1>5, <1>6, <1>7, <1>8, <1>9, <1>10, <1>11, <1>12, <1>13 DEF Progress

LEMMA OthersAsk ==
  ASSUME FailoverInv, NEW r \in Requests, NEW q \in Requests, q # r, Progress(r) \/ Chunk(r)
  PROVE  ask'[q] = ask[q]
<1>1. ASSUME NEW category, GiveUp(r, category) \/ Fail(r, category) \/ Call(r) PROVE ask'[q] = ask[q]
  BY <1>1 DEF GiveUp, Fail, Call, FailoverInv
<1> QED
  BY <1>1 DEF Progress, Skip, CheckRateLimit, FailOpen, CallReturns, CallRaises, Exhausted, StartStream,
     StreamEnds, StreamRaises, Answered, Chunk, FailoverInv

(* A request cannot go round its providers for ever: whatever the breakers, *)
(* the limiter and the other requests do, each of its steps ends it, leaves *)
(* a provider behind, uses up one of its bounded retries, or brings it      *)
(* nearer to the end of the try.  With FailoverFairness this is why a       *)
(* request ends.                                                            *)
THEOREM RequestAdvances ==
  FailoverSpec =>
    [][\A r \in Requests : ask[r].pc # "waiting" => ask'[r] = ask[r] \/ Nearer(ask[r], ask'[r])]_failoverVars
<1> DEFINE A == \A r \in Requests : ask[r].pc # "waiting" => ask'[r] = ask[r] \/ Nearer(ask[r], ask'[r])
<1>1. FailoverInv /\ [FailoverNext]_failoverVars => A
  <2> SUFFICES ASSUME FailoverInv, [FailoverNext]_failoverVars, NEW r \in Requests, ask[r].pc # "waiting"
               PROVE  ask'[r] = ask[r] \/ Nearer(ask[r], ask'[r])
    OBVIOUS
  <2>1. CASE Tick \/ UNCHANGED failoverVars
    BY <2>1 DEF Tick, failoverVars
  <2>2. ASSUME NEW q \in Requests, Progress(q) \/ Chunk(q) PROVE ask'[r] = ask[r] \/ Nearer(ask[r], ask'[r])
    BY <2>2, StepNearer, OthersAsk
  <2>3. ASSUME NEW q \in Requests,
               GenerateChatResponse(q) \/ GenerateToolCall(q) \/ StreamChatResponse(q) \/ EmbedTexts(q)
        PROVE  ask'[r] = ask[r]
    <3>1. PICK op, attempts : Asks(q, op, attempts)
      BY <2>3 DEF GenerateChatResponse, GenerateToolCall, StreamChatResponse, EmbedTexts
    <3>2. q # r
      BY <3>1 DEF Asks
    <3> QED
      BY <3>1, <3>2 DEF Asks, FailoverInv
  <2> QED
    BY <2>1, <2>2, <2>3 DEF FailoverNext
<1>2. FailoverInv /\ [FailoverNext]_failoverVars => [A]_failoverVars
  BY <1>1
<1> QED
  BY <1>2, FailoverStart, FailoverStep, PTL DEF FailoverSpec

-----------------------------------------------------------------------------
(***************************************************************************)
(* Retrieval.  The question keeps its place: it is never later among the   *)
(* distinct searches than among the planner's lines, so that cutting the   *)
(* list does not lose it.  Every chunk added is one that the context does  *)
(* not have, and the sources are a prefix of all documents in order of     *)
(* their best match.                                                       *)
(***************************************************************************)

QueryType == [doc : Docs \cup {0}, text : Lines]
Result == [chunk : Docs \X Nat, score : Scores]

RetrievalTypes ==
    /\ stage \in {"plan", "search", "cite", "done"}
    /\ queries \in Seq(QueryType) /\ context \in Seq(Result)

QueriesOK(qs) == Contains(qs, Query(Question)) /\ Len(qs) <= MaxQueries

ChunksOnce(found) == \A i, j \in DOMAIN found : found[i].chunk = found[j].chunk => i = j

SourcesOK(cited) ==
    /\ \A i \in DOMAIN cited : \E j \in DOMAIN context :
            context[j] = [chunk |-> <<cited[i].doc, context[j].chunk[2]>>, score |-> cited[i].best]
    /\ \A j \in DOMAIN context : context[j].score <= SourceRelevance =>
            \/ \E i \in DOMAIN cited : cited[i].doc = context[j].chunk[1]
            \/ Len(cited) = MaxSources /\ \A i \in DOMAIN cited : cited[i].best <= context[j].score

(* Nothing is cited before the end *)
RetrievalInv ==
    /\ RetrievalTypes
    /\ queries # <<>> \/ stage = "search" => QueriesOK(queries)
    /\ ChunksOnce(context)
    /\ stage = "plan" => queries = <<>> /\ context = <<>>
    /\ stage # "done" => sources = <<>>
    /\ stage = "done" => SourcesOK(sources)

LEMMA Grounded == RetrievalInv => AnswerGrounded
BY DEF RetrievalInv, AnswerGrounded, QueriesOK, ChunksOnce, SourcesOK

LEMMA RetrievalStart == RetrievalInit => RetrievalInv
BY DEF RetrievalInit, RetrievalInv, RetrievalTypes, ChunksOnce

-----------------------------------------------------------------------------
(* The searches *)

LEMMA CutOff ==
  ASSUME NEW S, NEW s \in Seq(S), NEW n \in Nat
  PROVE  /\ UpTo(n, s) \in Seq(S)
         /\ Len(UpTo(n, s)) = IF Len(s) < n THEN Len(s) ELSE n
         /\ DOMAIN UpTo(n, s) \subseteq DOMAIN s
         /\ \A i \in DOMAIN UpTo(n, s) : UpTo(n, s)[i] = s[i]
<1> DEFINE m == IF Len(s) < n THEN Len(s) ELSE n
<1>1. m \in Nat /\ m <= Len(s) /\ Len(s) \in Nat /\ DOMAIN s = 1 .. Len(s)
  OBVIOUS
<1>2. UpTo(n, s) = SubSeq(s, 1, m)
  BY DEF UpTo
<1> HIDE DEF m
<1>3. /\ SubSeq(s, 1, m) \in Seq(S) /\ Len(SubSeq(s, 1, m)) = m
      /\ \A i \in 1 .. m : SubSeq(s, 1, m)[i] = s[i]
  BY <1>1
<1>4. DOMAIN SubSeq(s, 1, m) = 1 .. m
  BY <1>3
<1>5. 1 .. m \subseteq 1 .. Len(s)
  BY <1>1
<1> QED
  BY <1>1, <1>2, <1>3, <1>4, <1>5 DEF m

LEMMA DistinctKept ==
  ASSUME NEW S, NEW s \in Seq(S)
  PROVE  /\ Distinct(s) \in Seq(S) /\ Len(Distinct(s)) <= Len(s)
         /\ \A m \in DOMAIN Distinct(s) : \E i \in DOMAIN s : m <= i /\ Distinct(s)[m] = s[i]
<1> DEFINE I == {i \in DOMAIN s : \A j \in 1 .. i - 1 : s[j] # s[i]}
<1>1. I \in SUBSET DOMAIN s
  OBVIOUS
<1>2. Distinct(s) = Keeping(s, I)
  BY DEF Distinct
<1> HIDE DEF I
<1>3. /\ Keeping(s, I) \in Seq(S) /\ Len(Keeping(s, I)) <= Len(s)
      /\ \A m \in DOMAIN Keeping(s, I) :
            /\ Positions(I)[m] \in I /\ m <= Positions(I)[m]
            /\ Keeping(s, I)[m] = s[Positions(I)[m]]
  BY <1>1, Kept
<1>4. \A m \in DOMAIN Keeping(s, I) : \E i \in DOMAIN s : m <= i /\ Keeping(s, I)[m] = s[i]
  BY <1>1, <1>3
<1> QED
  BY <1>2, <1>3, <1>4

(* The question is among the searches, and not cut off: a planner that      *)
(* wrote it did so before the documents were added                          *)
LEMMA Planned ==
  ASSUME NEW n \in Nat, NEW lines \in [1 .. n -> Lines],
         NEW qs, qs = UpTo(MaxQueries, WithQuestion(Distinct(ParseQueries(lines) \o DocumentQueries)))
  PROVE  qs \in Seq(QueryType) /\ QueriesOK(qs)
<1> DEFINE written == [i \in DOMAIN lines |-> Query(lines[i])]
           parsed == ParseQueries(lines)
           all == parsed \o DocumentQueries
           asked == Distinct(all)
           question == Query(Question)
<1>0. MaxQueries \in Nat /\ MaxQueries >= 1 /\ question \in QueryType
  BY RetrievalAssumption DEF Query, QueryType
<1>1. written \in Seq(QueryType)
  <2>1. \A i \in 1 .. n : Query(lines[i]) \in QueryType
    BY DEF Query, QueryType
  <2> QED
    BY <2>1
<1>2. parsed \in Seq(QueryType) /\ Len(parsed) <= MaxQueries
  <2>1. parsed = UpTo(MaxQueries, Distinct(written))
    BY DEF ParseQueries
  <2> HIDE DEF parsed, written
  <2>2. Distinct(written) \in Seq(QueryType)
    BY <1>1, DistinctKept
  <2>3. /\ UpTo(MaxQueries, Distinct(written)) \in Seq(QueryType)
        /\ Len(UpTo(MaxQueries, Distinct(written))) =
                IF Len(Distinct(written)) < MaxQueries THEN Len(Distinct(written)) ELSE MaxQueries
    BY <1>0, <2>2, CutOff
  <2> QED
    BY <1>0, <2>1, <2>2, <2>3
<1>3. /\ DocumentQueries \in Seq(QueryType)
      /\ \A i \in DOMAIN DocumentQueries : DocumentQueries[i] # question
  <2>1. \A i \in DOMAIN Relevant : Relevant[i] \in Docs /\ Relevant[i] # 0
    BY RetrievalAssumption
  <2>2. \A i \in DOMAIN Relevant : [doc |-> Relevant[i], text |-> Question] \in QueryType
    BY <2>1, RetrievalAssumption DEF QueryType
  <2>3. \A i \in DOMAIN Relevant : [doc |-> Relevant[i], text |-> Question] # question
    BY <2>1 DEF Query
  <2>4. DOMAIN Relevant = 1 .. Len(Relevant) /\ Len(Relevant) \in Nat
    BY RetrievalAssumption
  <2> QED
    BY <2>2, <2>3, <2>4 DEF DocumentQueries
<1> HIDE DEF written, parsed, question
<1>4. /\ all \in Seq(QueryType) /\ Len(parsed) \in Nat
      /\ \A i \in DOMAIN all : i <= Len(parsed) \/ all[i] # question
  <2>1. /\ all \in Seq(QueryType) /\ Len(parsed) \in Nat /\ Len(DocumentQueries) \in Nat
        /\ DOMAIN all = 1 .. Len(parsed) + Len(DocumentQueries)
        /\ DOMAIN DocumentQueries = 1 .. Len(DocumentQueries)
        /\ \A i \in DOMAIN all : i > Len(parsed) => all[i] = DocumentQueries[i - Len(parsed)]
    BY <1>2, <1>3
  <2>2. ASSUME NEW i \in DOMAIN all, i > Len(parsed) PROVE all[i] # question
    <3>1. i - Len(parsed) \in DOMAIN DocumentQueries
      BY <2>1, <2>2
    <3> QED
      BY <1>3, <2>1, <2>2, <3>1
  <2>3. \A i \in DOMAIN all : i \in Nat
    BY <2>1
  <2> HIDE DEF all
  <2> QED
    BY <2>1, <2>2, <2>3
<1> HIDE DEF all
<1>5. /\ asked \in Seq(QueryType)
      /\ \A m \in DOMAIN asked : \E i \in DOMAIN all : m <= i /\ asked[m] = all[i]
  BY <1>4, DistinctKept
<1> HIDE DEF asked
<1>6. ASSUME NEW m \in DOMAIN asked, asked[m] = question PROVE m <= MaxQueries
  <2>1. PICK i \in DOMAIN all : m <= i /\ asked[m] = all[i]
    BY <1>5
  <2>2. i <= Len(parsed)
    BY <1>4, <1>6, <2>1
  <2>3. m \in Nat /\ i \in Nat
    BY <1>4, <1>5
  <2> QED
    BY <1>0, <1>2, <1>4, <2>1, <2>2, <2>3
<1>7. PICK more : more = WithQuestion(asked)
  OBVIOUS
<1>8. more \in Seq(QueryType) /\ \E m \in DOMAIN more : more[m] = question /\ m <= MaxQueries
  <2>1. CASE Contains(asked, question)
    <3>1. more = asked
      BY <1>7, <2>1 DEF WithQuestion, question
    <3>2. PICK m \in DOMAIN asked : asked[m] = question
      BY <2>1 DEF Contains
    <3> QED
      BY <1>5, <1>6, <3>1, <3>2
  <2>2. CASE ~Contains(asked, question)
    <3>1. more = <<question>> \o asked
      BY <1>7, <2>2 DEF WithQuestion, question
    <3>2. /\ <<question>> \o asked \in Seq(QueryType) /\ 1 \in DOMAIN (<<question>> \o asked)
          /\ (<<question>> \o asked)[1] = question
      BY <1>0, <1>5
    <3> QED
      BY <1>0, <3>1, <3>2
  <2> QED
    BY <2>1, <2>2
<1>9. qs = UpTo(MaxQueries, more)
  BY <1>7 DEF asked, all, parsed
<1>10. /\ qs \in Seq(QueryType) /\ Len(qs) = IF Len(more) < MaxQueries THEN Len(more) ELSE MaxQueries
       /\ \A i \in DOMAIN qs : qs[i] = more[i]
  BY <1>0, <1>8, <1>9, CutOff
<1>11. PICK m \in DOMAIN more : more[m] = question /\ m <= MaxQueries
  BY <1>8
<1>12. m \in DOMAIN qs
  <2>1. m \in 1 .. Len(more) /\ Len(more) \in Nat /\ DOMAIN qs = 1 .. Len(qs)
    BY <1>8, <1>10
  <2> QED
    BY <1>0, <1>10, <1>11, <2>1
<1>13. Len(qs) <= MaxQueries
  BY <1>0, <1>8, <1>10
<1> QED
  BY <1>10, <1>11, <1>12, <1>13 DEF QueriesOK, Contains, question

-----------------------------------------------------------------------------
(* The context *)

LEMMA Joined ==
  ASSUME context \in Seq(Result), ChunksOnce(context), NEW more \in Seq(Result), ChunksOnce(more),
         \A i \in DOMAIN context, j \in DOMAIN more : context[i].chunk # more[j].chunk
  PROVE  context \o more \in Seq(Result) /\ ChunksOnce(context \o more)
<1> DEFINE all == context \o more
           n == Len(context)
           m == Len(more)
<1>1. /\ all \in Seq(Result) /\ n \in Nat /\ m \in Nat /\ DOMAIN all = 1 .. n + m
      /\ DOMAIN context = 1 .. n /\ DOMAIN more = 1 .. m
      /\ \A i \in 1 .. n : all[i] = context[i]
      /\ \A i \in n + 1 .. n + m : all[i] = more[i - n] /\ i - n \in 1 .. m
  OBVIOUS
<1> HIDE DEF all, n, m
<1>2. ASSUME NEW i \in 1 .. n + m, NEW j \in 1 .. n + m, all[i].chunk = all[j].chunk PROVE i = j
  <2>1. CASE i \in 1 .. n /\ j \in 1 .. n
    BY <1>1, <1>2, <2>1 DEF ChunksOnce
  <2>2. CASE i \in n + 1 .. n + m /\ j \in n + 1 .. n + m
    <3>1. more[i - n].chunk = more[j - n].chunk /\ i - n \in DOMAIN more /\ j - n \in DOMAIN more
      BY <1>1, <1>2, <2>2
    <3>2. i - n = j - n
      BY <3>1 DEF ChunksOnce
    <3> QED
      BY <1>1, <3>2
  <2>3. CASE i \in 1 .. n /\ j \in n + 1 .. n + m
    <3>1. all[i] = context[i] /\ all[j] = more[j - n] /\ i \in DOMAIN context /\ j - n \in DOMAIN more
      BY <1>1, <2>3
    <3>2. context[i].chunk # more[j - n].chunk
      BY <3>1
    <3> QED
      BY <1>2, <3>1, <3>2
  <2>4. CASE i \in n + 1 .. n + m /\ j \in 1 .. n
    <3>1. all[j] = context[j] /\ all[i] = more[i - n] /\ j \in DOMAIN context /\ i - n \in DOMAIN more
      BY <1>1, <2>4
    <3>2. context[j].chunk # more[i - n].chunk
      BY <3>1
    <3> QED
      BY <1>2, <3>1, <3>2
  <2>5. (i \in 1 .. n \/ i \in n + 1 .. n + m) /\ (j \in 1 .. n \/ j \in n + 1 .. n + m)
    BY <1>1
  <2> QED
    BY <2>1, <2>2, <2>3, <2>4, <2>5
<1> QED
  BY <1>1, <1>2 DEF ChunksOnce, all

LEMMA Searched ==
  ASSUME RetrievalInv, SearchProjectDocuments
  PROVE  context' \in Seq(Result) /\ ChunksOnce(context')
<1>1. PICK results \in Retrieved :
          context' = context \o Keeping(results, {i \in DOMAIN results : Keeps(results[i])})
  BY DEF SearchProjectDocuments
<1>2. PICK k \in 0 .. TopK :
          /\ results \in [1 .. k -> [chunk : Chunks, score : Scores]]
          /\ \A i, j \in 1 .. k : i < j => results[i].chunk # results[j].chunk
  BY <1>1 DEF Retrieved
<1>3. k \in Nat /\ Chunks \subseteq Docs \X Nat
  BY RetrievalAssumption DEF Chunks
<1>4. [chunk : Chunks, score : Scores] \subseteq Result
  BY <1>3 DEF Result
<1>5. results \in Seq(Result) /\ DOMAIN results = 1 .. k
  BY <1>2, <1>3, <1>4
<1> DEFINE I == {i \in DOMAIN results : Keeps(results[i])}
           more == Keeping(results, I)
<1>6. I \in SUBSET DOMAIN results /\ \A i \in I : ~InContext(results[i].chunk)
  BY DEF Keeps
<1>7. \A i, j \in DOMAIN results : results[i].chunk = results[j].chunk => i = j
  BY <1>2, <1>3, <1>5
<1>8. context' = context \o more
  BY <1>1
<1> HIDE DEF I
<1>9. /\ more \in Seq(Result)
      /\ \A m \in DOMAIN more : Positions(I)[m] \in I /\ more[m] = results[Positions(I)[m]]
      /\ \A m, n \in DOMAIN more : m < n => Positions(I)[m] < Positions(I)[n]
  BY <1>5, <1>6, Kept
<1> HIDE DEF more
<1>10. ChunksOnce(more)
  <2> SUFFICES ASSUME NEW m \in DOMAIN more, NEW n \in DOMAIN more, more[m].chunk = more[n].chunk
               PROVE  m = n
    BY DEF ChunksOnce
  <2>1. Positions(I)[m] = Positions(I)[n]
    BY <1>6, <1>7, <1>9
  <2>2. Positions(I)[m] \in Nat /\ m \in Nat /\ n \in Nat
    BY <1>5, <1>6, <1>9
  <2>3. ~(m < n) /\ ~(n < m)
    BY <1>9, <2>1, <2>2
  <2> QED
    BY <2>2, <2>3
<1>11. \A i \in DOMAIN context, j \in DOMAIN more : context[i].chunk # more[j].chunk
  BY <1>6, <1>9 DEF InContext
<1>12. context \in Seq(Result) /\ ChunksOnce(context)
  BY DEF RetrievalInv, RetrievalTypes
<1> QED
  BY <1>8, <1>9, <1>10, <1>11, <1>12, Joined

LEMMA Excerpted ==
  ASSUME RetrievalInv, AddExcerpts
  PROVE  context' \in Seq(Result) /\ ChunksOnce(context')
<1>1. context \in Seq(Result) /\ ChunksOnce(context)
  BY DEF RetrievalInv, RetrievalTypes
<1>2. CASE ~agentic
  BY <1>1, <1>2 DEF AddExcerpts
<1>3. CASE agentic
  <2>1. PICK withText \in SUBSET Docs :
            LET added == Keeping(Relevant, {i \in DOMAIN Relevant :
                                         Relevant[i] \in withText /\ Missing(Relevant[i])}) IN
            context' = context \o [i \in DOMAIN added |-> Excerpt(added[i])]
    BY <1>3 DEF AddExcerpts
  <2> DEFINE I == {i \in DOMAIN Relevant : Relevant[i] \in withText /\ Missing(Relevant[i])}
             added == Keeping(Relevant, I)
             more == [i \in DOMAIN added |-> Excerpt(added[i])]
  <2>2. context' = context \o more
    BY <2>1
  <2>3. I \in SUBSET DOMAIN Relevant /\ \A i \in I : Missing(Relevant[i])
    OBVIOUS
  <2> HIDE DEF I
  <2>4. Relevant \in Seq(Docs) /\ \A i, j \in DOMAIN Relevant : Relevant[i] = Relevant[j] => i = j
    BY RetrievalAssumption
  <2>5. /\ added \in Seq(Docs)
        /\ \A m \in DOMAIN added : Positions(I)[m] \in I /\ added[m] = Relevant[Positions(I)[m]]
    BY <2>3, <2>4, Kept
  <2>6. \A m, n \in DOMAIN added : added[m] = added[n] => m = n
    BY <2>3, <2>4, KeptOnce
  <2>7. \A m \in DOMAIN added : added[m] \in Docs /\ Missing(added[m])
    BY <2>3, <2>5
  <2> HIDE DEF added
  <2>8. \A d \in Docs : Excerpt(d) \in Result /\ Excerpt(d).chunk = <<d, 0>>
    BY DEF Excerpt, Result, Scores
  <2>9. /\ more \in Seq(Result) /\ DOMAIN more = DOMAIN added
        /\ \A m \in DOMAIN more : more[m].chunk = <<added[m], 0>>
    BY <2>5, <2>7, <2>8
  <2> HIDE DEF more
  <2>10. ChunksOnce(more)
    BY <2>6, <2>9 DEF ChunksOnce
  <2>11. \A i \in DOMAIN context, j \in DOMAIN more : context[i].chunk # more[j].chunk
    <3>1. \A j \in DOMAIN more : more[j].chunk[1] = added[j]
      BY <2>9
    <3>2. \A i \in DOMAIN context, j \in DOMAIN more : context[i].chunk[1] # added[j]
      BY <2>7, <2>9 DEF Missing
    <3> QED
      BY <3>1, <3>2
  <2> QED
    BY <1>1, <2>2, <2>9, <2>10, <2>11, Joined
<1> QED
  BY <1>2, <1>3

-----------------------------------------------------------------------------
(* The sources *)

(* The best match of a document, and the first one *)
LEMMA Best ==
  ASSUME context \in Seq(Result), NEW d \in Docs, Cited(d) # {}
  PROVE  /\ Source(d).doc = d /\ Source(d).best \in Nat
         /\ \E i \in Cited(d) : context[i].score = Source(d).best
         /\ \A i \in Cited(d) : Source(d).best <= context[i].score
         /\ First(d) \in Cited(d) /\ First(d) \in Nat
<1> DEFINE S == {context[i].score : i \in Cited(d)}
<1>1. DOMAIN context = 1 .. Len(context) /\ Len(context) \in Nat /\ \A i \in DOMAIN context : context[i] \in Result
  OBVIOUS
<1>2. Cited(d) \in SUBSET (1 .. Len(context))
  BY <1>1 DEF Cited
<1>3. S \subseteq 0 .. 3 /\ S # {}
  <2>1. \A i \in DOMAIN context : context[i].score \in 0 .. 3
    BY <1>1 DEF Result, Scores
  <2> QED
    BY <1>1, <1>2, <2>1
<1>4. \E s \in S : \A t \in S : s <= t
  <2> HIDE DEF S
  <2>1. \A s \in S : s = 0 \/ s = 1 \/ s = 2 \/ s = 3
    BY <1>3
  <2>2. CASE 0 \in S
    BY <2>1, <2>2
  <2>3. CASE 0 \notin S /\ 1 \in S
    BY <2>1, <2>3
  <2>4. CASE 0 \notin S /\ 1 \notin S /\ 2 \in S
    BY <2>1, <2>4
  <2>5. CASE 0 \notin S /\ 1 \notin S /\ 2 \notin S
    <3>1. \A s \in S : s = 3
      BY <2>1, <2>5
    <3>2. PICK s : s \in S
      BY <1>3
    <3>3. \A t \in S : s <= t
      BY <3>1, <3>2
    <3> QED
      BY <3>2, <3>3
  <2> QED
    BY <2>2, <2>3, <2>4, <2>5
<1>5. Smallest(S) \in S /\ \A t \in S : Smallest(S) <= t
  BY <1>4 DEF Smallest
<1>6. Source(d).doc = d /\ Source(d).best = Smallest(S)
  BY DEF Source
<1>7. Smallest(S) \in Nat
  <2>1. Smallest(S) \in 0 .. 3
    BY <1>3, <1>5
  <2> QED
    BY <2>1
<1>8. \E i \in Cited(d) : context[i].score = Smallest(S)
  BY <1>5
<1>9. \A i \in Cited(d) : Smallest(S) <= context[i].score
  BY <1>5
<1>10. First(d) \in Cited(d)
  <2>1. \E i \in Cited(d) : \A j \in Cited(d) : i <= j
    BY <1>1, <1>2, LeastPosition
  <2> QED
    BY <2>1 DEF First
<1>11. First(d) \in Nat
  BY <1>2, <1>10
<1> HIDE DEF S
<1> QED
  BY <1>6, <1>7, <1>8, <1>9, <1>10, <1>11

LEMMA Sorted ==
  ASSUME context \in Seq(Result)
  PROVE  /\ IsFiniteSet(Grouped)
         /\ StrictTotal(Grouped, {p \in Grouped \X Grouped : Before(p[1], p[2])})
<1> DEFINE D == {e \in Docs : Cited(e) # {}}
           order == {p \in Grouped \X Grouped : Before(p[1], p[2])}
           f == [d \in D |-> Source(d)]
<1>1. IsFiniteSet(D)
  <2>1. D \in SUBSET Docs /\ IsFiniteSet(Docs)
    BY RetrievalAssumption
  <2> QED
    BY ONLY <2>1, FS_Subset
<1>2. f \in Surjection(D, Grouped)
  BY DEF Surjection, Grouped
<1>3. IsFiniteSet(Grouped)
  BY ONLY <1>1, <1>2, FS_Surjection
<1>4. ASSUME NEW a \in Grouped
      PROVE  /\ a = Source(a.doc) /\ a.best \in Nat /\ First(a.doc) \in Nat
             /\ First(a.doc) \in DOMAIN context /\ context[First(a.doc)].chunk[1] = a.doc
  <2>1. PICK d \in Docs : Cited(d) # {} /\ a = Source(d)
    BY DEF Grouped
  <2>2. a.doc = d /\ a.best \in Nat /\ First(d) \in Cited(d) /\ First(d) \in Nat
    BY <2>1, Best
  <2> QED
    BY <2>1, <2>2 DEF Cited
<1>5. \A a, b \in Grouped : <<a, b>> \in order <=> Before(a, b)
  OBVIOUS
<1>6. \A a \in Grouped : ~Before(a, a)
  BY <1>4 DEF Before
<1>7. ASSUME NEW a \in Grouped, NEW b \in Grouped, a # b PROVE Before(a, b) \/ Before(b, a)
  <2>1. First(a.doc) # First(b.doc)
    BY <1>4, <1>7
  <2> QED
    BY <1>4, <2>1 DEF Before
<1>8. ASSUME NEW a \in Grouped, NEW b \in Grouped, NEW c \in Grouped, Before(a, b), Before(b, c) PROVE Before(a, c)
  <2>1. /\ a.best \in Nat /\ b.best \in Nat /\ c.best \in Nat
        /\ First(a.doc) \in Nat /\ First(b.doc) \in Nat /\ First(c.doc) \in Nat
    BY <1>4
  <2> QED
    BY <1>8, <2>1 DEF Before
<1> HIDE DEF order
<1>9. StrictTotal(Grouped, order)
  BY <1>5, <1>6, <1>7, <1>8 DEF StrictTotal
<1> QED
  BY <1>3, <1>9 DEF order

LEMMA Built ==
  ASSUME RetrievalInv, BuildSources
  PROVE  SourcesOK(sources')
<1> DEFINE order == {p \in Grouped \X Grouped : Before(p[1], p[2])}
           ranked == OrderBy(Grouped, order)
           cited == sources'
<1>1. context \in Seq(Result)
  BY DEF RetrievalInv, RetrievalTypes
<1>2. IsFiniteSet(Grouped) /\ StrictTotal(Grouped, order)
  BY <1>1, Sorted
<1>3. cited = UpTo(MaxSources, ranked)
  BY DEF BuildSources
<1>4. \A a, b : <<a, b>> \in order => Before(a, b)
  OBVIOUS
<1> HIDE DEF order
<1>5. /\ ranked \in Seq(Grouped) /\ ToSet(ranked) = Grouped
      /\ \A i, j \in DOMAIN ranked : i < j => <<ranked[i], ranked[j]>> \in order
  BY <1>2, OrderedBy
<1> HIDE DEF ranked, cited
<1>6. /\ cited \in Seq(Grouped)
      /\ Len(cited) = IF Len(ranked) < MaxSources THEN Len(ranked) ELSE MaxSources
      /\ DOMAIN cited \subseteq DOMAIN ranked
      /\ \A i \in DOMAIN cited : cited[i] = ranked[i]
  BY <1>3, <1>5, CutOff, RetrievalAssumption
<1>7. \A i, j \in DOMAIN ranked : i < j => Before(ranked[i], ranked[j])
  BY <1>4, <1>5
<1>8. /\ DOMAIN ranked = 1 .. Len(ranked) /\ DOMAIN cited = 1 .. Len(cited)
      /\ Len(ranked) \in Nat /\ Len(cited) \in Nat /\ MaxSources \in Nat
  BY <1>5, <1>6, RetrievalAssumption
<1>9. ASSUME NEW i \in DOMAIN cited
      PROVE  \E j \in DOMAIN context :
                context[j] = [chunk |-> <<cited[i].doc, context[j].chunk[2]>>, score |-> cited[i].best]
  <2>1. cited[i] \in Grouped
    BY <1>6
  <2>2. PICK d \in Docs : Cited(d) # {} /\ cited[i] = Source(d)
    BY <2>1 DEF Grouped
  <2>3. PICK j \in Cited(d) : context[j].score = Source(d).best
    BY <1>1, <2>2, Best
  <2>4. Source(d).doc = d /\ j \in DOMAIN context /\ context[j].chunk[1] = d /\ context[j] \in Result
    BY <1>1, <2>2, <2>3, Best DEF Cited
  <2>5. context[j] = [chunk |-> <<d, context[j].chunk[2]>>, score |-> Source(d).best]
    <3>1. context[j].chunk = <<context[j].chunk[1], context[j].chunk[2]>>
      BY <2>4 DEF Result
    <3>2. context[j] = [chunk |-> context[j].chunk, score |-> context[j].score]
      BY <2>4 DEF Result
    <3> QED
      BY <2>3, <2>4, <3>1, <3>2
  <2> QED
    BY <2>2, <2>4, <2>5
<1>10. ASSUME NEW j \in DOMAIN context, context[j].score <= SourceRelevance
       PROVE  \/ \E i \in DOMAIN cited : cited[i].doc = context[j].chunk[1]
              \/ Len(cited) = MaxSources /\ \A i \in DOMAIN cited : cited[i].best <= context[j].score
  <2>1. PICK d : d = context[j].chunk[1]
    OBVIOUS
  <2>2. d \in Docs /\ j \in Cited(d) /\ context[j].score \in Nat
    <3>1. context[j] \in Result
      BY <1>1
    <3> QED
      BY <1>10, <2>1, <3>1 DEF Result, Scores, Cited
  <2>3. /\ Source(d) \in Grouped /\ Source(d).doc = d /\ Source(d).best \in Nat
        /\ Source(d).best <= context[j].score
    BY <1>1, <2>2, Best DEF Grouped
  <2>4. PICK k \in DOMAIN ranked : ranked[k] = Source(d)
    BY <1>5, <2>3 DEF ToSet
  <2>5. CASE k \in DOMAIN cited
    BY <1>6, <2>1, <2>3, <2>4, <2>5
  <2>6. CASE k \notin DOMAIN cited
    <3>1. Len(cited) = MaxSources /\ \A i \in DOMAIN cited : i < k
      <4>1. k \in 1 .. Len(ranked) /\ ~(k \in 1 .. Len(cited))
        BY <1>8, <2>6
      <4>2. Len(cited) < k /\ k <= Len(ranked) /\ k \in Nat
        BY <1>8, <4>1
      <4>3. Len(cited) = MaxSources
        <5>1. Len(cited) # Len(ranked)
          <6>1. \A x, y, z \in Nat : x < z /\ z <= y => x # y
            OBVIOUS
          <6>2. Len(ranked) \in Nat /\ Len(cited) \in Nat
            BY <1>8
          <6> QED
            BY ONLY <4>2, <6>1, <6>2
        <5>2. Len(cited) = IF Len(ranked) < MaxSources THEN Len(ranked) ELSE MaxSources
          BY <1>6
        <5> QED
          BY <5>1, <5>2
      <4> QED
        BY <1>8, <4>2, <4>3
    <3>2. ASSUME NEW i \in DOMAIN cited PROVE cited[i].best <= context[j].score
      <4>1. Before(cited[i], Source(d))
        BY <1>6, <1>7, <2>4, <3>1
      <4>2. cited[i].best \in Nat
        <5>1. PICK e \in Docs : Cited(e) # {} /\ cited[i] = Source(e)
          BY <1>6 DEF Grouped
        <5> QED
          BY <1>1, <5>1, Best
      <4>3. cited[i].best <= Source(d).best
        BY <2>3, <4>1, <4>2 DEF Before
      <4> QED
        BY <2>2, <2>3, <4>2, <4>3
    <3> QED
      BY <3>1, <3>2
  <2> QED
    BY <2>5, <2>6
<1> QED
  BY <1>9, <1>10 DEF SourcesOK, cited

-----------------------------------------------------------------------------
LEMMA RetrievalStep == RetrievalInv /\ [RetrievalNext]_retrievalVars => RetrievalInv'
<1> SUFFICES ASSUME RetrievalInv, [RetrievalNext]_retrievalVars PROVE RetrievalInv'
  OBVIOUS
<1> USE DEF RetrievalInv, RetrievalTypes
<1>1. CASE PlanDocumentSearches
  <2>0. PICK n \in 0 .. MaxQueries + 1 : \E lines \in [1 .. n -> Lines] :
            queries' = UpTo(MaxQueries, WithQuestion(Distinct(ParseQueries(lines) \o DocumentQueries)))
    BY <1>1 DEF PlanDocumentSearches
  <2>1. PICK lines \in [1 .. n -> Lines] :
            queries' = UpTo(MaxQueries, WithQuestion(Distinct(ParseQueries(lines) \o DocumentQueries)))
    BY <2>0
  <2>2. n \in Nat
    BY RetrievalAssumption
  <2>3. PICK qs : qs = UpTo(MaxQueries, WithQuestion(Distinct(ParseQueries(lines) \o DocumentQueries)))
    OBVIOUS
  <2>4. qs \in Seq(QueryType) /\ QueriesOK(qs) /\ queries' = qs
    BY <2>1, <2>2, <2>3, Planned
  <2>5. QueriesOK(queries)'
    BY <2>4 DEF QueriesOK, Query
  <2>6. stage' = "search" /\ context' = context /\ sources' = sources /\ stage = "plan"
    BY <1>1 DEF PlanDocumentSearches
  <2> QED
    BY <2>4, <2>5, <2>6 DEF ChunksOnce
<1>2. CASE ListProjectDocuments
  <2>1. /\ stage' = "done" /\ queries' = queries /\ context' = context /\ sources' = sources
        /\ queries = <<>> /\ context = <<>> /\ sources = <<>>
    BY <1>2 DEF ListProjectDocuments
  <2>2. SourcesOK(sources)'
    BY <2>1 DEF SourcesOK
  <2> QED
    BY <2>1, <2>2 DEF ChunksOnce
<1>3. CASE NeedsNoDocuments
  BY <1>3 DEF NeedsNoDocuments, ChunksOnce, QueriesOK
<1>4. CASE Answer
  <2>1. queries' = <<Query(Question)>> /\ stage' = "search" /\ UNCHANGED <<context, sources>> /\ stage = "plan"
    BY <1>4 DEF Answer
  <2>2. Query(Question) \in QueryType
    BY RetrievalAssumption DEF Query, QueryType
  <2>3. PICK q : q = <<Query(Question)>>
    OBVIOUS
  <2>4. q \in Seq(QueryType) /\ Len(q) = 1 /\ q[1] = Query(Question)
    BY <2>2, <2>3
  <2>5. QueriesOK(q)
    BY <2>4, RetrievalAssumption DEF QueriesOK, Contains
  <2>6. QueriesOK(queries)'
    BY <2>1, <2>3, <2>5 DEF QueriesOK
  <2> QED
    BY <2>1, <2>3, <2>4, <2>6 DEF ChunksOnce
<1>5. CASE SearchProjectDocuments
  <2>1. context' \in Seq(Result) /\ ChunksOnce(context')
    BY <1>5, Searched
  <2>2. UNCHANGED <<stage, queries, sources>> /\ stage = "search"
    BY <1>5 DEF SearchProjectDocuments
  <2> QED
    BY <2>1, <2>2 DEF ChunksOnce, QueriesOK
<1>6. CASE AddExcerpts
  <2>1. context' \in Seq(Result) /\ ChunksOnce(context')
    BY <1>6, Excerpted
  <2>2. UNCHANGED <<queries, sources>> /\ sources = <<>> /\ stage = "search"
    BY <1>6 DEF AddExcerpts
  <2>3. stage' = "cite" \/ (stage' = "done" /\ context' = <<>>)
    BY <1>6 DEF AddExcerpts
  <2>4. stage' = "done" => SourcesOK(sources)'
    BY <2>2, <2>3 DEF SourcesOK
  <2> QED
    BY <2>1, <2>2, <2>3, <2>4 DEF ChunksOnce, QueriesOK
<1>7. CASE BuildSources
  <2>1. SourcesOK(sources')
    BY <1>7, Built
  <2>2. stage' = "done" /\ UNCHANGED <<queries, context>> /\ stage = "cite"
    BY <1>7 DEF BuildSources
  <2>3. SourcesOK(sources)'
    BY <2>1, <2>2 DEF SourcesOK
  <2> QED
    BY <2>2, <2>3 DEF ChunksOnce, QueriesOK
<1>8. CASE UNCHANGED retrievalVars
  BY <1>8 DEF retrievalVars, ChunksOnce, QueriesOK, SourcesOK
<1> QED
  BY <1>1, <1>2, <1>3, <1>4, <1>5, <1>6, <1>7, <1>8 DEF RetrievalNext

(* For any project, planner and vector search: the question itself is       *)
(* searched for, no chunk is given to the model twice, and the sources      *)
(* cited are documents of that context, none of them farther from the       *)
(* question than one left out (AnswerGrounded).                             *)
THEOREM AnswersAreGrounded == RetrievalSpec => []AnswerGrounded
  BY Grounded, RetrievalStart, RetrievalStep, PTL DEF RetrievalSpec

-----------------------------------------------------------------------------
(***************************************************************************)
(* CycleDetection.  detect_cycles is right on every graph, finite or not,  *)
(* and for every order of its nodes.  A node is finished when its call has *)
(* returned.  The finished nodes are closed under dependencies and hold no *)
(* cycle; the nodes of the path depend on one another in turn, so that     *)
(* meeting one of them again closes a cycle.                               *)
(***************************************************************************)

SearchTypes ==
    /\ graph \in [Nodes -> SUBSET Nodes]
    /\ roots \subseteq Nodes /\ visited \subseteq Nodes
    /\ path \in Seq(Nodes)
    /\ left \in [Nodes -> SUBSET Nodes]
    /\ verdict \in {"searching", "cycle", "acyclic"}

Finished == visited \ Stack

PathInv ==
    /\ Stack \subseteq visited
    /\ \A i, j \in 1..Len(path) : path[i] = path[j] => i = j
    /\ \A i \in 1..(Len(path) - 1) : path[i + 1] \in graph[path[i]]

(* what a call has descended into is finished, but for the call it is in *)
LeftInv ==
    \A i \in 1..Len(path) :
        /\ left[path[i]] \subseteq graph[path[i]]
        /\ graph[path[i]] \ left[path[i]] \subseteq
               Finished \cup (IF i < Len(path) THEN {path[i + 1]} ELSE {})

FinishedInv ==
    /\ \A n \in Finished : graph[n] \subseteq Finished
    /\ ~HasCycle(graph, Finished)

RootInv == Nodes \ roots \subseteq visited

SearchInv == PathInv /\ LeftInv /\ FinishedInv /\ RootInv

SearchIInv ==
    /\ SearchTypes
    /\ verdict = "searching" => SearchInv
    /\ VerdictRight

-----------------------------------------------------------------------------
LEMMA Pushed ==
  ASSUME NEW p \in Seq(Nodes), NEW n \in Nodes
  PROVE  /\ Append(p, n) \in Seq(Nodes)
         /\ Len(Append(p, n)) = Len(p) + 1
         /\ \A i \in 1..Len(p) : Append(p, n)[i] = p[i]
         /\ Append(p, n)[Len(p) + 1] = n
  OBVIOUS

LEMMA Popped ==
  ASSUME NEW p \in Seq(Nodes), p # <<>>, NEW q, q = SubSeq(p, 1, Len(p) - 1)
  PROVE  /\ q \in Seq(Nodes)
         /\ Len(q) = Len(p) - 1
         /\ \A i \in 1..Len(q) : q[i] = p[i]
<1>1. PICK n \in Nat : n = Len(p)
  OBVIOUS
<1>2. n > 0
  BY <1>1
<1>3. \A i \in 1..(n - 1) : p[i] \in Nodes
  BY <1>1
<1>4. /\ SubSeq(p, 1, n - 1) \in Seq(Nodes)
      /\ Len(SubSeq(p, 1, n - 1)) = IF 1 <= n - 1 THEN (n - 1) - 1 + 1 ELSE 0
      /\ \A i \in 1..((n - 1) - 1 + 1) : SubSeq(p, 1, n - 1)[i] = p[1 + i - 1]
  <2>1. 1 \in Int /\ n - 1 \in Int
    OBVIOUS
  <2> QED
    BY <1>3, <2>1, SubSeqProperties
<1>5. q = SubSeq(p, 1, n - 1)
  BY <1>1
<1>6. Len(q) = n - 1
  BY <1>2, <1>4, <1>5
<1>7. \A i \in 1..Len(q) : q[i] = p[i]
  <2>1. \A i \in 1..(n - 1) : i \in 1..((n - 1) - 1 + 1) /\ 1 + i - 1 = i
    BY <1>2
  <2> QED
    BY <2>1, <1>4, <1>5, <1>6
<1> QED
  BY <1>1, <1>4, <1>5, <1>6, <1>7

(* A node whose dependencies are all in a closed set without a cycle adds   *)
(* no cycle to it.                                                          *)
LEMMA NoNewCycle ==
  ASSUME NEW g, NEW F, NEW t, \A n \in F : g[n] \subseteq F, ~HasCycle(g, F),
         g[t] \subseteq F
  PROVE  ~HasCycle(g, F \cup {t})
<1> SUFFICES ASSUME NEW S \in SUBSET (F \cup {t}), Cycle(g, S) PROVE FALSE
  BY DEF HasCycle
<1>1. CASE t \in F
  BY <1>1 DEF HasCycle
<1>2. CASE t \notin F
  <2> DEFINE R == S \ {t}
  <2>1. R \in SUBSET F
    OBVIOUS
  <2>2. \A s \in R : g[s] \cap R # {}
    BY <1>2, <2>1 DEF Cycle
  <2>3. R # {}
    <3>1. CASE t \in S
      BY <1>2, <3>1 DEF Cycle
    <3>2. CASE t \notin S
      BY <3>2 DEF Cycle
    <3> QED
      BY <3>1, <3>2
  <2> QED
    BY <2>1, <2>2, <2>3 DEF HasCycle, Cycle
<1> QED
  BY <1>1, <1>2

(* A node of the path that the last one depends on closes a cycle. *)
LEMMA PathCloses ==
  ASSUME SearchTypes, PathInv, path # <<>>, NEW d \in Stack, d \in graph[Top]
  PROVE  HasCycle(graph, Nodes)
<1>1. PICK k \in 1..Len(path) : d = path[k]
  BY DEF Stack
<1> DEFINE S == {path[i] : i \in k..Len(path)}
<1>2. S \in SUBSET Nodes /\ d \in S
  BY <1>1 DEF SearchTypes
<1>3. ASSUME NEW s \in S PROVE graph[s] \cap S # {}
  <2>1. PICK i \in k..Len(path) : s = path[i]
    OBVIOUS
  <2>2. CASE i = Len(path)
    BY <1>2, <2>1, <2>2 DEF Top
  <2>3. CASE i < Len(path)
    <3>1. path[i + 1] \in graph[s] /\ path[i + 1] \in S
      BY <2>1, <2>3 DEF PathInv, SearchTypes
    <3> QED
      BY <3>1
  <2> QED
    BY <2>2, <2>3, <2>1 DEF SearchTypes
<1> QED
  BY <1>2, <1>3 DEF HasCycle, Cycle

-----------------------------------------------------------------------------
(* Entering a node that was never visited. *)
LEMMA PushStep ==
  ASSUME SearchTypes, SearchInv, NEW n \in Nodes, n \notin visited,
         graph' = graph, visited' = visited \cup {n}, path' = Append(path, n),
         roots \ {n} \subseteq roots', roots' \subseteq roots,
         path # <<>> => /\ n \in left[Top]
                        /\ left' = [left EXCEPT ![Top] = left[Top] \ {n}, ![n] = graph[n]],
         path = <<>> => left' = [left EXCEPT ![n] = graph[n]]
  PROVE  SearchInv'
<1> USE DEF SearchInv
<1>1. /\ path' \in Seq(Nodes) /\ Len(path') = Len(path) + 1
      /\ \A i \in 1..Len(path) : path'[i] = path[i]
      /\ path'[Len(path) + 1] = n
  BY Pushed DEF SearchTypes
<1>2. /\ Len(path) \in Nat /\ (Len(path) > 0 => path # <<>>)
      /\ \A i \in 1..Len(path) : path[i] \in Nodes /\ path[i] \in visited /\ path[i] # n
  BY DEF SearchTypes, PathInv, Stack
<1>3. Stack' = Stack \cup {n}
  BY <1>1, <1>2 DEF Stack
<1>4. Finished' = Finished
  BY <1>3, <1>2 DEF Finished, Stack
<1>5. path # <<>> => Len(path) > 0 /\ Top = path[Len(path)]
  BY DEF Top, SearchTypes
<1>6. PathInv'
  <2>1. \A i \in 1..(Len(path') - 1) : path'[i + 1] \in graph'[path'[i]]
    <3> SUFFICES ASSUME NEW i \in 1..Len(path) PROVE path'[i + 1] \in graph[path[i]]
      BY <1>1, <1>2
    <3>1. CASE i = Len(path)
      BY <3>1, <1>1, <1>2, <1>5 DEF LeftInv
    <3>2. CASE i < Len(path)
      BY <3>2, <1>1, <1>2 DEF PathInv
    <3> QED
      BY <3>1, <3>2, <1>2
  <2>2. \A i, j \in 1..Len(path') : path'[i] = path'[j] => i = j
    BY <1>1, <1>2 DEF PathInv
  <2>3. Stack' \subseteq visited'
    BY <1>3 DEF PathInv
  <2> QED
    BY <2>1, <2>2, <2>3 DEF PathInv
<1>7. LeftInv'
  <2> SUFFICES ASSUME NEW i \in 1..Len(path')
               PROVE  /\ left'[path'[i]] \subseteq graph'[path'[i]]
                      /\ graph'[path'[i]] \ left'[path'[i]] \subseteq
                            Finished' \cup (IF i < Len(path') THEN {path'[i + 1]} ELSE {})
    BY DEF LeftInv
  <2> USE <1>1, <1>4
  <2>1. CASE i = Len(path) + 1
    <3>1. left'[n] = graph[n]
      BY DEF SearchTypes
    <3> QED
      BY <2>1, <3>1, <1>1
  <2>2. CASE i = Len(path) /\ path # <<>>
    <3>1. path'[i] = Top /\ path'[i + 1] = n /\ Top \in Nodes /\ Top # n
      BY <2>2, <1>1, <1>2, <1>5
    <3>2. left'[Top] = left[Top] \ {n}
      BY <2>2, <3>1 DEF SearchTypes
    <3>3. left[Top] \subseteq graph[Top] /\ graph[Top] \ left[Top] \subseteq Finished
      BY <2>2, <1>2, <1>5 DEF LeftInv
    <3> QED
      BY <3>1, <3>2, <3>3, <2>2, <1>2
  <2>3. CASE i < Len(path)
    <3>1. path'[i] = path[i] /\ path'[i + 1] = path[i + 1] /\ path[i] # n /\ path[i] \in Nodes
      BY <2>3, <1>1, <1>2
    <3>2. path # <<>> /\ path[i] # Top
      BY <2>3, <1>2, <1>5 DEF PathInv
    <3>3. left'[path[i]] = left[path[i]]
      BY <3>1, <3>2 DEF SearchTypes
    <3> QED
      BY <3>1, <3>3, <2>3, <1>2, SMTT(30) DEF LeftInv
  <2>4. i = Len(path) + 1 \/ (i = Len(path) /\ path # <<>>) \/ i < Len(path)
    BY <1>2
  <2> QED
    BY <2>1, <2>2, <2>3, <2>4
<1>8. FinishedInv'
  BY <1>4 DEF FinishedInv
<1>9. RootInv'
  BY DEF RootInv
<1> QED
  BY <1>6, <1>7, <1>8, <1>9

(* Descending into a finished node. *)
LEMMA SkipStep ==
  ASSUME SearchTypes, SearchInv, path # <<>>, NEW d \in left[Top], d \in Finished,
         UNCHANGED <<graph, roots, visited, path>>,
         left' = [left EXCEPT ![Top] = left[Top] \ {d}]
  PROVE  SearchInv'
<1> USE DEF SearchInv
<1>1. Len(path) \in Nat \ {0} /\ Top = path[Len(path)] /\ \A i \in 1..Len(path) : path[i] \in Nodes
  BY DEF SearchTypes, Top
<1>2. PathInv' /\ FinishedInv' /\ RootInv' /\ Finished' = Finished
  BY DEF PathInv, FinishedInv, RootInv, Finished, Stack
<1>3. LeftInv'
  <2> SUFFICES ASSUME NEW i \in 1..Len(path)
               PROVE  /\ left'[path[i]] \subseteq graph[path[i]]
                      /\ graph[path[i]] \ left'[path[i]] \subseteq
                            Finished \cup (IF i < Len(path) THEN {path[i + 1]} ELSE {})
    BY <1>2 DEF LeftInv
  <2>1. CASE i = Len(path)
    <3>1. left'[Top] = left[Top] \ {d}
      BY <1>1 DEF SearchTypes
    <3>2. left[Top] \subseteq graph[Top] /\ graph[Top] \ left[Top] \subseteq Finished
      BY <2>1, <1>1 DEF LeftInv
    <3> QED
      BY <2>1, <3>1, <3>2, <1>1
  <2>2. CASE i < Len(path)
    <3>1. path[i] # Top
      BY <2>2, <1>1 DEF PathInv
    <3>2. left'[path[i]] = left[path[i]]
      BY <3>1, <1>1 DEF SearchTypes
    <3> QED
      BY <3>2, <2>2 DEF LeftInv
  <2> QED
    BY <2>1, <2>2, <1>1
<1> QED
  BY <1>2, <1>3

(* Returning from a node: it is finished now. *)
LEMMA ReturnStep ==
  ASSUME SearchTypes, SearchInv, Return
  PROVE  SearchInv'
<1> USE DEF SearchInv
<1>1. /\ path # <<>> /\ left[Top] = {} /\ path' = SubSeq(path, 1, Len(path) - 1)
      /\ UNCHANGED <<graph, roots, visited, left>>
  BY DEF Return
<1>2. Len(path) \in Nat \ {0} /\ Top = path[Len(path)] /\ \A i \in 1..Len(path) : path[i] \in Nodes
  BY <1>1 DEF SearchTypes, Top
<1>3. /\ path' \in Seq(Nodes) /\ Len(path') = Len(path) - 1
      /\ \A i \in 1..(Len(path) - 1) : path'[i] = path[i]
  BY <1>1, Popped DEF SearchTypes
<1>4. Stack' = Stack \ {Top}
  BY <1>2, <1>3 DEF Stack, PathInv
<1>5. Top \in Stack
  BY <1>2 DEF Stack
<1>6. Finished' = Finished \cup {Top}
  BY <1>1, <1>4, <1>5 DEF Finished, PathInv
<1>7. graph[Top] \subseteq Finished
  BY <1>1, <1>2 DEF LeftInv
<1>8. PathInv'
  BY <1>1, <1>2, <1>3, <1>4 DEF PathInv
<1>9. LeftInv'
  <2> SUFFICES ASSUME NEW i \in 1..Len(path')
               PROVE  /\ left'[path'[i]] \subseteq graph'[path'[i]]
                      /\ graph'[path'[i]] \ left'[path'[i]] \subseteq
                            Finished' \cup (IF i < Len(path') THEN {path'[i + 1]} ELSE {})
    BY DEF LeftInv
  <2> USE <1>1, <1>3, <1>6
  <2>1. /\ left[path[i]] \subseteq graph[path[i]]
        /\ graph[path[i]] \ left[path[i]] \subseteq Finished \cup {path[i + 1]}
    BY <1>2 DEF LeftInv
  <2>2. CASE i = Len(path) - 1
    BY <2>1, <2>2, <1>2
  <2>3. CASE i < Len(path) - 1
    BY <2>1, <2>3, <1>2, <1>3
  <2>4. i = Len(path) - 1 \/ i < Len(path) - 1
    BY <1>2
  <2> QED
    BY <2>2, <2>3, <2>4
<1>10. FinishedInv'
  BY <1>1, <1>6, <1>7, NoNewCycle DEF FinishedInv
<1>11. RootInv'
  BY <1>1 DEF RootInv
<1> QED
  BY <1>8, <1>9, <1>10, <1>11

-----------------------------------------------------------------------------
LEMMA SearchUnmoved ==
  ASSUME UNCHANGED <<graph, visited, path, left>>
  PROVE  (PathInv => PathInv') /\ (LeftInv => LeftInv') /\ (FinishedInv => FinishedInv')
<1>1. Finished' = Finished /\ Stack' = Stack
  BY DEF Finished, Stack
<1>2. PathInv => PathInv'
  BY <1>1 DEF PathInv
<1>3. LeftInv => LeftInv'
  BY <1>1 DEF LeftInv
<1>4. FinishedInv => FinishedInv'
  BY <1>1 DEF FinishedInv
<1> QED
  BY <1>2, <1>3, <1>4

LEMMA CallTypes ==
  ASSUME SearchTypes, NEW n \in Nodes, NEW rest \in [Nodes -> SUBSET Nodes], Dfs(n, rest),
         graph' = graph, roots' \subseteq roots
  PROVE  SearchTypes'
<1> USE DEF SearchTypes, Dfs
<1>1. CASE n \in visited \/ OnStack(n)
  BY <1>1
<1>2. CASE n \notin visited /\ ~OnStack(n)
  <2>1. path' = Append(path, n) /\ left' = [rest EXCEPT ![n] = graph[n]]
    BY <1>2
  <2>2. path' \in Seq(Nodes) /\ left' \in [Nodes -> SUBSET Nodes]
    BY <2>1, Pushed
  <2> QED
    BY <1>2, <2>2
<1> QED
  BY <1>1, <1>2

LEMMA SearchTypesStep == SearchTypes /\ [SearchNext]_searchVars => SearchTypes'
<1> SUFFICES ASSUME SearchTypes, [SearchNext]_searchVars PROVE SearchTypes'
  OBVIOUS
<1> USE DEF SearchTypes
<1>1. ASSUME NEW n \in Nodes, Root(n) PROVE SearchTypes'
  <2>1. Dfs(n, left) /\ graph' = graph /\ roots' \subseteq roots
    BY <1>1 DEF Root
  <2> QED
    BY <2>1, CallTypes
<1>2. ASSUME NEW d \in Nodes, Descend(d) PROVE SearchTypes'
  <2>1. Top \in Nodes
    BY <1>2 DEF Descend, Top
  <2>2. [left EXCEPT ![Top] = Rest(Top, d)] \in [Nodes -> SUBSET Nodes]
    BY <2>1 DEF Rest
  <2>3. Dfs(d, [left EXCEPT ![Top] = Rest(Top, d)]) /\ graph' = graph /\ roots' \subseteq roots
    BY <1>2 DEF Descend
  <2> QED
    BY <2>2, <2>3, CallTypes
<1>3. CASE Return
  BY <1>3, Popped DEF Return
<1>4. CASE LoopEnds
  BY <1>4 DEF LoopEnds
<1>5. CASE UNCHANGED searchVars
  BY <1>5 DEF searchVars
<1> QED
  BY <1>1, <1>2, <1>3, <1>4, <1>5 DEF SearchNext

LEMMA SearchStep == SearchIInv /\ [SearchNext]_searchVars => SearchIInv'
<1> SUFFICES ASSUME SearchIInv, [SearchNext]_searchVars
             PROVE  (verdict = "searching" => SearchInv)' /\ VerdictRight'
  BY SearchTypesStep DEF SearchIInv
<1> USE DEF SearchIInv
<1>1. ASSUME NEW n \in Nodes, Root(n)
      PROVE  (verdict = "searching" => SearchInv)' /\ VerdictRight'
  <2>1. Stack = {} /\ verdict = "searching"
    BY <1>1 DEF Root, Stack
  <2>2. ~OnStack(n) /\ verdict' = verdict
    BY <1>1, <2>1 DEF Root, Dfs, OnStack
  <2>3. SearchInv'
    <3>1. CASE n \in visited
      <4>1. UNCHANGED <<graph, visited, path, left>> /\ roots' = roots \ {n}
        BY <1>1, <2>2, <3>1 DEF Root, Dfs
      <4>2. RootInv'
        BY <2>1, <3>1, <4>1 DEF SearchInv, RootInv
      <4>3. (PathInv /\ LeftInv /\ FinishedInv)'
        BY <2>1, <4>1, SearchUnmoved DEF SearchInv
      <4> QED
        BY <4>2, <4>3 DEF SearchInv
    <3>2. CASE n \notin visited
      BY <1>1, <2>1, <2>2, <3>2, PushStep DEF Root, Dfs
    <3> QED
      BY <3>1, <3>2
  <2> QED
    BY <2>1, <2>2, <2>3 DEF VerdictRight
<1>2. ASSUME NEW d \in Nodes, Descend(d)
      PROVE  (verdict = "searching" => SearchInv)' /\ VerdictRight'
  <2>1. SearchInv /\ verdict = "searching" /\ path # <<>> /\ d \in left[Top] /\ UNCHANGED <<graph, roots>>
    BY <1>2 DEF Descend
  <2>2. CASE OnStack(d)
    <3>1. d \in graph[Top]
      BY <2>1 DEF SearchInv, LeftInv, SearchTypes, Top
    <3>2. HasCycle(graph, Nodes)
      BY <2>1, <2>2, <3>1, PathCloses DEF SearchInv, OnStack
    <3> QED
      BY <1>2, <2>1, <2>2, <3>2 DEF Descend, Dfs, VerdictRight
  <2>3. CASE ~OnStack(d) /\ d \in visited
    <3>1. SearchInv'
      BY <1>2, <2>1, <2>3, SkipStep DEF Descend, Dfs, Rest, OnStack, Finished
    <3> QED
      BY <1>2, <2>1, <2>3, <3>1 DEF Descend, Dfs, VerdictRight
  <2>4. CASE ~OnStack(d) /\ d \notin visited
    <3>1. SearchInv'
      BY <1>2, <2>1, <2>4, PushStep DEF Descend, Dfs, Rest
    <3> QED
      BY <1>2, <2>1, <2>4, <3>1 DEF Descend, Dfs, VerdictRight
  <2> QED
    BY <2>2, <2>3, <2>4
<1>3. CASE Return
  BY <1>3, ReturnStep DEF Return, VerdictRight
<1>4. CASE LoopEnds
  <2>1. Finished = Nodes
    BY <1>4 DEF LoopEnds, Finished, Stack, SearchInv, RootInv, SearchTypes
  <2> QED
    BY <1>4, <2>1 DEF LoopEnds, SearchInv, FinishedInv, VerdictRight
<1>5. CASE UNCHANGED searchVars
  <2>1. UNCHANGED <<graph, roots, visited, path, left, verdict>>
    BY <1>5 DEF searchVars
  <2>2. SearchInv => SearchInv'
    BY <2>1, SearchUnmoved DEF SearchInv, RootInv
  <2>3. VerdictRight'
    BY <2>1 DEF VerdictRight
  <2> QED
    BY <2>1, <2>2, <2>3
<1> QED
  BY <1>1, <1>2, <1>3, <1>4, <1>5 DEF SearchNext

(* detect_cycles raises only on a graph with a cycle, and lets pass only    *)
(* graphs without one, for every set of steps.                              *)
THEOREM DetectsCycles == SearchSpec => []VerdictRight
<1>1. SearchInit => SearchIInv
  BY DEF SearchInit, SearchIInv, SearchTypes, SearchInv, PathInv, LeftInv, FinishedInv, RootInv, Finished, Stack,
         HasCycle, Cycle, VerdictRight
<1>2. SearchIInv => VerdictRight
  BY DEF SearchIInv
<1> QED
  BY <1>1, <1>2, SearchStep, PTL DEF SearchSpec

(* What the search has still to do: roots to reach, dependencies to descend *)
(* into, and nodes to return from.                                          *)
Undescended == {e \in Nodes \X Nodes : e[2] \in graph[e[1]] /\ (e[1] \in visited => e[2] \in left[e[1]])}

Unfinished == Nodes \ Finished

SearchShrinks ==
    /\ roots' \subseteq roots /\ Undescended' \subseteq Undescended /\ Unfinished' \subseteq Unfinished
    /\ roots' # roots \/ Undescended' # Undescended \/ Unfinished' # Unfinished

LEMMA PushFinished ==
  ASSUME SearchTypes, SearchInv, NEW n \in Nodes, n \notin visited,
         visited' = visited \cup {n}, path' = Append(path, n)
  PROVE  Finished' = Finished
<1>1. /\ Len(path) \in Nat /\ Len(path') = Len(path) + 1
      /\ \A i \in 1..Len(path) : path'[i] = path[i]
      /\ path'[Len(path) + 1] = n
  BY Pushed DEF SearchTypes
<1>2. Stack' = Stack \cup {n}
  BY <1>1 DEF Stack
<1>3. n \notin Stack
  BY DEF SearchInv, PathInv
<1> QED
  BY <1>2, <1>3 DEF Finished

LEMMA RootShrinks ==
  ASSUME SearchTypes, SearchInv, NEW n \in Nodes, Root(n)
  PROVE  SearchShrinks
<1>1. /\ Stack = {} /\ roots' = roots \ {n} /\ n \in roots /\ graph' = graph
      /\ ~OnStack(n) /\ Dfs(n, left)
  BY DEF Root, Stack, OnStack
<1>2. CASE n \in visited
  <2>1. UNCHANGED <<visited, path, left>>
    BY <1>1, <1>2 DEF Dfs
  <2> QED
    BY <1>1, <2>1 DEF SearchShrinks, Undescended, Unfinished, Finished, Stack
<1>3. CASE n \notin visited
  <2>1. visited' = visited \cup {n} /\ path' = Append(path, n) /\ left' = [left EXCEPT ![n] = graph[n]]
    BY <1>1, <1>3 DEF Dfs
  <2>2. Finished' = Finished
    BY <1>3, <2>1, PushFinished
  <2>3. \A m \in Nodes : left'[m] = IF m = n THEN graph[n] ELSE left[m]
    BY <2>1 DEF SearchTypes
  <2>4. Undescended' \subseteq Undescended
    BY <1>1, <1>3, <2>1, <2>3 DEF Undescended
  <2> QED
    BY <1>1, <2>2, <2>4 DEF SearchShrinks, Unfinished
<1> QED
  BY <1>2, <1>3

LEMMA DescendShrinks ==
  ASSUME SearchTypes, SearchInv, NEW d \in Nodes, Descend(d), verdict' = "searching"
  PROVE  SearchShrinks
<1>1. /\ path # <<>> /\ d \in left[Top] /\ graph' = graph /\ roots' = roots
      /\ Dfs(d, [left EXCEPT ![Top] = Rest(Top, d)])
  BY DEF Descend
<1>2. Top \in Nodes /\ Top \in visited /\ left[Top] \subseteq graph[Top]
  BY <1>1 DEF SearchTypes, SearchInv, PathInv, LeftInv, Stack, Top
<1>3. ~OnStack(d)
  BY <1>1 DEF Dfs
<1>4. <<Top, d>> \in Undescended
  BY <1>1, <1>2 DEF Undescended
<1>5. PICK rest \in [Nodes -> SUBSET Nodes] : /\ rest = [left EXCEPT ![Top] = left[Top] \ {d}]
                                               /\ Dfs(d, rest)
  BY <1>1, <1>2 DEF SearchTypes, Rest
<1>6. \A m \in Nodes : rest[m] = IF m = Top THEN left[Top] \ {d} ELSE left[m]
  BY <1>5 DEF SearchTypes
<1>7. CASE d \in visited
  <2>1. UNCHANGED <<visited, path>> /\ left' = rest
    BY <1>3, <1>5, <1>7 DEF Dfs
  <2>2. Undescended' \subseteq Undescended /\ <<Top, d>> \notin Undescended'
    BY <1>1, <1>2, <1>6, <2>1 DEF Undescended
  <2> QED
    BY <1>1, <1>4, <2>1, <2>2 DEF SearchShrinks, Unfinished, Finished, Stack
<1>8. CASE d \notin visited
  <2>1. visited' = visited \cup {d} /\ path' = Append(path, d) /\ left' = [rest EXCEPT ![d] = graph[d]]
    BY <1>3, <1>5, <1>8 DEF Dfs
  <2>2. Finished' = Finished
    BY <1>8, <2>1, PushFinished
  <2>3. \A m \in Nodes : left'[m] = IF m = d THEN graph[d] ELSE rest[m]
    BY <2>1
  <2>4. Top # d
    BY <1>2, <1>8
  <2>5. Undescended' \subseteq Undescended /\ <<Top, d>> \notin Undescended'
    BY <1>1, <1>2, <1>6, <1>8, <2>1, <2>3, <2>4 DEF Undescended
  <2> QED
    BY <1>1, <1>4, <2>2, <2>5 DEF SearchShrinks, Unfinished
<1> QED
  BY <1>7, <1>8

LEMMA ReturnShrinks ==
  ASSUME SearchTypes, SearchInv, Return
  PROVE  SearchShrinks
<1>1. path # <<>> /\ path' = SubSeq(path, 1, Len(path) - 1) /\ UNCHANGED <<graph, roots, visited, left>>
  BY DEF Return
<1>2. Len(path) \in Nat \ {0} /\ Top = path[Len(path)] /\ \A i \in 1..Len(path) : path[i] \in Nodes
  BY <1>1 DEF SearchTypes, Top
<1>3. /\ Len(path') = Len(path) - 1
      /\ \A i \in 1..(Len(path) - 1) : path'[i] = path[i]
  BY <1>1, Popped DEF SearchTypes
<1>4. Stack' = Stack \ {Top} /\ Top \in Stack /\ Top \in Nodes
  BY <1>2, <1>3 DEF Stack, SearchInv, PathInv
<1>5. Finished' = Finished \cup {Top} /\ Top \notin Finished
  BY <1>1, <1>4 DEF Finished, SearchInv, PathInv
<1> QED
  BY <1>1, <1>4, <1>5 DEF SearchShrinks, Undescended, Unfinished

(* The search cannot go on for ever: each of its steps gives the verdict,   *)
(* or takes a root, a dependency or a node out of what it has still to do   *)
(* and puts nothing in.  With the fairness of SearchSpec this is why        *)
(* detect_cycles ends on every finite graph.                                *)
THEOREM SearchAdvances ==
  SearchSpec => [][verdict' # "searching" \/ SearchShrinks]_searchVars
<1>1. SearchInit => SearchIInv
  BY DEF SearchInit, SearchIInv, SearchTypes, SearchInv, PathInv, LeftInv, FinishedInv, RootInv, Finished, Stack,
         HasCycle, Cycle, VerdictRight
<1>2. SearchIInv /\ [SearchNext]_searchVars => [verdict' # "searching" \/ SearchShrinks]_searchVars
  <2> SUFFICES ASSUME SearchIInv, SearchNext, verdict' = "searching" PROVE SearchShrinks
    OBVIOUS
  <2>1. verdict = "searching" /\ ~LoopEnds
    BY DEF SearchNext, Root, Descend, Return, LoopEnds
  <2>2. SearchTypes /\ SearchInv
    BY <2>1 DEF SearchIInv
  <2> QED
    BY <2>1, <2>2, RootShrinks, DescendShrinks, ReturnShrinks DEF SearchNext
<1> QED
  BY <1>1, <1>2, SearchStep, PTL DEF SearchSpec

-----------------------------------------------------------------------------
(***************************************************************************)
(* Chunker.  The chunks cover the text, for any text, size and overlap.    *)
(* ChunksCover says nothing of where a window starts relative to the chunks *)
(* before it.  The invariant adds that, while the loop runs, every chunk   *)
(* starts before the window: a turn moves it by at least one, because the  *)
(* overlap is smaller than the size, and by no more than the window's end, *)
(* because it is not negative.                                             *)
(***************************************************************************)

Covered(n) == \A i \in Written(0, n) : \E c \in DOMAIN chunks : chunks[c].first <= i /\ i < chunks[c].last

ChunksOrdered == \A c \in DOMAIN chunks : \A d \in 1 .. c - 1 : chunks[d].first < chunks[c].first

TextOK ==
    /\ length \in Nat /\ size \in Int /\ overlap \in Int
    /\ blank \subseteq 1 .. length - 2
    /\ state \in {"cutting", "returned", "refused"}

ChunkRecord == [index : Nat, first : Nat, last : Nat]

WindowOK ==
    /\ start \in Nat
    /\ chunks \in Seq(ChunkRecord)
    /\ state = "cutting" => \A c \in DOMAIN chunks : chunks[c].first < start

ChunkInv ==
    /\ TextOK /\ WindowOK /\ ChunksOrdered
    /\ Covered(start)
    /\ state = "returned" => Covered(length)

LEMMA AppendFacts ==
  ASSUME NEW S, NEW s \in Seq(S), NEW e \in S
  PROVE  /\ Append(s, e) \in Seq(S)
         /\ DOMAIN Append(s, e) = 1 .. Len(s) + 1
         /\ \A c \in 1 .. Len(s) : Append(s, e)[c] = s[c]
         /\ Append(s, e)[Len(s) + 1] = e
  OBVIOUS

(* A normalized text begins with a character that is written *)
LEMMA FirstIsWritten ==
  ASSUME TextOK, length # 0
  PROVE  0 \in Written(0, length)
  BY DEF TextOK, Written

LEMMA InvImpliesCover ==
  ASSUME ChunkInv
  PROVE  ChunksCover
<1>1. state = "returned" => chunks # <<>> \/ length = 0
  <2>1. chunks = <<>> => DOMAIN chunks = {}
    OBVIOUS
  <2> QED
    BY <2>1, FirstIsWritten DEF ChunkInv, Covered
<1> QED
  BY <1>1 DEF ChunksCover, ChunkInv, Covered, ChunksOrdered

LEMMA ChunkInitInv == ChunkInit => ChunkInv
<1> SUFFICES ASSUME ChunkInit PROVE ChunkInv
  OBVIOUS
<1>1. TextOK
  BY ChunkerAssumption DEF ChunkInit, Texts, TextOK
<1>2. DOMAIN chunks = {} /\ chunks \in Seq(ChunkRecord) /\ start = 0
  BY DEF ChunkInit
<1>3. Covered(start) /\ state = "cutting"
  BY <1>2 DEF ChunkInit, Covered, Written
<1> QED
  BY <1>1, <1>2, <1>3 DEF ChunkInv, WindowOK, ChunksOrdered

(* The window of a turn: not empty, and the next one starts inside it *)
LEMMA WindowMoves ==
  ASSUME ChunkInv, Cut
  PROVE  /\ End \in Nat /\ start < End /\ End <= length
         /\ End < length => Following(End) \in Nat /\ start < Following(End) /\ Following(End) <= End
  BY DEF ChunkInv, TextOK, WindowOK, Cut, End, Following

LEMMA CutStep ==
  ASSUME ChunkInv, Cut
  PROVE  ChunkInv'
<1>1. start \in Nat /\ End \in Nat /\ start < End /\ chunks \in Seq(ChunkRecord)
  BY WindowMoves DEF ChunkInv, WindowOK
<1>2. UNCHANGED <<length, size, overlap, blank>> /\ TextOK'
  BY DEF Cut, ChunkInv, TextOK
<1>3. Len(chunks) \in Nat /\ DOMAIN chunks = 1 .. Len(chunks)
  BY <1>1
<1>4. \A c \in 1 .. Len(chunks) : chunks[c].first \in Nat /\ chunks[c].first < start
  <2>1. state = "cutting" /\ \A c \in 1 .. Len(chunks) : chunks[c] \in ChunkRecord
    BY <1>1, <1>3 DEF Cut
  <2> QED
    BY <1>3, <2>1 DEF ChunkInv, WindowOK, ChunkRecord
<1>5. /\ chunks' \in Seq(ChunkRecord)
      /\ \A c \in 1 .. Len(chunks) : c \in DOMAIN chunks' /\ chunks'[c] = chunks[c]
      /\ \A c \in DOMAIN chunks' :
            c \in 1 .. Len(chunks) \/ (c = Len(chunks) + 1 /\ chunks'[c].first = start)
      /\ Written(start, End) # {} =>
            /\ Len(chunks) + 1 \in DOMAIN chunks'
            /\ chunks'[Len(chunks) + 1].first = start /\ chunks'[Len(chunks) + 1].last = End
  <2>1. CASE Written(start, End) # {}
    <3>1. PICK new \in ChunkRecord : new = [index |-> Len(chunks), first |-> start, last |-> End]
      BY <1>1, <1>3 DEF ChunkRecord
    <3>2. chunks' = Append(chunks, new) /\ new.first = start /\ new.last = End
      BY <2>1, <3>1 DEF Cut
    <3> QED
      BY <1>1, <3>2, AppendFacts
  <2>2. CASE Written(start, End) = {}
    BY <1>1, <1>3, <2>2 DEF Cut
  <2> QED
    BY <2>1, <2>2
<1>6. ChunksOrdered'
  <2> SUFFICES ASSUME NEW c \in DOMAIN chunks', NEW d \in 1 .. c - 1
               PROVE  chunks'[d].first < chunks'[c].first
    BY DEF ChunksOrdered
  <2>1. CASE c \in 1 .. Len(chunks)
    <3>1. d \in 1 .. Len(chunks)
      BY <1>3, <2>1
    <3>2. chunks[d].first < chunks[c].first
      BY <1>3, <2>1 DEF ChunkInv, ChunksOrdered
    <3> QED
      BY <1>5, <2>1, <3>1, <3>2
  <2>2. CASE c = Len(chunks) + 1 /\ chunks'[c].first = start
    <3>1. d \in 1 .. Len(chunks)
      BY <1>3, <2>2
    <3> QED
      BY <1>4, <1>5, <2>2, <3>1
  <2> QED
    BY <1>5, <2>1, <2>2
<1>7. \A i \in 0 .. End - 1 : i \notin blank =>
         \E c \in DOMAIN chunks' : chunks'[c].first <= i /\ i < chunks'[c].last
  <2> SUFFICES ASSUME NEW i \in 0 .. End - 1, i \notin blank
               PROVE  \E c \in DOMAIN chunks' : chunks'[c].first <= i /\ i < chunks'[c].last
    OBVIOUS
  <2>1. CASE i < start
    <3>1. i \in Written(0, start)
      BY <1>1, <2>1 DEF Written
    <3>2. PICK c \in DOMAIN chunks : chunks[c].first <= i /\ i < chunks[c].last
      BY <3>1 DEF ChunkInv, Covered
    <3> QED
      BY <1>3, <1>5, <3>2
  <2>2. CASE i >= start
    <3>1. i \in Written(start, End)
      BY <1>1, <2>2 DEF Written
    <3> QED
      BY <1>1, <1>5, <2>2, <3>1
  <2> QED
    BY <1>1, <2>1, <2>2
<1>8. CASE End >= length
  <2>1. End = length /\ state' = "returned" /\ start' = start
    BY <1>8, WindowMoves DEF Cut, ChunkInv, TextOK
  <2>2. Covered(start)'
    BY <1>1, <1>2, <1>7, <2>1, WindowMoves DEF Covered, Written
  <2>3. Covered(length)'
    BY <1>1, <1>2, <1>7, <2>1 DEF Covered, Written
  <2> QED
    BY <1>1, <1>2, <1>5, <1>6, <2>1, <2>2, <2>3 DEF ChunkInv, WindowOK
<1>9. state = "cutting"
  BY DEF Cut
<1>10. CASE End < length
  <2>1. start' = Following(End) /\ state' = state
    BY <1>1, <1>10 DEF Cut, ChunkInv, TextOK
  <2>2. start' \in Nat /\ start < start' /\ start' <= End
    BY <1>10, <2>1, WindowMoves
  <2>3. Covered(start)'
    <3>1. PICK n \in Nat, e \in Nat : n = start' /\ e = End /\ n <= e
      BY <1>1, <2>2
    <3>2. \A i \in 0 .. n - 1 : i \in 0 .. e - 1
      <4>1. n <= e
        BY <3>1
      <4> QED
        BY <4>1
    <3>3. Written(0, start)' = {i \in 0 .. n - 1 : i \notin blank}
      BY <1>2, <3>1 DEF Written
    <3> QED
      BY <1>7, <3>1, <3>2, <3>3 DEF Covered
  <2>4. \A c \in DOMAIN chunks' : chunks'[c].first < start'
    BY <1>1, <1>4, <1>5, <2>2
  <2> QED
    BY <1>2, <1>5, <1>6, <1>9, <2>1, <2>2, <2>3, <2>4 DEF ChunkInv, WindowOK
<1> QED
  BY <1>1, <1>8, <1>10 DEF ChunkInv, TextOK

LEMMA ChunkNextInv == ChunkInv /\ [ChunkNext]_chunkVars => ChunkInv'
<1> SUFFICES ASSUME ChunkInv, [ChunkNext]_chunkVars PROVE ChunkInv'
  OBVIOUS
<1>1. CASE Refuse
  BY <1>1 DEF Refuse, ChunkInv, TextOK, WindowOK, ChunksOrdered, Covered, Written
<1>2. CASE Nothing
  <2>1. Covered(length)
    BY <1>2 DEF Nothing, ChunkInv, TextOK, WindowOK, Covered, Written
  <2> QED
    BY <1>2, <2>1 DEF Nothing, ChunkInv, TextOK, WindowOK, ChunksOrdered, Covered, Written
<1>3. CASE UNCHANGED chunkVars
  BY <1>3 DEF chunkVars, ChunkInv, TextOK, WindowOK, ChunksOrdered, Covered, Written
<1> QED
  BY <1>1, <1>2, <1>3, CutStep DEF ChunkNext

(* chunk() loses no character of any text, whatever the size and the        *)
(* overlap it accepts: every written position before the window is in a     *)
(* chunk, all of them when it returns, and each chunk starts after the one  *)
(* before it.                                                               *)
THEOREM CoversText == ChunkSpec => []ChunksCover
<1>1. ChunkInv => ChunksCover
  BY InvImpliesCover
<1> QED
  BY <1>1, ChunkInitInv, ChunkNextInv, PTL DEF ChunkSpec
(* The shape of the chunks *)
ShapeInv ==
    /\ \A c \in DOMAIN chunks :
        /\ chunks[c].index = c - 1
        /\ chunks[c].first < chunks[c].last /\ chunks[c].last <= length
        /\ chunks[c].last - chunks[c].first <= size
    /\ state = "cutting" => Len(chunks) <= start
    /\ Len(chunks) <= length

LEMMA ShapeCut ==
  ASSUME ChunkInv, ShapeInv, Cut
  PROVE  ShapeInv'
<1>1. /\ start \in Nat /\ End \in Nat /\ start < End /\ End <= length /\ End - start <= size
      /\ length \in Nat /\ size \in Int /\ chunks \in Seq(ChunkRecord)
  BY WindowMoves DEF ChunkInv, TextOK, WindowOK, Cut, End
<1>2. UNCHANGED <<length, size>> /\ start < length /\ Len(chunks) <= start
  BY DEF Cut, ShapeInv
<1>3. Len(chunks) \in Nat /\ DOMAIN chunks = 1 .. Len(chunks)
  BY <1>1
<1>4. PICK n \in Nat : n = Len(chunks)
  BY <1>3
<1>5. state' = "cutting" => start + 1 <= start' /\ start' \in Nat
  BY <1>1, WindowMoves DEF Cut, ChunkInv, TextOK
<1>6. CASE Written(start, End) # {}
  <2>1. PICK new \in ChunkRecord : new = [index |-> n, first |-> start, last |-> End]
    BY <1>1, <1>4 DEF ChunkRecord
  <2>2. chunks' = Append(chunks, new) /\ new.index = n /\ new.first = start /\ new.last = End
    BY <1>4, <1>6, <2>1 DEF Cut
  <2>3. /\ chunks' \in Seq(ChunkRecord) /\ DOMAIN chunks' = 1 .. n + 1 /\ Len(chunks') = n + 1
        /\ \A c \in 1 .. n : chunks'[c] = chunks[c]
        /\ chunks'[n + 1] = new
    BY <1>1, <1>4, <2>2, AppendFacts
  <2>4. ASSUME NEW c \in DOMAIN chunks'
        PROVE  /\ chunks'[c].index = c - 1
               /\ chunks'[c].first < chunks'[c].last /\ chunks'[c].last <= length
               /\ chunks'[c].last - chunks'[c].first <= size
    <3>1. CASE c \in 1 .. n
      BY <1>3, <1>4, <2>3, <3>1 DEF ShapeInv
    <3>2. CASE c = n + 1
      BY <1>1, <1>4, <2>2, <2>3, <3>2
    <3> QED
      BY <1>4, <2>3, <3>1, <3>2
  <2>5. n + 1 <= start + 1 /\ n + 1 <= length
    BY <1>1, <1>2, <1>4
  <2>6. state' = "cutting" => n + 1 <= start'
    BY <1>1, <1>4, <1>5, <2>5
  <2> QED
    BY <1>2, <2>3, <2>4, <2>5, <2>6 DEF ShapeInv
<1>7. CASE Written(start, End) = {}
  <2>1. chunks' = chunks
    BY <1>7 DEF Cut
  <2>2. state' = "cutting" => Len(chunks) <= start'
    BY <1>1, <1>2, <1>3, <1>5
  <2> QED
    BY <1>2, <2>1, <2>2 DEF ShapeInv
<1> QED
  BY <1>6, <1>7

LEMMA ShapeStep == ChunkInv /\ ShapeInv /\ [ChunkNext]_chunkVars => ShapeInv'
<1>1. ASSUME ShapeInv, Refuse \/ Nothing \/ UNCHANGED chunkVars PROVE ShapeInv'
  BY <1>1 DEF Refuse, Nothing, chunkVars, ShapeInv
<1> QED
  BY <1>1, ShapeCut DEF ChunkNext

(* Whatever the text, the size and the overlap, chunk() numbers its chunks  *)
(* from 0 without a gap, none is empty, longer than chunk_size or reaches   *)
(* beyond the text, and there are no more of them than characters.          *)
THEOREM ChunksFit ==
  ChunkSpec => [](/\ \A c \in DOMAIN chunks :
                        /\ chunks[c].index = c - 1
                        /\ chunks[c].first < chunks[c].last /\ chunks[c].last <= length
                        /\ chunks[c].last - chunks[c].first <= size
                  /\ Len(chunks) <= length)
<1>1. ChunkInit => ShapeInv
  BY ChunkerAssumption DEF ChunkInit, ShapeInv
<1>2. ShapeInv => /\ \A c \in DOMAIN chunks :
                        /\ chunks[c].index = c - 1
                        /\ chunks[c].first < chunks[c].last /\ chunks[c].last <= length
                        /\ chunks[c].last - chunks[c].first <= size
                  /\ Len(chunks) <= length
  BY DEF ShapeInv
<1> QED
  BY <1>1, <1>2, ChunkInitInv, ChunkNextInv, ShapeStep, PTL DEF ChunkSpec

(* The loop ends: every turn returns, refuses or moves the window forward   *)
(* and not beyond the text.                                                 *)
THEOREM WindowAdvances ==
  ChunkSpec => [][state' = "cutting" => start < start' /\ start' < length]_chunkVars
<1>1. ChunkInv /\ [ChunkNext]_chunkVars => [state' = "cutting" => start < start' /\ start' < length]_chunkVars
  <2> SUFFICES ASSUME ChunkInv, ChunkNext, state' = "cutting" PROVE start < start' /\ start' < length
    OBVIOUS
  <2>1. Cut
    BY DEF ChunkNext, Refuse, Nothing
  <2>2. ~(End >= length) /\ start' = Following(End)
    BY <2>1 DEF Cut
  <2>3. End \in Nat /\ length \in Nat
    BY <2>1, WindowMoves DEF ChunkInv, TextOK
  <2> QED
    BY <2>1, <2>2, <2>3, WindowMoves
<1> QED
  BY <1>1, ChunkInitInv, ChunkNextInv, PTL DEF ChunkSpec

=============================================================================
