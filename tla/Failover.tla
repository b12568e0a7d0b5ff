------------------------------- MODULE Failover -------------------------------
(***************************************************************************)
(* A request to the model providers: run_with_failover and the circuit     *)
(* breakers of app/services/ai/failover.py, the attempts that AIService    *)
(* (ai/service.py) and EmbeddingService (embedding.py) hand to it, the     *)
(* streamed chat that goes around it, and the rate limiter.                *)
(*                                                                         *)
(* The requests of one API process share two breakers; the counter of the  *)
(* rate limiter is in Redis.  A unit of time is the minute of its window,  *)
(* in which the seconds of a retry's sleep are lost.                       *)
(***************************************************************************)
EXTENDS Naturals, Sequences, FiniteSets, Ordering

CONSTANTS
    Requests,      \* concurrent requests of the process
    Chain,         \* the providers, in the order of the configured chain
    MaxRetries,    \* PROVIDER_MAX_RETRIES
    Threshold,     \* PROVIDER_FAILURE_THRESHOLD
    Cooldown,      \* PROVIDER_COOLDOWN_SECONDS, in minutes
    Limit,         \* PROVIDER_RATE_LIMIT_RPM
    Counted,       \* failures the breakers may have counted before the first request
    MaxTime,       \* bound on the clock
    MaxAsks        \* bound on the requests of a behaviour

(* _parse_chain drops the second mention of a provider *)
ASSUME FailoverAssumption ==
    /\ Chain \in Seq({Chain[i] : i \in DOMAIN Chain})
    /\ \A i, j \in DOMAIN Chain : Chain[i] = Chain[j] => i = j
    /\ MaxRetries \in Nat /\ Threshold \in Nat \ {0} /\ Cooldown \in Nat /\ Limit \in Nat
    /\ Counted \subseteq 0 .. Threshold - 1
    /\ MaxTime \in Nat /\ MaxAsks \in Nat

VARIABLES
    clock,
    failures,      \* _failures of each breaker
    cooldowns,     \* _cooldowns of each breaker
    budget,        \* the counter of each provider in the current window
    ask,           \* what each request is doing
    asks           \* requests so far

failoverVars == <<clock, failures, cooldowns, budget, ask, asks>>

Providers == {Chain[i] : i \in DOMAIN Chain}
Breakers  == {"chat", "embedding"}
Ops       == {"chat", "stream", "embedding"}

(* classify_provider_error: circuit_open is reported by the loop itself.    *)
(* rate_limit, unavailable and timeout are retried; quota, although marked  *)
(* retryable, is not, nor are the categories that are not retryable         *)
Retryable  == {"retryable"}
Categories == {"retryable", "final"}

Breaker(op) == IF op = "embedding" THEN "embedding" ELSE "chat"

Waiting == [pc |-> "waiting", op |-> "none", attempts |-> <<>>, todo |-> <<>>, retry |-> 0,
            report |-> <<>>, output |-> <<>>]

FailoverInit ==
    /\ clock = 0
    /\ \E n \in Counted : failures = [b \in Breakers |-> [p \in Providers |-> n]]
    /\ cooldowns = [b \in Breakers |-> [p \in Providers |-> 0]]
    /\ budget = [p \in Providers |-> 0]
    /\ ask = [r \in Requests |-> Waiting]
    /\ asks = 0

-----------------------------------------------------------------------------
(* Faulty forms of definitions below, for the mutation runs of the README *)

NextRetry_Same(r)       == ask[r].retry
SwitchesAfter_Output(r) == TRUE

-----------------------------------------------------------------------------
(* ProviderCircuitBreaker *)

Healthy(b, p) == cooldowns[b][p] <= clock

Success(b, p) ==
    /\ failures' = [failures EXCEPT ![b][p] = 0]
    /\ cooldowns' = [cooldowns EXCEPT ![b][p] = 0]

Failure(b, p) ==
    LET count == failures[b][p] + 1 IN
    IF count >= Threshold
    THEN /\ cooldowns' = [cooldowns EXCEPT ![b][p] = clock + Cooldown]
         /\ failures' = [failures EXCEPT ![b][p] = 0]
    ELSE /\ failures' = [failures EXCEPT ![b][p] = count]
         /\ UNCHANGED cooldowns

-----------------------------------------------------------------------------
(* The attempts of a request: the chain of its user, the active provider    *)
(* first, without those that have no model, no key, or do not answer.       *)
(* Chat and embedding providers have a chain each, here of the same names.  *)

ChainFrom(first) == <<first>> \o Keeping(Chain, {i \in DOMAIN Chain : Chain[i] # first})

Offering(providers, usable) == Keeping(providers, {i \in DOMAIN providers : providers[i] \in usable})

AvailableChatConfigs(first, usable) == Offering(ChainFrom(first), usable)

EmbeddingAttempts(first, usable) == Offering(ChainFrom(first), usable)

Asks(r, op, attempts) ==
    /\ ask[r].pc = "waiting" /\ asks < MaxAsks
    /\ asks' = asks + 1
    /\ ask' = [ask EXCEPT ![r] = [Waiting EXCEPT !.op = op, !.attempts = attempts,
                !.todo = attempts, !.pc = "next"]]
    /\ UNCHANGED <<clock, failures, cooldowns, budget>>

GenerateChatResponse(r) ==
    \E first \in Providers, usable \in SUBSET Providers :
        Asks(r, "chat", AvailableChatConfigs(first, usable))

(* A provider without chat_with_tools is left out as well; without any      *)
(* attempt AllProvidersFailedError is raised at once                        *)
GenerateToolCall(r) ==
    \E first \in Providers, usable, calling \in SUBSET Providers :
        Asks(r, "chat", Offering(AvailableChatConfigs(first, usable), calling))

StreamChatResponse(r) ==
    \E first \in Providers, usable \in SUBSET Providers :
        Asks(r, "stream", AvailableChatConfigs(first, usable))

(* embed_text and embed_texts of a service without a fixed provider: all    *)
(* the texts of a batch are one attempt                                     *)
EmbedTexts(r) ==
    \E first \in Providers, usable \in SUBSET Providers :
        Asks(r, "embedding", EmbeddingAttempts(first, usable))

-----------------------------------------------------------------------------
(* run_with_failover *)

Current(r)  == Head(ask[r].todo)
Guarded(r)  == ask[r].op # "stream"
Summary(r, category) ==
    [provider |-> Current(r), skipped |-> category = "circuit_open"]

(* The attempt is over without a value *)
GiveUp(r, category) ==
    ask' = [ask EXCEPT ![r].report = Append(@, Summary(r, category)), ![r].todo = Tail(@),
            ![r].pc = "next", ![r].retry = 0]

Skip(r) ==
    /\ ask[r].pc = "next" /\ ask[r].todo # <<>> /\ Guarded(r)
    /\ ~Healthy(Breaker(ask[r].op), Current(r))
    /\ GiveUp(r, "circuit_open")
    /\ UNCHANGED <<clock, failures, cooldowns, budget, asks>>

(* Before the first try the breaker is asked, before a retry it is not *)
Tries(r) ==
    \/ ask[r].pc = "retry"
    \/ /\ ask[r].pc = "next" /\ ask[r].todo # <<>> /\ Guarded(r)
       /\ Healthy(Breaker(ask[r].op), Current(r))

MayRetry(r, category) == category \in Retryable /\ ask[r].retry < MaxRetries

NextRetry(r) == ask[r].retry + 1

Fail(r, category) ==
    IF MayRetry(r, category)
    THEN /\ ask' = [ask EXCEPT ![r].retry = NextRetry(r), ![r].pc = "retry"]
         /\ UNCHANGED <<failures, cooldowns>>
    ELSE GiveUp(r, category) /\ Failure(Breaker(ask[r].op), Current(r))

Call(r) == ask' = [ask EXCEPT ![r].pc = "calling"]

(* check_rate_limit: INCR, then the comparison (the counter stays at        *)
(* Limit + 1 here); a request over the limit is a failed try of the         *)
(* provider like any other                                                  *)
CheckRateLimit(r) ==
    /\ Tries(r)
    /\ budget' = [budget EXCEPT ![Current(r)] = IF @ > Limit THEN @ ELSE @ + 1]
    /\ IF budget'[Current(r)] > Limit
       THEN Fail(r, "retryable")
       ELSE Call(r) /\ UNCHANGED <<failures, cooldowns>>
    /\ UNCHANGED <<clock, asks>>

(* Without Redis, or with the limiter switched off, the try goes ahead *)
FailOpen(r) ==
    /\ Tries(r)
    /\ Call(r)
    /\ UNCHANGED <<clock, failures, cooldowns, budget, asks>>

CallReturns(r) ==
    /\ ask[r].pc = "calling"
    /\ ask' = [ask EXCEPT ![r].pc = "returned", ![r].output = <<Current(r)>>]
    /\ Success(Breaker(ask[r].op), Current(r))
    /\ UNCHANGED <<clock, budget, asks>>

CallRaises(r) ==
    /\ ask[r].pc = "calling"
    /\ \E category \in Categories : Fail(r, category)
    /\ UNCHANGED <<clock, budget, asks>>

(* AllProvidersFailedError with the report, which may be empty *)
Exhausted(r) ==
    /\ ask[r].pc = "next" /\ ask[r].todo = <<>>
    /\ ask' = [ask EXCEPT ![r].pc = "all_failed"]
    /\ UNCHANGED <<clock, failures, cooldowns, budget, asks>>

-----------------------------------------------------------------------------
(* stream_chat_response: neither breaker, nor limiter, nor retries          *)

StartStream(r) ==
    /\ ask[r].pc = "next" /\ ask[r].todo # <<>> /\ ~Guarded(r)
    /\ ask' = [ask EXCEPT ![r].pc = "streaming"]
    /\ UNCHANGED <<clock, failures, cooldowns, budget, asks>>

OutputStarted(r) == \E i \in DOMAIN ask[r].output : ask[r].output[i] = Current(r)

(* What follows the first chunk of a provider adds nothing to the output *)
Chunk(r) ==
    /\ ask[r].pc = "streaming" /\ ~OutputStarted(r)
    /\ ask' = [ask EXCEPT ![r].output = Append(@, Current(r))]
    /\ UNCHANGED <<clock, failures, cooldowns, budget, asks>>

StreamEnds(r) ==
    /\ ask[r].pc = "streaming"
    /\ ask' = [ask EXCEPT ![r].pc = "returned"]
    /\ UNCHANGED <<clock, failures, cooldowns, budget, asks>>

SwitchesAfter(r) == ~OutputStarted(r)

(* ProviderPartialGenerationError once output has started *)
StreamRaises(r) ==
    /\ ask[r].pc = "streaming"
    /\ IF SwitchesAfter(r)
       THEN \E category \in Categories : GiveUp(r, category)
       ELSE ask' = [ask EXCEPT ![r].pc = "partial"]
    /\ UNCHANGED <<clock, failures, cooldowns, budget, asks>>

-----------------------------------------------------------------------------
(* The caller has taken the answer or the exception *)
Answered(r) ==
    /\ ask[r].pc \in {"returned", "all_failed", "partial"}
    /\ ask' = [ask EXCEPT ![r] = Waiting]
    /\ UNCHANGED <<clock, failures, cooldowns, budget, asks>>

(* A minute passes and the limiter counts in a new window *)
Tick ==
    /\ clock < MaxTime
    /\ clock' = clock + 1
    /\ budget' = [p \in Providers |-> 0]
    /\ UNCHANGED <<failures, cooldowns, ask, asks>>

Progress(r) ==
    \/ Skip(r) \/ CheckRateLimit(r) \/ FailOpen(r) \/ CallReturns(r) \/ CallRaises(r)
    \/ Exhausted(r) \/ StartStream(r) \/ StreamEnds(r) \/ StreamRaises(r) \/ Answered(r)

FailoverNext ==
    \/ Tick
    \/ \E r \in Requests :
        \/ GenerateChatResponse(r) \/ GenerateToolCall(r) \/ StreamChatResponse(r) \/ EmbedTexts(r)
        \/ Progress(r) \/ Chunk(r)

(* Every HTTP request has a timeout, and a stream comes to its end *)
FailoverFairness == \A r \in Requests : WF_failoverVars(Progress(r))

FailoverSpec == FailoverInit /\ [][FailoverNext]_failoverVars /\ FailoverFairness

-----------------------------------------------------------------------------
(* Properties *)

Named(report) == [i \in DOMAIN report |-> report[i].provider]

(* The providers a request went through are reported one by one in the      *)
(* order of its chain; an answer comes whole from the provider after them,  *)
(* also when it is streamed, and the error that all failed is raised only   *)
(* when none is left.                                                       *)
OneAnswer ==
    \A r \in Requests :
        /\ Named(ask[r].report) \o ask[r].todo = ask[r].attempts
        /\ Len(ask[r].output) <= 1
        /\ ask[r].output # <<>> => ask[r].todo # <<>> /\ ask[r].output[1] = Current(r)
        /\ ask[r].pc = "all_failed" => ask[r].todo = <<>>

(* A request ends, in an answer or in an error, however the providers fail  *)
(* and whatever the other requests do to the breakers and the budget.       *)
RequestEnds == \A r \in Requests : ask[r].pc = "next" ~> ask[r].pc = "waiting"
=============================================================================
