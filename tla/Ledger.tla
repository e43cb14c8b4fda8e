-------------------------------- MODULE Ledger -------------------------------
(***************************************************************************)
(* What the server pays for: model calls metered against an organisation's *)
(* monthly cap, the retries under them, the usage row they share, and the  *)
(* sliding window that limits requests. The provider object is shared by   *)
(* concurrent requests, so the usage read after a call may be another's.   *)
(***************************************************************************)
EXTENDS Common, Integers, FiniteSets, Sequences, FiniteSetsExt, SequencesExt

CONSTANTS
    Callers,          \* request threads, each serving a founder or an administrator
    Providers,        \* configured providers to try: subset of the four kinds
    llm_monthly_cap,  \* the deployment's cap; 0 is no cap
    Quotas,           \* caps an administrator may set for the organisation
    retries,          \* ResilientProvider's retries
    MaxCost,          \* the dearest call, in cost units
    MaxCalls,         \* bound: metered calls begun
    LIMIT, WINDOW, MaxClock \* the limiter's limit and window; the last tick

ASSUME LedgerAssumption ==
    /\ llm_monthly_cap \in Nat /\ Quotas \subseteq Nat /\ retries \in Nat
    /\ MaxCost \in Nat \ {0} /\ MaxCalls \in Nat /\ LIMIT \in Nat /\ WINDOW \in Nat \ {0}
    /\ Providers \subseteq {"anthropic", "openai", "cli", "mock"} /\ IsFiniteSet(Callers)
    /\ None \notin Nat \cup [calls : Nat, cost : Nat]

Purposes == {"founder", "enrich"}
Months == 1..2
Estimate == 1     \* estimate_cost_usd on counted or guessed tokens

VARIABLES
    provider,   \* [purpose -> kind of the provider built for that pass]
    reported,       \* [purpose -> cost the shared provider last reported, or None]
    quota,      \* the organisation's override, or None
    month, usage, purposes, call, begun,
    replied,    \* history: replies received, by month
    permitted,  \* history: the largest cap a call was admitted under, by month
    clock, hits,
    served      \* history: when each admitted request was served

lvars == <<provider, reported, quota, month, usage, purposes, call, begun, replied, permitted, clock, hits, served>>
lane == <<begun, clock, hits, served>>
desk == <<clock, hits, served>>
NoUsage == [calls |-> 0, cost |-> 0]
NoCall == [pc |-> "idle", cap |-> 0, month |-> 1, cost |-> 0, tries |-> 0, purpose |-> "founder"]

\* A provider without its key, package or binary falls back to the mock.
_build(wanted, usable) == IF usable THEN wanted ELSE "mock"

make_provider == \E wanted \in Providers, usable \in BOOLEAN : provider["founder"] = _build(wanted, usable)
make_enrich_provider == \E wanted \in Providers, usable \in BOOLEAN : provider["enrich"] = _build(wanted, usable)

LedgerInit ==
    /\ provider \in [Purposes -> Providers \cup {"mock"}] /\ make_provider /\ make_enrich_provider
    /\ reported = [p \in Purposes |-> None] /\ quota = None /\ month = 1
    /\ usage = [m \in Months |-> None] /\ purposes = [m \in Months |-> [p \in Purposes |-> None]]
    /\ call = [t \in Callers |-> NoCall] /\ begun = 0
    /\ replied = [m \in Months |-> 0] /\ permitted = [m \in Months |-> 0]
    /\ clock = 0 /\ hits = <<>> /\ served = <<>>

(***************************************************************************)
(* Caps.                                                                   *)
(***************************************************************************)
get_llm_usage(m) == IF usage[m] = None THEN NoUsage ELSE usage[m]
list_llm_usage == {m \in Months : usage[m] # None}
list_llm_usage_purposes(m) == {p \in Purposes : purposes[m][p] # None}

\* org_provider: an override is a cap even when it is 0, which means no cap.
org_provider == IF quota = None THEN llm_monthly_cap ELSE quota
\* The administrator's own runs take "override or cap": there 0 counts as no override.
enrichment_cap == IF quota \in {None, 0} THEN llm_monthly_cap ELSE quota
CapOf(p) == IF p = "founder" THEN org_provider ELSE enrichment_cap

Spent(cap, m) == cap > 0 /\ get_llm_usage(m).cost >= cap
_budget == [cap |-> org_provider, spent |-> get_llm_usage(month).cost, blocked |-> Spent(org_provider, month)]
llm_usage == [budget |-> _budget, months |-> list_llm_usage, purposes |-> list_llm_usage_purposes(month)]

(***************************************************************************)
(* MeteredProvider.complete.                                               *)
(***************************************************************************)
Set(t, c) == call' = [call EXCEPT ![t] = c]
To(t, pc) == Set(t, [call[t] EXCEPT !.pc = pc])

Begin(t) ==
    /\ call[t].pc = "idle" /\ begun < MaxCalls /\ begun' = begun + 1
    /\ \E p \in Purposes : Set(t, [NoCall EXCEPT !.pc = "check", !.cap = CapOf(p), !.purpose = p])
    /\ UNCHANGED <<provider, reported, quota, month, usage, purposes, replied, permitted, desk>>

Check(t) ==
    LET c == call[t] IN
    /\ c.pc = "check"
    /\ IF Spent(c.cap, month)
       THEN Set(t, NoCall) /\ UNCHANGED permitted
       ELSE /\ Set(t, [c EXCEPT !.pc = "send", !.month = month])
            /\ permitted' = [permitted EXCEPT ![month] = IF c.cap = 0 \/ @ = None THEN None ELSE Max({@, c.cap})]
    /\ UNCHANGED <<provider, reported, quota, month, usage, purposes, replied, lane>>

Shared(t) == call[t].purpose
\* The HTTP and CLI providers forget the last call's usage first; Anthropic's does not.
Send(t) ==
    LET kind == provider[Shared(t)] IN
    /\ call[t].pc = "send"
    /\ Set(t, [call[t] EXCEPT !.pc = "sent", !.tries = @ + 1])
    /\ reported' = IF kind \in {"openai", "cli"} THEN [reported EXCEPT ![Shared(t)] = None] ELSE reported
    /\ UNCHANGED <<provider, quota, month, usage, purposes, replied, permitted, lane>>

Anthropic_complete(p, cost) == [reported EXCEPT ![p] = cost]
OpenAI_complete(p, cost) == [reported EXCEPT ![p] = cost]
CLI_complete(p, cost) == [reported EXCEPT ![p] = cost]
Mock_complete(p, cost) == reported
\* What a reply leaves on the shared provider object. An HTTP or CLI answer may
\* carry no usage (None); the mock keeps none.
Answered(t) ==
    LET p == Shared(t) kind == provider[Shared(t)] IN
    CASE kind = "anthropic" -> {Anthropic_complete(p, c) : c \in 1..MaxCost}
      [] kind = "openai" -> {OpenAI_complete(p, c) : c \in 1..MaxCost \cup {None}}
      [] kind = "cli" -> {CLI_complete(p, c) : c \in 1..MaxCost \cup {None}}
      [] kind = "mock" -> {Mock_complete(p, None)}

Reply(t) ==
    /\ call[t].pc = "sent"
    /\ reported' \in Answered(t)
    /\ To(t, "metering")
    /\ replied' = [replied EXCEPT ![call[t].month] = @ + 1]
    /\ UNCHANGED <<provider, quota, month, usage, purposes, permitted, lane>>

_is_retryable == {"rate limit", "overloaded", "unreachable"}
Errors == _is_retryable \cup {"refused"}
Resilient_complete(t, error) ==
    provider[Shared(t)] # "mock" /\ error \in _is_retryable /\ call[t].tries <= retries
\* A transient failure is retried, with a pause, up to two times. A reply with
\* no choices is a failure too: paid for, not counted.
Fail(t) ==
    /\ call[t].pc = "sent" /\ provider[Shared(t)] # "mock"
    /\ \E error \in Errors : IF Resilient_complete(t, error) THEN To(t, "send") ELSE Set(t, NoCall)
    /\ UNCHANGED <<provider, reported, quota, month, usage, purposes, replied, permitted, lane>>

\* last_usage and last_cost_usd are attributes of the shared object.
Meter(t) ==
    /\ call[t].pc = "metering"
    /\ Set(t, [call[t] EXCEPT !.pc = "update",
           !.cost = IF reported[Shared(t)] = None THEN Estimate ELSE reported[Shared(t)]])
    /\ UNCHANGED <<provider, reported, quota, month, usage, purposes, replied, permitted, lane>>

Plus(row, cost) == [calls |-> row.calls + 1, cost |-> row.cost + cost]
Added(t) == [usage EXCEPT ![call[t].month] = Plus(@, call[t].cost)]

\* add_llm_usage: UPDATE; no row matched, INSERT; on a conflict, UPDATE again.
UpdateUsage(t) ==
    /\ call[t].pc = "update"
    /\ IF usage[call[t].month] # None
       THEN usage' = Added(t) /\ To(t, "purpose")
       ELSE UNCHANGED usage /\ To(t, "insert")
    /\ UNCHANGED <<provider, reported, quota, month, purposes, replied, permitted, lane>>

InsertUsage(t) ==
    /\ call[t].pc = "insert"
    /\ usage' = IF usage[call[t].month] = None
                THEN [usage EXCEPT ![call[t].month] = Plus(NoUsage, call[t].cost)]
                ELSE Added(t)
    /\ To(t, "purpose")
    /\ UNCHANGED <<provider, reported, quota, month, purposes, replied, permitted, lane>>

\* The per-purpose row is written the same way; its failure is swallowed.
AddPurpose(t) ==
    LET p == call[t].purpose m == call[t].month IN
    /\ call[t].pc = "purpose"
    /\ \/ purposes' = [purposes EXCEPT ![m][p] = Plus(IF @ = None THEN NoUsage ELSE @, call[t].cost)]
       \/ UNCHANGED purposes
    /\ Set(t, NoCall)
    /\ UNCHANGED <<provider, reported, quota, month, usage, replied, permitted, lane>>

(***************************************************************************)
(* The administrator, the calendar and the rate limiter.                   *)
(***************************************************************************)
set_quota ==
    /\ \E q \in Quotas \cup {None} : quota' = q
    /\ UNCHANGED <<provider, reported, month, usage, purposes, call, begun, replied, permitted, lane>>

MonthTurns ==
    /\ month + 1 \in Months /\ month' = month + 1
    /\ UNCHANGED <<provider, reported, quota, usage, purposes, call, begun, replied, permitted, lane>>

\* The hits left when those at the front that have left the window are popped.
Live(seq, now) ==
    LET inside == {i \in 1..Len(seq) : seq[i] > now - WINDOW}
    IN  SubSeq(seq, Min(inside \cup {Len(seq) + 1}), Len(seq))

\* Mutant of allow: the limit itself is let through.
allow_One(seq, now) ==
    LET live == Live(seq, now)
    IN  [hits |-> IF Len(live) > LIMIT THEN live ELSE Append(live, now), ok |-> Len(live) <= LIMIT]
allow(seq, now) ==
    LET live == Live(seq, now)
    IN  [hits |-> IF Len(live) >= LIMIT THEN live ELSE Append(live, now), ok |-> Len(live) < LIMIT]

\* The guard before a handler: one path and client, answered 429 over the limit.
guard ==
    LET a == allow(hits, clock) IN
    /\ Len(served) <= MaxClock
    /\ hits' = a.hits
    /\ served' = IF a.ok THEN Append(served, clock) ELSE served
    /\ UNCHANGED <<provider, reported, quota, month, usage, purposes, call, begun, replied, permitted, clock>>
Tick ==
    /\ clock < MaxClock /\ clock' = clock + 1
    /\ UNCHANGED <<provider, reported, quota, month, usage, purposes, call, begun, replied, permitted, hits, served>>

MeteredCall(t) ==
    \/ Begin(t) \/ Check(t) \/ Send(t) \/ Reply(t) \/ Fail(t) \/ Meter(t)
    \/ UpdateUsage(t) \/ InsertUsage(t) \/ AddPurpose(t)
LedgerNext ==
    \/ \E t \in Callers : MeteredCall(t)
    \/ set_quota \/ MonthTurns
RateNext == guard \/ Tick
LedgerSpec == LedgerInit /\ [][LedgerNext \/ RateNext]_lvars

(***************************************************************************)
(* Properties.                                                             *)
(***************************************************************************)
\* Every reply is counted once in its month's usage row, whatever requests
\* race to create it, and the usage page shows spend for a purpose only inside
\* the month's own (metering.py MeteredProvider.complete, store.py add_llm_usage).
UsageCounted == \A m \in Months :
    LET inFlight == {t \in Callers : call[t].pc \in {"metering", "update", "insert"} /\ call[t].month = m}
    IN  /\ get_llm_usage(m).calls + Cardinality(inFlight) = replied[m]
        /\ \A p \in llm_usage.purposes :
               /\ month \in llm_usage.months
               /\ purposes[month][p].cost <= llm_usage.budget.spent

\* The cap is checked before a call and the cost added after it, so a month's
\* spend may pass the largest cap it was admitted under, but never by more than
\* one call for each concurrent caller (metering.py:107-135).
OvershootBounded == \A m \in Months :
    \/ permitted[m] = None
    \/ get_llm_usage(m).cost < permitted[m] + Cardinality(Callers) * MaxCost
    \/ get_llm_usage(m).cost = 0

\* No client is served more than LIMIT times in any window (hardening.py
\* SlidingWindowLimiter.allow).
RateBounded == \A i \in 1..Len(served) :
    Cardinality({j \in 1..Len(served) : served[j] <= served[i] /\ served[j] > served[i] - WINDOW}) <= LIMIT

\* The ledger is honest: usage is counted, the overshoot and the rate bounded.
LedgerHonest == UsageCounted /\ OvershootBounded /\ RateBounded
=============================================================================
