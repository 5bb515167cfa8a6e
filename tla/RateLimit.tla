------------------------------ MODULE RateLimit ------------------------------
(***************************************************************************)
(* The rate limiter of a route in core/request_router.cpp. A check holds the *)
(* limiter's mutex from refill_tokens to its return, so that it is one step. *)
(* Time is in milliseconds of which a second has PerSecond.                  *)
(***************************************************************************)
EXTENDS Naturals, Integers

CONSTANTS
    PerSecond,  \* milliseconds in a second: 1000 in the code
    IntMax,     \* the largest int
    Rates,      \* the requests_per_second a route may be given
    MaxClock,   \* when the clock stops
    MaxWindow   \* how many admissions a window counts, at most

ASSUME RateAssumption ==
    PerSecond \in Nat \ {0} /\ IntMax \in Nat /\ Rates \subseteq 0..IntMax /\ MaxClock \in Nat /\ MaxWindow \in Nat

VARIABLES
    max_tokens, tokens, last_refill,    \* the RateLimiter
    clock,                              \* steady_clock
    from, admitted                      \* history: a window of time, its admissions

rateVars == <<max_tokens, tokens, last_refill, clock, from, admitted>>

\* enable_rate_limiting: a full bucket.
RateInit ==
    /\ max_tokens \in Rates /\ tokens = max_tokens
    /\ clock = 0 /\ last_refill = 0 /\ from = 0 /\ admitted = 0

\* A value stored into an int.
Int32(x) == ((x + IntMax + 1) % (2 * (IntMax + 1))) - (IntMax + 1)

\* refill_tokens: whole tokens for the time since the last refill, cut to an int
\* (a long idle time can make them negative). The fraction is dropped, though
\* last_refill moves on. A sum that is no int wraps: the build adds 32-bit words.
refill_tokens ==
    LET sum == Int32(tokens + Int32((max_tokens * (clock - last_refill)) \div PerSecond))
    IN IF sum < max_tokens THEN sum ELSE max_tokens

\* Mutant: an empty bucket still admits.
CheckAtZero ==
    /\ admitted < MaxWindow
    /\ last_refill' = clock
    /\ IF refill_tokens >= 0
         THEN tokens' = refill_tokens - 1 /\ admitted' = admitted + 1
         ELSE tokens' = refill_tokens /\ UNCHANGED admitted
    /\ UNCHANGED <<max_tokens, clock, from>>

\* check_rate_limit
check_rate_limit ==
    /\ admitted < MaxWindow
    /\ last_refill' = clock
    /\ IF refill_tokens > 0
         THEN tokens' = refill_tokens - 1 /\ admitted' = admitted + 1
         ELSE tokens' = refill_tokens /\ UNCHANGED admitted
    /\ UNCHANGED <<max_tokens, clock, from>>

RateTick ==
    /\ clock < MaxClock /\ clock' = clock + 1
    /\ UNCHANGED <<max_tokens, tokens, last_refill, from, admitted>>

\* The window that admitted counts may start at any time.
RateWindow ==
    /\ from' = clock /\ admitted' = 0
    /\ UNCHANGED <<max_tokens, tokens, last_refill, clock>>

RateNext == check_rate_limit \/ RateTick \/ RateWindow

RateSpec == RateInit /\ [][RateNext]_rateVars

-----------------------------------------------------------------------------
RateTypeOK ==
    /\ max_tokens \in Rates /\ tokens \in (-(IntMax + 1))..max_tokens
    /\ clock \in 0..MaxClock /\ last_refill \in 0..clock /\ from \in 0..clock
    /\ admitted \in 0..MaxWindow

\* The bound of a token bucket, over every window of time and not just from the
\* start: a burst of max_tokens and then no more than the rate. (The other half
\* of a token bucket, that tokens do come with time, does not hold: checks that
\* come faster than tokens drop the fraction each time.)
RateBound ==
    admitted * PerSecond <= max_tokens * PerSecond + max_tokens * (clock - from)

\* The inductive form: what the window admitted and what is left in the bucket
\* are paid for by a full bucket and the time up to the last refill. A window
\* without a refill has admitted nothing.
RatePaid ==
    IF last_refill < from
      THEN admitted = 0
      ELSE (admitted + tokens) * PerSecond <= max_tokens * PerSecond + max_tokens * (last_refill - from)
=============================================================================
