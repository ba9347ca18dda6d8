------------------------------ MODULE Backoff ------------------------------
(***************************************************************************)
(* httputil/retry.go and config.go: how long the client waits between the  *)
(* attempts of one call.  Time is counted in hundredths of a second, the   *)
(* multiplier in tenths and the jitter in percent; every product is cut    *)
(* off to an integer as the conversion to time.Duration does.  A product   *)
(* beyond the largest duration converts to whatever the platform makes of  *)
(* it, the smallest duration (amd64) or the largest (arm64), and a sum     *)
(* beyond it wraps around.                                                 *)
(***************************************************************************)
EXTENDS Integers

CONSTANTS
    Given,        \* the RetryConfigs a user may give
    Draws,        \* what the random source may yield, in percent: -100..100
    Headers,      \* the Retry-After headers a service may answer with
    MaxDuration   \* the largest time.Duration

BackoffAssumption ==
    /\ Given \subseteq [maxAttempts : Int, initialDelay : Int, maxDelay : Int,
                        multiplier : Int, jitter : Int]
    /\ Draws \subseteq -100..100
    /\ Headers \subseteq [form : {"none", "seconds", "date"}, value : Int]
    /\ MaxDuration \in Nat

VARIABLES
    given,    \* the RetryConfig as the user wrote it
    cfg,      \* the one in force
    attempt,  \* execute's attempt
    wait,     \* the last delay
    cause,    \* what asked for it: "none", "backoff" or "header"
    asked     \* history: the seconds the last answer asked to wait, 0 if none

vars == <<given, cfg, attempt, wait, cause, asked>>

----------------------------------------------------------------------------
DefaultConfig == [maxAttempts |-> 3, initialDelay |-> 20, maxDelay |-> 500,
                  multiplier |-> 25, jitter |-> 30]

OrDefault(c, f) == IF c[f] <= 0 THEN DefaultConfig[f] ELSE c[f]

(* Variant: a multiplier below one is taken as it is. *)
WithDefaultsLoose(c) ==
    [maxAttempts  |-> OrDefault(c, "maxAttempts"),
     initialDelay |-> OrDefault(c, "initialDelay"),
     maxDelay     |-> OrDefault(c, "maxDelay"),
     multiplier   |-> OrDefault(c, "multiplier"),
     jitter       |-> IF c.jitter < 0 THEN 0 ELSE c.jitter]

(* Fields that make no sense get their default, except the jitter: a       *)
(* negative one means none, and zero stays zero.  A RetryConfig that       *)
(* leaves JitterFactor out therefore has no jitter, although "The zero     *)
(* value triggers defaults" (config.go:25) and the default is 0.3          *)
(* (docs/packages.md:1184). *)
WithDefaults(c) ==
    [maxAttempts  |-> OrDefault(c, "maxAttempts"),
     initialDelay |-> OrDefault(c, "initialDelay"),
     maxDelay     |-> OrDefault(c, "maxDelay"),
     multiplier   |-> IF c.multiplier <= 10 THEN DefaultConfig.multiplier ELSE c.multiplier,
     jitter       |-> IF c.jitter < 0 THEN 0 ELSE c.jitter]

(* time.Duration(float64(InitialDelay) * exp), exp = Multiplier^(n-1).     *)
Grown(c, n) == (c.initialDelay * c.multiplier ^ (n - 1)) \div 10 ^ (n - 1)

Converted(x) == IF x <= MaxDuration THEN {x} ELSE {MaxDuration, -MaxDuration - 1}

Least(a, b) == IF a < b THEN a ELSE b

(* An integer of the width of time.Duration. *)
Wrapped(x) == ((x + MaxDuration + 1) % (2 * MaxDuration + 2)) - MaxDuration - 1

(* Division that cuts off towards zero. *)
Quotient(x, d) == IF x >= 0 THEN x \div d ELSE -((-x) \div d)

Jittered(c, d, draw) == Wrapped(d + Quotient(draw * c.jitter * d, 10000))

(* Variant: a delay past the cap is dropped instead of capped. *)
BackoffDrops(c, n, draw) ==
    {IF d > c.maxDelay THEN 0 ELSE Jittered(c, d, draw) : d \in Converted(Grown(c, n))}

(* Variant: the cap is forgotten. *)
BackoffUncapped(c, n, draw) ==
    {LET d == Jittered(c, e, draw) IN IF d < 0 THEN 0 ELSE d :
        e \in Converted(Grown(c, n))}

(* backoffDelay: cap, then jitter, never negative with jitter.  The jitter *)
(* is added to what has been capped, so that a delay may exceed MaxDelay,  *)
(* although it is said to be "capped by MaxDelay" (retry.go:22).  What is  *)
(* negative without jitter sleepCtx takes for no delay.                    *)
Backoff(c, n, draw) ==
    {LET d == Jittered(c, Least(e, c.maxDelay), draw) IN IF d < 0 THEN 0 ELSE d :
        e \in Converted(Grown(c, n))}

(* Variant: the header's seconds are taken for hundredths. *)
RetryAfterRaw(h) == IF h.form # "none" /\ h.value > 0 THEN h.value ELSE 0

(* retryAfterDelay: seconds, or the time until a date; 0 when it is        *)
(* absent, negative or past. *)
RetryAfter(h) ==
    CASE h.form = "seconds" /\ h.value >= 0 -> Wrapped(100 * h.value)
      [] h.form = "date" /\ h.value > 0 -> Least(100 * h.value, MaxDuration)
      [] OTHER -> 0

Init ==
    /\ given \in Given
    /\ cfg = WithDefaults(given)
    /\ attempt = 1
    /\ wait = 0
    /\ cause = "none"
    /\ asked = 0

(* Both kinds of failure are followed by a delay unless this was the last  *)
(* attempt. *)
Delay(why, delays) ==
    /\ attempt < cfg.maxAttempts
    /\ wait' \in delays
    /\ cause' = why
    /\ attempt' = attempt + 1
    /\ UNCHANGED <<given, cfg>>

AfterTransportError ==
    /\ \E draw \in Draws : Delay("backoff", Backoff(cfg, attempt, draw))
    /\ asked' = 0

(* A positive Retry-After goes before the backoff. *)
AfterStatus(h) ==
    /\ \/ RetryAfter(h) > 0 /\ Delay("header", {RetryAfter(h)})
       \/ /\ RetryAfter(h) <= 0
          /\ \E draw \in Draws : Delay("backoff", Backoff(cfg, attempt, draw))
    /\ asked' = IF h.form # "none" /\ h.value > 0 THEN h.value ELSE 0

(* The attempts are used up. *)
Spent ==
    /\ attempt = cfg.maxAttempts
    /\ UNCHANGED vars

Next ==
    \/ AfterTransportError
    \/ \E h \in Headers : AfterStatus(h)
    \/ Spent

Spec == Init /\ [][Next]_vars

----------------------------------------------------------------------------
(* Properties.                                                             *)

TypeOK ==
    /\ given \in Given
    /\ cfg \in [maxAttempts : Nat \ {0}, initialDelay : Nat \ {0}, maxDelay : Nat \ {0},
                multiplier : Nat \ (0..10), jitter : Nat]
    /\ attempt \in 1..cfg.maxAttempts
    /\ wait \in Nat
    /\ cause \in {"none", "backoff", "header"}
    /\ asked \in Nat

(* The reference: every delay is the one before times the multiplier, up   *)
(* to the cap. *)
Reference ==
    LET f[n \in Nat \ {0}] ==
          IF n = 1 THEN Least(cfg.initialDelay, cfg.maxDelay)
          ELSE Least((f[n - 1] * cfg.multiplier) \div 10, cfg.maxDelay)
    IN  f[attempt - 1]

Distance(a, b) == IF a < b THEN b - a ELSE a - b

(* Every backoff is the reference, give or take the jitter and two units   *)
(* of rounding. *)
WithinJitter ==
    cause = "backoff" =>
        100 * Distance(wait, Reference) <= cfg.jitter * Reference + 200

(* Every backoff is the exponential of its attempt up to the cap, give or  *)
(* take the jitter (backoffDelay, retry.go:23-36).  It does go beyond the  *)
(* cap, which is applied before the jitter, but by no more than the        *)
(* jitter's share of it. *)
WithinCurve ==
    LET curve == Least(Grown(cfg, attempt - 1), cfg.maxDelay)
    IN  cause = "backoff" =>
            /\ 100 * Distance(wait, curve) <= cfg.jitter * curve
            /\ 100 * wait <= (100 + cfg.jitter) * cfg.maxDelay

(* A failed attempt is never followed by the next one without a delay, for *)
(* none of the mixtures of fields withDefaults lets through.               *)
NoHotRetry == cause # "none" => wait > 0

(* The client never comes back before the time a service has asked for     *)
(* (TestClient_RespectsRetryAfter). *)
RetryAfterRespected == wait >= 100 * asked
============================================================================
