----------------------------- MODULE RateLimiter -----------------------------
(***************************************************************************)
(* middleware.RateLimiter (src/internal/middleware/ratelimit.go) in front  *)
(* of the auth routes: a token bucket per client address, kept in a map    *)
(* that cleanupLoop replaces by an empty one every hour.  A request looks  *)
(* its limiter up under the mutex and calls Allow on it afterwards, when   *)
(* the map may be another one already.                                     *)
(*                                                                         *)
(* An address gets at most one limiter between two cleanups, so a limiter  *)
(* is named by its address and the number of cleanups before it.           *)
(***************************************************************************)
EXTENDS Naturals

CONSTANTS
    IP,               \* client addresses, as clientIP gives them
    Burst,            \* capacity of a bucket; the code says 10
    MaxCleanups,      \* bound on the resets of the map
    MaxRefills        \* bound on the refills, one every 12 s

ASSUME LimiterAssumption ==
    Burst \in Nat \ {0} /\ MaxCleanups \in Nat /\ MaxRefills \in Nat

Limiter == IP \X (0..MaxCleanups)

VARIABLES
    visitors,         \* rl.visitors: the addresses with a limiter in the map
    bucket,           \* what is left in each limiter's bucket
    cleanups,         \* resets of the map so far
    refills,          \* refills so far
    admitted          \* history: requests admitted by the limiter in the map

limiterVars == <<visitors, bucket, cleanups, refills, admitted>>

LimiterInit ==
    /\ visitors = {} /\ bucket = [l \in Limiter |-> 0]
    /\ cleanups = 0 /\ refills = 0
    /\ admitted = [ip \in IP |-> 0]

LimiterOf(ip) == <<ip, cleanups>>

\* A fault that WithinBudget excludes: a new limiter for every request.
GetLimiterAnew(ip) ==
    /\ visitors' = visitors \cup {ip}
    /\ bucket' = [bucket EXCEPT ![LimiterOf(ip)] = Burst]
    /\ UNCHANGED <<cleanups, refills, admitted>>

\* getLimiter: the one in the map, or a new and full one.
GetLimiter(ip) ==
    /\ visitors' = visitors \cup {ip}
    /\ bucket' = IF ip \in visitors THEN bucket
                 ELSE [bucket EXCEPT ![LimiterOf(ip)] = Burst]
    /\ UNCHANGED <<cleanups, refills, admitted>>

Allow(l) ==
    /\ bucket[l] > 0
    /\ bucket' = [bucket EXCEPT ![l] = @ - 1]
    /\ admitted' = IF l = LimiterOf(l[1])
                   THEN [admitted EXCEPT ![l[1]] = @ + 1] ELSE admitted
    /\ UNCHANGED <<visitors, cleanups, refills>>

Deny(l) == bucket[l] = 0 /\ UNCHANGED limiterVars

\* Time fills every bucket up to its capacity.
Refill ==
    /\ refills < MaxRefills
    /\ refills' = refills + 1
    /\ bucket' = [l \in Limiter |-> IF bucket[l] < Burst THEN bucket[l] + 1 ELSE Burst]
    /\ UNCHANGED <<visitors, cleanups, admitted>>

Cleanup ==
    /\ cleanups < MaxCleanups
    /\ cleanups' = cleanups + 1
    /\ visitors' = {}
    /\ UNCHANGED <<bucket, refills, admitted>>

-----------------------------------------------------------------------------
LimiterTypeOK ==
    /\ visitors \subseteq IP
    /\ bucket \in [Limiter -> 0..Burst]
    /\ cleanups \in 0..MaxCleanups /\ refills \in 0..MaxRefills
    /\ admitted \in [IP -> Nat]

\* "5 req/min sustained, burst of 10" (server.go:66-70): between two resets an
\* address is admitted a burst and what was refilled since the start, whatever
\* requests overlap; only one that looked its limiter up before a reset and uses
\* it after is not counted against the new one.
WithinBudget ==
    \A ip \in IP : admitted[ip] <= Burst * (1 + cleanups) + refills
=============================================================================
