---------------------------- MODULE RateLimiter ----------------------------
(***************************************************************************)
(* The token buckets in front of POST /verify (crates/api/src/server.rs):  *)
(* one bucket per principal in a map behind a mutex, checked by handlers   *)
(* on several threads.  check() reads the clock before it takes the lock,  *)
(* so readings can be applied out of order.                                *)
(*                                                                         *)
(* Tokens are counted in ticks of refill: a bucket gains one per tick, a   *)
(* request costs TOKEN of them.  Rounding of f64 is left out.              *)
(***************************************************************************)
EXTENDS Integers, FiniteSets

CONSTANTS
    Key,                  \* principals, as rate_limit_key names them
    Caller,               \* handlers that may be inside check() at once
    NoCheck,              \* a caller outside check()
    NoBucket,             \* a key the map does not hold
    Never,                \* no refusal to wait out
    RATE_LIMIT_BURST,     \* a full bucket
    TOKEN,                \* the cost of one request
    SECOND,               \* ticks per second
    MAX_TRACKED_CLIENTS,  \* the map's cap
    MaxTime               \* bound: the last tick

ASSUME LimiterAssumption ==
    /\ RATE_LIMIT_BURST \in Nat /\ TOKEN \in Nat \ {0} /\ TOKEN <= RATE_LIMIT_BURST
    /\ SECOND \in Nat \ {0}
    /\ MAX_TRACKED_CLIENTS \in Nat \ {0}
    /\ MaxTime \in Nat

ASSUME NoneAssumption ==
    /\ NoBucket \notin [tokens : Int, last : Int]
    /\ NoCheck \notin [key : Key, now : Int]
    /\ Never \notin Int

VARIABLES
    clock,    \* Instant::now()
    buckets,  \* the map: [tokens, last] of a key, or NoBucket
    check,    \* a caller's key and clock reading, before the lock
    \* history
    spent,    \* what was granted to a key, in ticks of refill
    basis,    \* the reading last applied to a key, or when it was evicted
    skew,     \* by how much a key's readings were applied out of order
    retryAt   \* when the last refusal of a key told it to come back

history == <<spent, basis, skew, retryAt>>
vars    == <<clock, buckets, check, history>>

Least(a, b)    == IF a <= b THEN a ELSE b
Greatest(a, b) == IF a >= b THEN a ELSE b

\* Mutant: an earlier reading counts as negative time.
SinceSigned(now, last) == now - last

\* saturating_duration_since.
Since(now, last) == Greatest(0, now - last)

refilled(b, now) == Least(RATE_LIMIT_BURST, b.tokens + Since(now, b.last))

Tracked == {k \in Key : buckets[k] # NoBucket}

\* Mutant: every bucket is dropped when the map is full.
KeptNone(k, now) ==
    IF Cardinality(Tracked) >= MAX_TRACKED_CLIENTS /\ k \notin Tracked THEN {} ELSE Tracked

\* map.retain: at the cap, a new key costs the refilled buckets their place.
Kept(k, now) ==
    IF Cardinality(Tracked) >= MAX_TRACKED_CLIENTS /\ k \notin Tracked
    THEN {x \in Tracked : refilled(buckets[x], now) < RATE_LIMIT_BURST}
    ELSE Tracked

\* entry(key).or_insert(..) and the refill: the tokens a request of k finds.
Found(k, now) ==
    refilled(IF k \in Tracked THEN buckets[k]
             ELSE [tokens |-> RATE_LIMIT_BURST, last |-> now], now)

\* Mutant: Retry-After is rounded down.
RetryAfterFloor(tokens) == ((TOKEN - tokens) \div SECOND) * SECOND

\* Err(wait) and its Retry-After header: whole seconds, rounded up, at least one.
RetryAfter(tokens) ==
    Greatest(1, (TOKEN - tokens + SECOND - 1) \div SECOND) * SECOND

Init ==
    /\ clock = 0
    /\ buckets = [k \in Key |-> NoBucket]
    /\ check = [c \in Caller |-> NoCheck]
    /\ spent = [k \in Key |-> 0]
    /\ basis = [k \in Key |-> 0]
    /\ skew = [k \in Key |-> 0]
    /\ retryAt = [k \in Key |-> Never]

Tick ==
    /\ clock < MaxTime
    /\ clock' = clock + 1
    /\ UNCHANGED <<buckets, check, history>>

\* check: the clock is read before the lock is taken.
ReadClock(c, k) ==
    /\ check[c] = NoCheck
    /\ check' = [check EXCEPT ![c] = [key |-> k, now |-> clock]]
    /\ UNCHANGED <<clock, buckets, history>>

\* A reading of k at now is applied: what the history says of every key.
Applied(k, now) ==
    /\ basis' = [x \in Key |->
                    IF x = k THEN now
                    ELSE IF x \in Tracked \ Kept(k, now) THEN Greatest(basis[x], now)
                    ELSE basis[x]]
    /\ skew' = [skew EXCEPT ![k] = @ + Greatest(0, basis[k] - now)]

\* Mutant: a refused bucket keeps its old time, so it refills for the same time again.
CheckAtStaleTime(c) ==
    /\ check[c] # NoCheck
    /\ check' = [check EXCEPT ![c] = NoCheck]
    /\ LET k == check[c].key
           now == check[c].now
           tokens == Found(k, now)
           ok == tokens >= TOKEN
       IN  /\ buckets' = [x \in Key |->
                            IF x = k THEN [tokens |-> IF ok THEN tokens - TOKEN ELSE tokens,
                                           last |-> IF k \in Tracked THEN buckets[k].last ELSE now]
                            ELSE IF x \in Kept(k, now) THEN buckets[x] ELSE NoBucket]
           /\ Applied(k, now)
           /\ spent' = [spent EXCEPT ![k] = @ + IF ok THEN TOKEN ELSE 0]
           /\ retryAt' = [retryAt EXCEPT ![k] = IF ok THEN Never ELSE now + RetryAfter(tokens)]
    /\ UNCHANGED clock

\* check_at, under the lock.
CheckAt(c) ==
    /\ check[c] # NoCheck
    /\ check' = [check EXCEPT ![c] = NoCheck]
    /\ LET k == check[c].key
           now == check[c].now
           tokens == Found(k, now)
           ok == tokens >= TOKEN
       IN  /\ buckets' = [x \in Key |->
                            IF x = k THEN [tokens |-> IF ok THEN tokens - TOKEN ELSE tokens,
                                           last |-> now]
                            ELSE IF x \in Kept(k, now) THEN buckets[x] ELSE NoBucket]
           /\ Applied(k, now)
           /\ spent' = [spent EXCEPT ![k] = @ + IF ok THEN TOKEN ELSE 0]
           /\ retryAt' = [retryAt EXCEPT ![k] = IF ok THEN Never ELSE now + RetryAfter(tokens)]
    /\ UNCHANGED clock

Next ==
    \/ Tick
    \/ \E c \in Caller, k \in Key : ReadClock(c, k)
    \/ \E c \in Caller : CheckAt(c)

Spec == Init /\ [][Next]_vars
-----------------------------------------------------------------------------
TypeOK ==
    /\ clock \in Nat
    /\ buckets \in [Key -> [tokens : 0 .. RATE_LIMIT_BURST, last : Nat] \cup {NoBucket}]
    /\ check \in [Caller -> [key : Key, now : Nat] \cup {NoCheck}]
    /\ spent \in [Key -> Nat] /\ basis \in [Key -> Nat] /\ skew \in [Key -> Nat]
    /\ retryAt \in [Key -> Nat \cup {Never}]

\* What a principal was granted never exceeds the burst and what refilled since
\* the start, whoever else is evicted or created at the cap.  The clock readings of
\* two callers applied out of order (check against check_at) refill the time between
\* them twice, and that is all the limiter can lose.
RateIsBounded ==
    \A k \in Key : spent[k] <= RATE_LIMIT_BURST + clock + skew[k]

\* What a request of k at time t would find.
Available(k, t) == IF k \in Tracked THEN refilled(buckets[k], t) ELSE RATE_LIMIT_BURST

\* A principal that waits as long as Retry-After told it, with no request of the
\* same principal in between, is granted: evictions and the refill cannot make the
\* header a lie (check_at's wait, the rounding in ApiError::into_response).
RetryAfterIsEnough ==
    \A k \in Key : retryAt[k] # Never => Available(k, retryAt[k]) >= TOKEN

\* The principal whose check this step applies.
JustChecked ==
    {check[c].key : c \in {d \in Caller : check[d] # NoCheck /\ check'[d] = NoCheck}}

\* A check of one principal never changes what another finds, now or later: the
\* buckets dropped to make room (check_at's retain) are the ones nobody can tell
\* from new ones.
OthersAreUntouched ==
    [][ \A k \in Key \ JustChecked : \A t \in clock' .. MaxTime :
            Available(k, t)' = Available(k, t) ]_vars
=============================================================================
