------------------------- MODULE RateLimiterProofs -------------------------
(***************************************************************************)
(* The rate limiter's promises for any number of principals and handlers,  *)
(* any burst, price, refill rate and cap, and any time.                    *)
(***************************************************************************)
EXTENDS RateLimiter, TLAPS

Bucket == [tokens : 0 .. RATE_LIMIT_BURST, last : Nat]

\* What a key has left of its budget: a tracked key still has the tokens of its
\* bucket, whose refill is counted up to basis; an untracked key has a full burst.
Budget(k) ==
    /\ basis[k] <= clock
    /\ buckets[k] # NoBucket =>
          /\ buckets[k].last = basis[k]
          /\ spent[k] + buckets[k].tokens <= RATE_LIMIT_BURST + basis[k] + skew[k]
    /\ buckets[k] = NoBucket => spent[k] <= basis[k] + skew[k]

\* No handler holds a reading of the future.
ReadingsArePast == \A c \in Caller : check[c] # NoCheck => check[c].now <= clock

BudgetInv == TypeOK /\ ReadingsArePast /\ \A k \in Key : Budget(k)
-----------------------------------------------------------------------------
(* The arithmetic of a bucket. *)

LEMMA RefillArithmetic ==
  ASSUME NEW b \in Bucket, NEW now \in Nat
  PROVE  /\ refilled(b, now) \in 0 .. RATE_LIMIT_BURST
         /\ refilled(b, now) >= b.tokens
         /\ refilled(b, now) <= b.tokens + Since(now, b.last)
         /\ refilled(b, now) >= RATE_LIMIT_BURST
               => b.tokens + Since(now, b.last) >= RATE_LIMIT_BURST
         /\ Since(now, b.last) + b.last = Greatest(b.last, now)
  BY LimiterAssumption DEF Bucket, refilled, Least, Since, Greatest

\* A bucket only fills with time.
LEMMA RefillIsMonotone ==
  ASSUME NEW b \in Bucket, NEW s \in Nat, NEW t \in Nat, s <= t
  PROVE  refilled(b, s) <= refilled(b, t)
  BY LimiterAssumption DEF Bucket, refilled, Least, Since, Greatest

LEMMA ProductIsNat == ASSUME NEW a \in Nat, NEW b \in Nat PROVE a * b \in Nat
  OBVIOUS

\* Rounding up to a multiple never falls short.
LEMMA RoundedUp ==
  ASSUME NEW d \in Nat, NEW s \in Nat \ {0}
  PROVE  /\ (d + s - 1) \div s \in Int
         /\ ((d + s - 1) \div s) * s >= d
  OBVIOUS

LEMMA RetryAfterCovers ==
  ASSUME NEW tokens \in Nat, tokens < TOKEN
  PROVE  /\ RetryAfter(tokens) \in Nat
         /\ tokens + RetryAfter(tokens) >= TOKEN
<1> DEFINE q == (TOKEN - tokens + SECOND - 1) \div SECOND
<1>1. TOKEN - tokens \in Nat
  BY LimiterAssumption
<1>2. q \in Int /\ q * SECOND >= TOKEN - tokens
  BY <1>1, RoundedUp, LimiterAssumption
<1>3. Greatest(1, q) \in Nat /\ (Greatest(1, q) = q \/ (Greatest(1, q) = 1 /\ q < 1))
  BY <1>2 DEF Greatest
<1>4. CASE Greatest(1, q) = q
  <2>1. RetryAfter(tokens) = q * SECOND /\ q \in Nat
    BY <1>3, <1>4 DEF RetryAfter
  <2> QED
    BY <2>1, <1>2, ProductIsNat, LimiterAssumption
<1>5. CASE Greatest(1, q) = 1 /\ q < 1
  <2>1. RetryAfter(tokens) = SECOND
    BY <1>5, LimiterAssumption DEF RetryAfter
  <2>2. q * SECOND <= 0
    BY <1>2, <1>5, LimiterAssumption
  <2> QED
    BY <2>1, <2>2, <1>2, LimiterAssumption
<1> QED
  BY <1>3, <1>4, <1>5
-----------------------------------------------------------------------------
(* One check of key k with reading now: what happens to every bucket. *)

LEMMA FoundIsABucket ==
  ASSUME TypeOK, NEW k \in Key, NEW now \in Nat
  PROVE  Found(k, now) \in 0 .. RATE_LIMIT_BURST
<1>1. CASE k \in Tracked
  <2>1. buckets[k] \in Bucket
    BY <1>1 DEF TypeOK, Tracked, Bucket
  <2> QED
    BY <1>1, <2>1, RefillArithmetic DEF Found
<1>2. CASE k \notin Tracked
  <2>1. [tokens |-> RATE_LIMIT_BURST, last |-> now] \in Bucket
    BY LimiterAssumption DEF Bucket
  <2> QED
    BY <1>2, <2>1, RefillArithmetic DEF Found
<1> QED
  BY <1>1, <1>2

\* The checked key: what it finds, with what it was granted, is within its budget.
LEMMA FoundIsInBudget ==
  ASSUME TypeOK, NEW k \in Key, Budget(k), NEW now \in Nat
  PROVE  spent[k] + Found(k, now)
            <= RATE_LIMIT_BURST + now + skew[k] + Greatest(0, basis[k] - now)
<1> USE LimiterAssumption
<1>0. spent[k] \in Nat /\ basis[k] \in Nat /\ skew[k] \in Nat
  BY DEF TypeOK
<1>1. CASE k \in Tracked
  <2>1. buckets[k] \in Bucket /\ buckets[k] # NoBucket
    BY <1>1 DEF TypeOK, Tracked, Bucket
  <2>2. Found(k, now) \in Nat /\ Found(k, now) <= buckets[k].tokens + Since(now, basis[k])
    BY <1>1, <2>1, RefillArithmetic DEF Found, Budget
  <2>3. spent[k] + buckets[k].tokens <= RATE_LIMIT_BURST + basis[k] + skew[k]
    BY <2>1 DEF Budget
  <2>4. buckets[k].tokens \in Nat
    BY <2>1 DEF Bucket
  <2> QED
    BY <1>0, <2>2, <2>3, <2>4 DEF Since, Greatest
<1>2. CASE k \notin Tracked
  <2>1. [tokens |-> RATE_LIMIT_BURST, last |-> now] \in Bucket
    BY DEF Bucket
  <2>2. Found(k, now) \in 0 .. RATE_LIMIT_BURST
    BY FoundIsABucket
  <2>3. spent[k] <= basis[k] + skew[k]
    BY <1>2 DEF Budget, Tracked
  <2> QED
    BY <1>0, <2>2, <2>3 DEF Greatest
<1> QED
  BY <1>1, <1>2

\* A dropped key: its bucket was full, so what it has spent was all refilled.
LEMMA DroppedIsInBudget ==
  ASSUME TypeOK, NEW k \in Key, NEW now \in Nat, NEW x \in Tracked \ Kept(k, now), Budget(x)
  PROVE  spent[x] <= Greatest(basis[x], now) + skew[x]
<1>1. x \in Key /\ buckets[x] \in Bucket /\ buckets[x] # NoBucket
  BY DEF TypeOK, Tracked, Bucket
<1>2. ~(refilled(buckets[x], now) < RATE_LIMIT_BURST)
  BY DEF Kept
<1>3. buckets[x].tokens + Since(now, buckets[x].last) >= RATE_LIMIT_BURST
  BY <1>1, <1>2, RefillArithmetic, LimiterAssumption
<1>4. /\ buckets[x].last = basis[x]
      /\ spent[x] + buckets[x].tokens <= RATE_LIMIT_BURST + basis[x] + skew[x]
  BY <1>1 DEF Budget
<1>5. /\ spent[x] \in Nat /\ basis[x] \in Nat /\ skew[x] \in Nat
      /\ buckets[x].tokens \in Nat
  BY <1>1 DEF TypeOK, Bucket
<1> QED
  BY <1>3, <1>4, <1>5, LimiterAssumption DEF Since, Greatest
-----------------------------------------------------------------------------
(* Every step keeps the budget. *)

\* A check leaves the types, the budgets and the readings as they should be.
LEMMA CheckKeepsBudget ==
  ASSUME BudgetInv, NEW c \in Caller, CheckAt(c)
  PROVE  BudgetInv'
<1> USE LimiterAssumption
<1> DEFINE k == check[c].key
           now == check[c].now
           tokens == Found(k, now)
           ok == tokens >= TOKEN
           left == IF ok THEN tokens - TOKEN ELSE tokens
<1>1. /\ k \in Key /\ now \in Nat /\ now <= clock
      /\ TypeOK /\ \A x \in Key : Budget(x)
  BY DEF BudgetInv, ReadingsArePast, CheckAt, TypeOK
<1>2. tokens \in 0 .. RATE_LIMIT_BURST /\ left \in 0 .. RATE_LIMIT_BURST
  BY <1>1, FoundIsABucket
<1>3. [tokens |-> left, last |-> now] \in Bucket /\ [tokens |-> left, last |-> now] # NoBucket
  BY <1>1, <1>2, NoneAssumption DEF Bucket
<1>4. /\ clock' = clock
      /\ check' = [check EXCEPT ![c] = NoCheck]
      /\ buckets' = [x \in Key |->
                        IF x = k THEN [tokens |-> left, last |-> now]
                        ELSE IF x \in Kept(k, now) THEN buckets[x] ELSE NoBucket]
      /\ spent' = [spent EXCEPT ![k] = @ + IF ok THEN TOKEN ELSE 0]
      /\ retryAt' = [retryAt EXCEPT ![k] = IF ok THEN Never ELSE now + RetryAfter(tokens)]
      /\ basis' = [x \in Key |->
                      IF x = k THEN now
                      ELSE IF x \in Tracked \ Kept(k, now) THEN Greatest(basis[x], now)
                      ELSE basis[x]]
      /\ skew' = [skew EXCEPT ![k] = @ + Greatest(0, basis[k] - now)]
  BY DEF CheckAt, Applied
<1> HIDE DEF k, now, left
<1>5. TypeOK'
  <2>1. clock' \in Nat /\ check' \in [Caller -> [key : Key, now : Nat] \cup {NoCheck}]
    BY <1>1, <1>4 DEF TypeOK
  <2>2. buckets' \in [Key -> Bucket \cup {NoBucket}]
    BY <1>1, <1>3, <1>4 DEF TypeOK, Bucket
  <2>3. spent' \in [Key -> Nat]
    BY <1>1, <1>4 DEF TypeOK
  <2>4. basis' \in [Key -> Nat]
    BY <1>1, <1>4 DEF TypeOK, Greatest
  <2>5. skew' \in [Key -> Nat]
    BY <1>1, <1>4 DEF TypeOK, Greatest
  <2>6. retryAt' \in [Key -> Nat \cup {Never}]
    <3>1. ~ok => now + RetryAfter(tokens) \in Nat
      BY <1>1, <1>2, RetryAfterCovers
    <3> QED
      BY <1>1, <1>4, <3>1 DEF TypeOK
  <2> QED
    BY <2>1, <2>2, <2>3, <2>4, <2>5, <2>6 DEF TypeOK, Bucket
<1>6. ReadingsArePast'
  BY <1>1, <1>4 DEF ReadingsArePast, BudgetInv, TypeOK
<1>7. ASSUME NEW x \in Key PROVE Budget(x)'
  <2>0. /\ spent[x] \in Nat /\ basis[x] \in Nat /\ skew[x] \in Nat /\ clock \in Nat
        /\ basis[x] <= clock
    BY <1>1 DEF TypeOK, Budget
  <2>1. CASE x = k
    <3>1. /\ buckets'[x] = [tokens |-> left, last |-> now]
          /\ basis'[x] = now
          /\ spent'[x] + left = spent[x] + tokens
          /\ skew'[x] = skew[x] + Greatest(0, basis[x] - now)
      BY <1>1, <1>2, <1>4, <2>0, <2>1 DEF TypeOK, left
    <3>2. spent[x] + tokens <= RATE_LIMIT_BURST + now + skew[x] + Greatest(0, basis[x] - now)
      BY <1>1, <2>1, FoundIsInBudget
    <3>3. spent'[x] + left <= RATE_LIMIT_BURST + basis'[x] + skew'[x]
      BY <1>1, <2>0, <3>1, <3>2 DEF Greatest
    <3> QED
      BY <1>1, <1>3, <1>4, <3>1, <3>3 DEF Budget
  <2>2. CASE x # k /\ x \in Tracked \ Kept(k, now)
    <3>1. /\ buckets'[x] = NoBucket /\ basis'[x] = Greatest(basis[x], now)
          /\ spent'[x] = spent[x] /\ skew'[x] = skew[x]
      BY <1>1, <1>4, <2>2 DEF TypeOK
    <3>2. spent[x] <= Greatest(basis[x], now) + skew[x]
      BY <1>1, <2>2, DroppedIsInBudget
    <3> QED
      BY <1>1, <1>4, <2>0, <3>1, <3>2 DEF Budget, Greatest
  <2>3. CASE x # k /\ x \notin Tracked \ Kept(k, now)
    <3>1. Kept(k, now) \subseteq Tracked
      BY DEF Kept
    <3>2. /\ buckets'[x] = buckets[x] /\ basis'[x] = basis[x]
          /\ spent'[x] = spent[x] /\ skew'[x] = skew[x]
      BY <1>1, <1>4, <2>3, <3>1 DEF TypeOK, Tracked
    <3> QED
      BY <1>1, <1>4, <3>2 DEF Budget
  <2> QED
    BY <2>1, <2>2, <2>3
<1> QED
  BY <1>5, <1>6, <1>7 DEF BudgetInv

LEMMA StepKeepsBudget ==
  ASSUME BudgetInv, [Next]_vars
  PROVE  BudgetInv'
<1>1. CASE Tick
  BY <1>1 DEF BudgetInv, TypeOK, ReadingsArePast, Budget, Tick, history
<1>2. ASSUME NEW c \in Caller, NEW k \in Key, ReadClock(c, k) PROVE BudgetInv'
  <2>1. TypeOK'
    BY <1>2 DEF BudgetInv, TypeOK, ReadClock, history
  <2>2. ReadingsArePast'
    BY <1>2 DEF BudgetInv, TypeOK, ReadingsArePast, ReadClock, history
  <2>3. \A x \in Key : Budget(x)'
    BY <1>2 DEF BudgetInv, Budget, ReadClock, history
  <2> QED
    BY <2>1, <2>2, <2>3 DEF BudgetInv
<1>3. ASSUME NEW c \in Caller, CheckAt(c) PROVE BudgetInv'
  BY <1>3, CheckKeepsBudget
<1>4. CASE UNCHANGED vars
  BY <1>4 DEF BudgetInv, TypeOK, ReadingsArePast, Budget, vars, history
<1> QED
  BY <1>1, <1>2, <1>3, <1>4 DEF Next

\* The invariant behind the bound: no key has spent more than its budget.
THEOREM BudgetInvariant == Spec => []BudgetInv
<1>1. Init => BudgetInv
  BY LimiterAssumption DEF Init, BudgetInv, TypeOK, ReadingsArePast, Budget
<1>2. BudgetInv /\ [Next]_vars => BudgetInv'
  BY StepKeepsBudget
<1> QED
  BY <1>1, <1>2, PTL DEF Spec

\* A bucket never holds more than the burst nor less than nothing, and every reading
\* is a time: an earlier reading is never taken for negative time (check_at).
THEOREM LimiterTypeCorrect == Spec => []TypeOK
  BY BudgetInvariant, PTL DEF BudgetInv

\* The limiter's bound: a principal is granted no more than the burst, what refilled
\* since the start, and what readings applied out of order count twice (check_at).
THEOREM RateBound == Spec => []RateIsBounded
<1>1. BudgetInv => RateIsBounded
  <2> SUFFICES ASSUME BudgetInv, NEW k \in Key
               PROVE  spent[k] <= RATE_LIMIT_BURST + clock + skew[k]
    BY DEF RateIsBounded
  <2>1. /\ spent[k] \in Nat /\ basis[k] \in Nat /\ skew[k] \in Nat /\ clock \in Nat
        /\ basis[k] <= clock
        /\ buckets[k] # NoBucket => buckets[k] \in Bucket
    BY DEF BudgetInv, TypeOK, Budget, Bucket
  <2>2. CASE buckets[k] # NoBucket
    BY <2>1, <2>2, LimiterAssumption DEF BudgetInv, Budget, Bucket
  <2>3. CASE buckets[k] = NoBucket
    BY <2>1, <2>3, LimiterAssumption DEF BudgetInv, Budget
  <2> QED
    BY <2>2, <2>3
<1> QED
  BY <1>1, BudgetInvariant, PTL
-----------------------------------------------------------------------------
(* What a check does to the others, and what it promises the refused. *)

\* What is left to a key that is not the one checked: its bucket as it was, or no
\* bucket where there was a full one.
LEMMA OthersAfterCheck ==
  ASSUME BudgetInv, NEW c \in Caller, CheckAt(c), NEW x \in Key, x # check[c].key
  PROVE  \/ buckets'[x] = buckets[x]
         \/ /\ buckets'[x] = NoBucket
            /\ buckets[x] \in Bucket
            /\ \A t \in Nat : t >= clock => refilled(buckets[x], t) = RATE_LIMIT_BURST
<1> DEFINE k == check[c].key
           now == check[c].now
<1>1. k \in Key /\ now \in Nat /\ now <= clock /\ clock \in Nat
  BY DEF BudgetInv, ReadingsArePast, CheckAt, TypeOK
<1>2. buckets'[x] = IF x \in Kept(k, now) THEN buckets[x] ELSE NoBucket
  BY DEF CheckAt
<1>3. CASE x \in Kept(k, now) \/ x \notin Tracked
  BY <1>2, <1>3 DEF Kept, Tracked
<1>4. CASE x \in Tracked \ Kept(k, now)
  <2>1. buckets[x] \in Bucket
    BY <1>4 DEF BudgetInv, TypeOK, Tracked, Bucket
  <2>2. ~(refilled(buckets[x], now) < RATE_LIMIT_BURST)
    BY <1>4 DEF Kept
  <2>3. ASSUME NEW t \in Nat, t >= clock
        PROVE  refilled(buckets[x], t) = RATE_LIMIT_BURST
    <3>1. now <= t
      BY <1>1, <2>3
    <3>2. refilled(buckets[x], now) <= refilled(buckets[x], t)
      BY <1>1, <2>1, <3>1, RefillIsMonotone
    <3>3. /\ refilled(buckets[x], t) \in 0 .. RATE_LIMIT_BURST
          /\ refilled(buckets[x], now) \in 0 .. RATE_LIMIT_BURST
      BY <1>1, <2>1, RefillArithmetic
    <3> QED
      BY <2>2, <3>2, <3>3, LimiterAssumption
  <2> QED
    BY <1>2, <1>4, <2>1, <2>3
<1> QED
  BY <1>3, <1>4

\* At the cap, making room for one principal takes nothing from another: the dropped
\* buckets were full, at every time from now on (check_at's retain).
THEOREM OthersKeepTheirTokens == Spec => OthersAreUntouched
<1> DEFINE Untouched == \A k \in Key \ JustChecked : \A t \in clock' .. MaxTime :
                            Available(k, t)' = Available(k, t)
<1>1. BudgetInv /\ [Next]_vars => [Untouched]_vars
  <2> SUFFICES ASSUME BudgetInv, Next,
                      NEW k \in Key \ JustChecked, NEW t \in clock' .. MaxTime
               PROVE  Available(k, t)' = Available(k, t)
    BY DEF Untouched
  <2>1. CASE buckets'[k] = buckets[k]
    BY <2>1 DEF Available, Tracked, refilled, Since, Greatest, Least
  <2>2. ASSUME NEW c \in Caller, CheckAt(c) PROVE Available(k, t)' = Available(k, t)
    <3>1. check[c] # NoCheck /\ check'[c] = NoCheck /\ clock' = clock /\ clock \in Nat
      BY <2>2 DEF CheckAt, BudgetInv, TypeOK
    <3>2. k # check[c].key
      BY <3>1 DEF JustChecked
    <3>3. t \in Nat /\ t >= clock
      BY <3>1, LimiterAssumption
    <3>4. CASE /\ buckets'[k] = NoBucket
               /\ buckets[k] \in Bucket
               /\ refilled(buckets[k], t) = RATE_LIMIT_BURST
      BY <3>4 DEF Available, Tracked
    <3> QED
      BY <2>1, <2>2, <3>2, <3>3, <3>4, OthersAfterCheck
  <2>3. CASE Tick
    BY <2>1, <2>3 DEF Tick
  <2>4. ASSUME NEW c \in Caller, NEW x \in Key, ReadClock(c, x)
        PROVE  Available(k, t)' = Available(k, t)
    BY <2>1, <2>4 DEF ReadClock
  <2> QED
    BY <2>2, <2>3, <2>4 DEF Next
<1> QED
  BY <1>1, BudgetInvariant, PTL DEF Spec, OthersAreUntouched

\* A refused principal that waits out its Retry-After finds a token, whoever else is
\* checked or dropped in between (check_at, the rounding in into_response).
THEOREM RetryAfterSuffices == Spec => []RetryAfterIsEnough
<1>1. Init => RetryAfterIsEnough
  BY DEF Init, RetryAfterIsEnough
<1>2. BudgetInv /\ BudgetInv' /\ RetryAfterIsEnough /\ [Next]_vars => RetryAfterIsEnough'
  <2> SUFFICES ASSUME BudgetInv, BudgetInv', RetryAfterIsEnough, [Next]_vars,
                      NEW k \in Key, retryAt'[k] # Never
               PROVE  Available(k, retryAt[k])' >= TOKEN
    BY DEF RetryAfterIsEnough
  <2> USE LimiterAssumption
  <2>1. CASE buckets'[k] = buckets[k] /\ retryAt'[k] = retryAt[k]
    <3>1. Available(k, retryAt[k]) >= TOKEN
      BY <2>1 DEF RetryAfterIsEnough
    <3> QED
      BY <2>1, <3>1 DEF Available, Tracked, refilled, Since, Greatest, Least
  <2>2. ASSUME NEW c \in Caller, CheckAt(c) PROVE Available(k, retryAt[k])' >= TOKEN
    <3>1. CASE k = check[c].key
      <4> DEFINE now == check[c].now
                 tokens == Found(k, now)
      <4>1. now \in Nat /\ tokens \in 0 .. RATE_LIMIT_BURST
        BY <2>2, <3>1, FoundIsABucket DEF BudgetInv, TypeOK, CheckAt
      <4>2. ~(tokens >= TOKEN) /\ retryAt'[k] = now + RetryAfter(tokens)
        BY <2>2, <3>1 DEF CheckAt, BudgetInv, TypeOK
      <4>3. buckets'[k] = [tokens |-> tokens, last |-> now]
        BY <2>2, <3>1, <4>2 DEF CheckAt
      <4> HIDE DEF now, tokens
      <4>4. RetryAfter(tokens) \in Nat /\ tokens + RetryAfter(tokens) >= TOKEN
        BY <4>1, <4>2, RetryAfterCovers
      <4>5. buckets'[k] # NoBucket
        BY <4>1, <4>3, NoneAssumption
      <4> QED
        BY <4>1, <4>2, <4>3, <4>4, <4>5
        DEF Available, Tracked, refilled, Since, Greatest, Least
    <3>2. CASE k # check[c].key
      <4>1. retryAt'[k] = retryAt[k]
        BY <2>2, <3>2 DEF CheckAt, BudgetInv, TypeOK
      <4>2. CASE buckets'[k] = NoBucket
        BY <4>2 DEF Available, Tracked
      <4> QED
        BY <2>1, <2>2, <3>2, <4>1, <4>2, OthersAfterCheck
    <3> QED
      BY <3>1, <3>2
  <2>3. CASE Tick \/ UNCHANGED vars
    BY <2>1, <2>3 DEF Tick, vars, history
  <2>4. ASSUME NEW c \in Caller, NEW x \in Key, ReadClock(c, x)
        PROVE  Available(k, retryAt[k])' >= TOKEN
    BY <2>1, <2>4 DEF ReadClock, history
  <2> QED
    BY <2>2, <2>3, <2>4 DEF Next
<1> QED
  BY <1>1, <1>2, BudgetInvariant, PTL DEF Spec
=============================================================================
