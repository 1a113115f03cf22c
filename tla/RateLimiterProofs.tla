------------------------- MODULE RateLimiterProofs -------------------------
(***************************************************************************)
(* The limits that rateLimiter of server/main.go keeps, for every rate,    *)
(* size of the bucket and resolution of the clock.                         *)
(***************************************************************************)
EXTENDS RateLimiter, TLAPS

-----------------------------------------------------------------------------
\* The inductive invariant.

\* What is in the bucket and what was taken out of it since the i-th allowed
\* command is no more than a full bucket and what came in since.
BucketBounds ==
    \A i \in 1..Len(allowed) :
        tokens + Cost(Len(allowed) - i + 1) <= Cost(Burst) + Earned(lastFill - allowed[i])

\* The bucket is full, or it was full when some allowed command came and
\* nothing ran over since.
BucketExact ==
    \/ allowed = <<>> /\ tokens = Cost(Burst)
    \/ \E i \in 1..Len(allowed) :
          tokens + Cost(Len(allowed) - i + 1) = Cost(Burst) + Earned(lastFill - allowed[i])

NotedLater == \A i \in 1..Len(allowed) : allowed[i] <= lastFill

Inductive == TypeOK /\ NotedLater /\ BucketBounds /\ BucketExact /\ WithinRate

-----------------------------------------------------------------------------
\* Arithmetic of parts.

\* Every command costs the same.
LEMMA CostIsLinear ==
    /\ \A n \in Int : Cost(n) \in Int /\ Cost(n + 1) = Cost(n) + Second
    /\ \A n \in Nat : Cost(n) \in Nat
    /\ Cost(1) = Second
    /\ Cost(Burst) >= Second
<1>1. \A n \in Int : Cost(n) \in Int /\ Cost(n + 1) = Cost(n) + Second
    BY RateLimiterAssumption DEF Cost
<1>2. \A n \in Nat : Cost(n) \in Nat
    BY RateLimiterAssumption DEF Cost
<1>3. Cost(1) = Second
    BY RateLimiterAssumption DEF Cost
<1>4. Cost(Burst) >= Second
    <2>1. Burst - 1 \in Nat
        BY RateLimiterAssumption
    <2>2. Cost(Burst - 1) \in Nat /\ Cost((Burst - 1) + 1) = Cost(Burst - 1) + Second
        BY <1>1, <1>2, <2>1
    <2>3. (Burst - 1) + 1 = Burst
        BY RateLimiterAssumption
    <2> QED BY <2>2, <2>3, RateLimiterAssumption
<1> QED BY <1>1, <1>2, <1>3, <1>4

\* Tokens are earned in proportion to time.
LEMMA EarnedIsLinear ==
    /\ \A t \in Nat : Earned(t) \in Nat
    /\ Earned(0) = 0
    /\ \A s, t \in Nat : Earned(s + t) = Earned(s) + Earned(t)
BY RateLimiterAssumption DEF Earned

\* Filling the bucket adds at most what was earned, and less only if it then
\* is full.
LEMMA FillsUp ==
    ASSUME TypeOK
    PROVE  /\ Filled \in 0..Cost(Burst)
           /\ Filled <= tokens + Earned(now - lastFill)
           /\ Filled = tokens + Earned(now - lastFill) \/ Filled = Cost(Burst)
<1>1. now - lastFill \in Nat /\ tokens \in 0..Cost(Burst)
    BY DEF TypeOK
<1>2. Earned(now - lastFill) \in Nat /\ Earned(0) = 0
    BY <1>1, EarnedIsLinear
<1>3. Cost(Burst) \in Nat
    BY CostIsLinear, RateLimiterAssumption
<1>4. CASE now = lastFill
    <2>1. Filled = tokens /\ now - lastFill = 0
        BY <1>1, <1>4 DEF Filled, TypeOK
    <2> QED BY <1>1, <1>2, <1>3, <2>1
<1>5. CASE now # lastFill
    <2> DEFINE sum == tokens + Earned(now - lastFill)
    <2>1. Filled = IF sum < Cost(Burst) THEN sum ELSE Cost(Burst)
        BY <1>5 DEF Filled
    <2>2. sum \in Nat
        BY <1>1, <1>2, <1>3
    <2> QED BY <1>1, <1>2, <1>3, <2>1, <2>2
<1> QED BY <1>4, <1>5

\* Adding up accounts: c was taken out, e came in before the bucket was last
\* filled and d since, f is in it now.
LEMMA AccountsAddUp ==
    ASSUME NEW full \in Nat, NEW held \in Nat, NEW f \in Nat,
           NEW c \in Nat, NEW d \in Nat, NEW e \in Nat
    PROVE  /\ held + c <= full + e /\ f <= held + d => f + c <= full + (e + d)
           /\ held + c = full + e /\ f = held + d => f + c = full + (e + d)
OBVIOUS

-----------------------------------------------------------------------------
\* Steps.

\* The invariant holds at the start.
LEMMA InitIsInductive == Init => Inductive
<1> SUFFICES ASSUME Init PROVE Inductive OBVIOUS
<1>1. TypeOK
    BY RateLimiterAssumption, CostIsLinear DEF Init, TypeOK
<1>2. NotedLater /\ BucketBounds /\ BucketExact /\ WithinRate
    BY DEF Init, NotedLater, BucketBounds, BucketExact, WithinRate
<1> QED BY <1>1, <1>2 DEF Inductive

\* Time passes.
LEMMA TickIsInductive == Inductive /\ Tick => Inductive'
<1> SUFFICES ASSUME Inductive, Tick PROVE Inductive' OBVIOUS
<1>1. TypeOK'
    <2>1. now' \in 0..MaxTime /\ lastFill' \in 0..now' /\ tokens' \in 0..Cost(Burst)
        BY RateLimiterAssumption DEF Inductive, TypeOK, Tick
    <2>2. 0..now \subseteq 0..now'
        BY RateLimiterAssumption DEF Inductive, TypeOK, Tick
    <2>3. allowed' \in Seq(0..now')
        BY <2>2 DEF Inductive, TypeOK, Tick
    <2> QED BY <2>1, <2>3 DEF TypeOK
<1>2. NotedLater' /\ BucketBounds' /\ BucketExact' /\ WithinRate'
    BY DEF Inductive, Tick, NotedLater, BucketBounds, BucketExact, WithinRate
<1> QED BY <1>1, <1>2 DEF Inductive

\* What filling the bucket now does to the account of an earlier command.
LEMMA AccountAfterFilling ==
    ASSUME Inductive, NEW i \in 1..Len(allowed)
    PROVE  /\ Earned(now - allowed[i]) = Earned(lastFill - allowed[i]) + Earned(now - lastFill)
           /\ Earned(lastFill - allowed[i]) \in Nat
           /\ Earned(now - lastFill) \in Nat
           /\ allowed[i] \in Nat /\ allowed[i] <= now
           /\ Filled + Cost(Len(allowed) - i + 1) <= Cost(Burst) + Earned(now - allowed[i])
           /\ Cost(Len(allowed) - i + 1) \in Nat
<1>1. now \in Nat /\ lastFill \in Nat /\ lastFill <= now /\ tokens \in Nat
    BY RateLimiterAssumption, CostIsLinear DEF Inductive, TypeOK
<1>2. allowed[i] \in Nat /\ allowed[i] <= lastFill
    BY <1>1 DEF Inductive, TypeOK, NotedLater
<1>3. lastFill - allowed[i] \in Nat /\ now - lastFill \in Nat
      /\ now - allowed[i] = (lastFill - allowed[i]) + (now - lastFill)
    BY <1>1, <1>2
<1>4. Earned(now - allowed[i]) = Earned(lastFill - allowed[i]) + Earned(now - lastFill)
    BY <1>3, EarnedIsLinear
<1>5. Earned(lastFill - allowed[i]) \in Nat /\ Earned(now - lastFill) \in Nat
    BY <1>3, EarnedIsLinear
<1>6. Len(allowed) - i + 1 \in Nat
    BY DEF Inductive, TypeOK
<1>7. Cost(Len(allowed) - i + 1) \in Nat
    BY <1>6, CostIsLinear
<1>8. Cost(Burst) \in Nat
    BY RateLimiterAssumption, CostIsLinear
<1>9. tokens + Cost(Len(allowed) - i + 1) <= Cost(Burst) + Earned(lastFill - allowed[i])
    BY DEF Inductive, BucketBounds
<1>10. Filled <= tokens + Earned(now - lastFill) /\ Filled \in Nat
    BY FillsUp, <1>8 DEF Inductive
<1>11. Filled + Cost(Len(allowed) - i + 1)
          <= Cost(Burst) + (Earned(lastFill - allowed[i]) + Earned(now - lastFill))
    BY <1>1, <1>5, <1>7, <1>8, <1>9, <1>10, AccountsAddUp
<1>12. allowed[i] <= now
    BY <1>1, <1>2
<1> QED BY <1>2, <1>4, <1>5, <1>7, <1>11, <1>12

\* A command is allowed, and paid for.
LEMMA AllowIsInductive == Inductive /\ Allow => Inductive'
<1> SUFFICES ASSUME Inductive, Allow PROVE Inductive' OBVIOUS
<1> DEFINE n == Len(allowed)
<1>1. /\ n \in Nat /\ Len(allowed') = n + 1
      /\ allowed'[n + 1] = now
      /\ \A i \in 1..n : allowed'[i] = allowed[i]
      /\ now \in Nat /\ lastFill' = now /\ now' = now
    BY RateLimiterAssumption DEF Inductive, TypeOK, Allow
<1>2. Filled \in 0..Cost(Burst) /\ Filled >= Second /\ tokens' = Filled - Second
    BY FillsUp DEF Inductive, Allow
<1>3. Cost(Burst) \in Nat /\ Second \in Nat /\ Cost(1) = Second /\ Earned(0) = 0
    BY RateLimiterAssumption, CostIsLinear, EarnedIsLinear
<1>4. \A i \in 1..n : Cost((n + 1) - i + 1) = Cost(n - i + 1) + Second
    <2> TAKE i \in 1..n
    <2>1. (n + 1) - i + 1 = (n - i + 1) + 1 /\ n - i + 1 \in Int
        BY <1>1
    <2> QED BY <2>1, CostIsLinear
<1>5. TypeOK'
    <2>1. allowed' \in Seq(0..now')
        BY <1>1 DEF Inductive, TypeOK, Allow
    <2>2. tokens' \in 0..Cost(Burst)
        BY <1>2, <1>3
    <2> QED BY <1>1, <2>1, <2>2 DEF Inductive, TypeOK
<1>6. NotedLater'
    <2>1. \A i \in 1..n : allowed[i] <= now
        BY AccountAfterFilling
    <2> QED BY <1>1, <2>1 DEF NotedLater
<1>7. BucketBounds'
    <2> SUFFICES ASSUME NEW i \in 1..(n + 1)
                 PROVE  tokens' + Cost((n + 1) - i + 1) <= Cost(Burst) + Earned(now - allowed'[i])
        BY <1>1 DEF BucketBounds
    <2>1. CASE i = n + 1
        <3>1. (n + 1) - i + 1 = 1 /\ now - allowed'[i] = 0
            BY <1>1, <2>1
        <3> QED BY <1>2, <1>3, <3>1
    <2>2. CASE i \in 1..n
        <3>1. /\ Filled + Cost(n - i + 1) <= Cost(Burst) + Earned(now - allowed[i])
              /\ Cost(n - i + 1) \in Nat
            BY <2>2, AccountAfterFilling
        <3>2. Cost((n + 1) - i + 1) = Cost(n - i + 1) + Second /\ allowed'[i] = allowed[i]
            BY <1>1, <1>4, <2>2
        <3>3. now - allowed[i] \in Nat
            BY <1>1, <2>2, AccountAfterFilling
        <3>4. Earned(now - allowed[i]) \in Nat
            BY <3>3, EarnedIsLinear
        <3> QED BY <1>2, <1>3, <3>1, <3>2, <3>4
    <2> QED BY <1>1, <2>1, <2>2
<1>8. BucketExact'
    <2>1. CASE Filled = Cost(Burst)
        <3>1. (n + 1) - (n + 1) + 1 = 1 /\ now - allowed'[n + 1] = 0
            BY <1>1
        <3>2. tokens' + Cost((n + 1) - (n + 1) + 1) = Cost(Burst) + Earned(now - allowed'[n + 1])
            BY <1>2, <1>3, <2>1, <3>1
        <3> QED BY <1>1, <3>2 DEF BucketExact
    <2>2. CASE Filled # Cost(Burst)
        <3>1. Filled = tokens + Earned(now - lastFill)
            BY <2>2, FillsUp DEF Inductive
        <3>2. tokens # Cost(Burst)
            <4>1. now - lastFill \in Nat
                BY DEF Inductive, TypeOK
            <4>2. Earned(now - lastFill) \in Nat
                BY <4>1, EarnedIsLinear
            <4> QED BY <1>2, <1>3, <2>2, <3>1, <4>2
        <3>3. PICK i \in 1..n : tokens + Cost(n - i + 1) = Cost(Burst) + Earned(lastFill - allowed[i])
            BY <3>2 DEF Inductive, BucketExact
        <3>4. /\ Earned(now - allowed[i]) = Earned(lastFill - allowed[i]) + Earned(now - lastFill)
              /\ Earned(lastFill - allowed[i]) \in Nat /\ Earned(now - lastFill) \in Nat
              /\ Cost(n - i + 1) \in Nat
            BY AccountAfterFilling
        <3>5. tokens \in Nat
            BY <1>3 DEF Inductive, TypeOK
        <3>6. Cost((n + 1) - i + 1) = Cost(n - i + 1) + Second
            BY <1>4
        <3>7. Filled + Cost(n - i + 1) = Cost(Burst) + Earned(now - allowed[i])
            <4> DEFINE c == Cost(n - i + 1)
                       d == Earned(now - lastFill)
                       e == Earned(lastFill - allowed[i])
            <4>1. c \in Nat /\ d \in Nat /\ e \in Nat /\ Filled \in Nat
                BY <1>2, <1>3, <3>4
            <4>2. tokens + c = Cost(Burst) + e /\ Filled = tokens + d
                BY <3>1, <3>3
            <4>3. Filled + c = Cost(Burst) + (e + d)
                <5> HIDE DEF c, d, e
                <5> QED BY <1>3, <3>5, <4>1, <4>2, AccountsAddUp
            <4> QED BY <3>4, <4>3
        <3>8. tokens' + Cost((n + 1) - i + 1) = Filled + Cost(n - i + 1)
            BY <1>2, <1>3, <3>4, <3>6
        <3> QED BY <1>1, <3>7, <3>8 DEF BucketExact
    <2> QED BY <2>1, <2>2
<1>9. WithinRate'
    <2> SUFFICES ASSUME NEW i \in 1..(n + 1), NEW j \in 1..(n + 1), i <= j
                 PROVE  Cost(j - i + 1) <= Cost(Burst) + Earned(allowed'[j] - allowed'[i])
        BY <1>1 DEF WithinRate
    <2>1. CASE j = n + 1
        <3>1. tokens' + Cost((n + 1) - i + 1) <= Cost(Burst) + Earned(now - allowed'[i])
            BY <1>1, <1>7 DEF BucketBounds
        <3>2. tokens' \in Nat
            BY <1>2, <1>3
        <3>3. (n + 1) - i + 1 \in Nat
            BY <1>1
        <3>4. Cost((n + 1) - i + 1) \in Nat
            BY <3>3, CostIsLinear
        <3>5. now - allowed'[i] \in Nat
            <4>1. CASE i = n + 1 BY <1>1, <4>1
            <4>2. CASE i \in 1..n
                <5>1. allowed[i] \in Nat /\ allowed[i] <= now
                    BY <4>2, AccountAfterFilling
                <5>2. allowed'[i] = allowed[i]
                    BY <1>1, <4>2
                <5> QED BY <1>1, <5>1, <5>2
            <4> QED BY <1>1, <4>1, <4>2
        <3>6. Earned(now - allowed'[i]) \in Nat
            BY <3>5, EarnedIsLinear
        <3> QED BY <1>1, <1>3, <2>1, <3>1, <3>2, <3>4, <3>6
    <2>2. CASE j \in 1..n
        <3>1. i \in 1..n
            BY <1>1, <2>2
        <3> QED BY <1>1, <2>2, <3>1 DEF Inductive, WithinRate
    <2> QED BY <1>1, <2>1, <2>2
<1> QED BY <1>5, <1>6, <1>7, <1>8, <1>9 DEF Inductive

\* A refusal leaves nothing but the bucket, filled, and less than full.
LEMMA RefuseIsShort ==
    ASSUME Inductive, Refuse
    PROVE  \E i \in 1..Len(allowed) :
               tokens' + Cost(Len(allowed) - i + 1) = Cost(Burst) + Earned(now - allowed[i])
<1>1. Cost(Burst) \in Nat /\ Cost(Burst) >= Second /\ Second \in Nat
    BY RateLimiterAssumption, CostIsLinear
<1>2. Filled < Second /\ tokens' = Filled /\ Filled # Cost(Burst)
    BY <1>1, FillsUp DEF Inductive, Refuse
<1>3. Filled = tokens + Earned(now - lastFill)
    BY <1>2, FillsUp DEF Inductive
<1>4. tokens \in Nat /\ now - lastFill \in Nat
    BY <1>1 DEF Inductive, TypeOK
<1>5. Earned(now - lastFill) \in Nat
    BY <1>4, EarnedIsLinear
<1>6. tokens # Cost(Burst)
    BY <1>1, <1>2, <1>3, <1>4, <1>5
<1>7. PICK i \in 1..Len(allowed) :
          tokens + Cost(Len(allowed) - i + 1) = Cost(Burst) + Earned(lastFill - allowed[i])
    BY <1>6 DEF Inductive, BucketExact
<1>8. /\ Earned(now - allowed[i]) = Earned(lastFill - allowed[i]) + Earned(now - lastFill)
      /\ Earned(lastFill - allowed[i]) \in Nat
      /\ Cost(Len(allowed) - i + 1) \in Nat
    BY AccountAfterFilling
<1>9. Filled \in Nat
    BY <1>3, <1>4, <1>5
<1>10. Filled + Cost(Len(allowed) - i + 1)
          = Cost(Burst) + (Earned(lastFill - allowed[i]) + Earned(now - lastFill))
    <2> DEFINE c == Cost(Len(allowed) - i + 1)
               d == Earned(now - lastFill)
               e == Earned(lastFill - allowed[i])
    <2>1. c \in Nat /\ d \in Nat /\ e \in Nat
        BY <1>5, <1>8
    <2>2. tokens + c = Cost(Burst) + e /\ Filled = tokens + d
        BY <1>3, <1>7
    <2>3. Filled + c = Cost(Burst) + (e + d)
        <3> HIDE DEF c, d, e
        <3> QED BY <1>1, <1>4, <1>9, <2>1, <2>2, AccountsAddUp
    <2> QED BY <2>3
<1> QED BY <1>2, <1>8, <1>10

\* A command is refused, and costs nothing.
LEMMA RefuseIsInductive == Inductive /\ Refuse => Inductive'
<1> SUFFICES ASSUME Inductive, Refuse PROVE Inductive' OBVIOUS
<1>1. /\ lastFill' = now /\ now' = now /\ allowed' = allowed /\ tokens' = Filled
      /\ now \in Nat /\ Filled \in 0..Cost(Burst)
    BY RateLimiterAssumption, FillsUp DEF Inductive, TypeOK, Refuse
<1>2. TypeOK'
    BY <1>1 DEF Inductive, TypeOK
<1>3. NotedLater' /\ BucketBounds'
    BY <1>1, AccountAfterFilling DEF NotedLater, BucketBounds
<1>4. BucketExact'
    BY <1>1, RefuseIsShort DEF BucketExact
<1>5. WithinRate'
    BY <1>1 DEF Inductive, WithinRate
<1> QED BY <1>2, <1>3, <1>4, <1>5 DEF Inductive

\* The invariant holds for every limiter.
LEMMA BucketInvariant == Spec => []Inductive
<1>1. Inductive /\ [Next]_vars => Inductive'
    <2> SUFFICES ASSUME Inductive, [Next]_vars PROVE Inductive' OBVIOUS
    <2>1. CASE Tick BY <2>1, TickIsInductive
    <2>2. CASE Allow BY <2>2, AllowIsInductive
    <2>3. CASE Refuse BY <2>3, RefuseIsInductive
    <2>4. CASE UNCHANGED vars
        BY <2>4 DEF vars, Inductive, TypeOK, NotedLater, BucketBounds, BucketExact, WithinRate
    <2> QED BY <2>1, <2>2, <2>3, <2>4 DEF Next
<1> QED BY InitIsInductive, <1>1, PTL DEF Spec

-----------------------------------------------------------------------------
\* Between any two commands that allow let through there were never more than
\* the burst and what the rate brings in the time between them.
THEOREM RateIsKept == Spec => []WithinRate
<1>1. Inductive => WithinRate BY DEF Inductive
<1> QED BY <1>1, BucketInvariant, PTL

\* allow refuses a command only to a client that was too fast.
THEOREM OnlyFastIsRefused == Spec => RefusedWhenFast
<1> DEFINE Fast == Refuse => \E i \in 1..Len(allowed) :
        Cost(Len(allowed) - i + 2) > Cost(Burst) + Earned(now - allowed[i])
<1>1. Inductive => Fast
    <2> SUFFICES ASSUME Inductive, Refuse
                 PROVE  \E i \in 1..Len(allowed) :
                            Cost(Len(allowed) - i + 2) > Cost(Burst) + Earned(now - allowed[i])
        OBVIOUS
    <2>1. PICK i \in 1..Len(allowed) :
              tokens' + Cost(Len(allowed) - i + 1) = Cost(Burst) + Earned(now - allowed[i])
        BY RefuseIsShort
    <2>2. tokens' < Second /\ tokens' \in Nat /\ Second \in Nat
        BY RateLimiterAssumption, FillsUp, CostIsLinear DEF Inductive, Refuse
    <2>3. Len(allowed) - i + 2 = (Len(allowed) - i + 1) + 1 /\ Len(allowed) - i + 1 \in Int
        BY DEF Inductive, TypeOK
    <2>4. Cost(Len(allowed) - i + 2) = Cost(Len(allowed) - i + 1) + Second
        BY <2>3, CostIsLinear
    <2>5. Cost(Len(allowed) - i + 1) \in Nat
        BY AccountAfterFilling
    <2>6. Cost(Len(allowed) - i + 2) > Cost(Burst) + Earned(now - allowed[i])
        BY <2>1, <2>2, <2>4, <2>5
    <2> QED BY <2>6
<1>2. Inductive => [Fast]_vars
    BY <1>1
<1>3. [][Fast]_vars <=> RefusedWhenFast
    BY DEF RefusedWhenFast
<1> QED BY <1>2, <1>3, BucketInvariant, PTL
=============================================================================
