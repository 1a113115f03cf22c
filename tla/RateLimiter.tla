---------------------------- MODULE RateLimiter ----------------------------
(***************************************************************************)
(* rateLimiter of server/main.go: the bucket of tokens that limits how     *)
(* often one connection may send commands.  Only the connection's reading  *)
(* loop uses it.                                                           *)
(*                                                                         *)
(* Time is counted in ticks, Second of them to the second, and the bucket  *)
(* in parts of a token, Second of them to the token, so that a tick adds   *)
(* Rate parts.  The code computes in floating point, the model exactly.    *)
(***************************************************************************)
EXTENDS Integers, Sequences

CONSTANTS
    Rate,       \* config.commandRate, tokens per second
    Burst,      \* config.commandBurst, the size of the bucket in tokens
    Second,     \* ticks per second
    MaxTime     \* the clock stops here

ASSUME RateLimiterAssumption ==
    /\ Rate \in Nat \ {0}
    /\ Burst \in Nat \ {0}
    /\ Second \in Nat \ {0}
    /\ MaxTime \in Nat

VARIABLES
    now,        \* the clock
    tokens,     \* parts of tokens in the bucket
    lastFill,   \* when the bucket was last filled up
    allowed     \* the times of the allowed commands, in order

vars == <<now, tokens, lastFill, allowed>>

\* The parts of tokens that n commands take, and that t ticks bring.
Cost(n)   == n * Second
Earned(t) == t * Rate

Init ==
    /\ now = 0
    /\ tokens = Cost(Burst)
    /\ lastFill = 0
    /\ allowed = <<>>

Tick ==
    /\ now < MaxTime
    /\ now' = now + 1
    /\ UNCHANGED <<tokens, lastFill, allowed>>

\* Mutant: only whole seconds bring tokens.
FilledBySeconds ==
    LET sum == tokens + Earned(((now - lastFill) \div Second) * Second)
    IN  IF sum < Cost(Burst) THEN sum ELSE Cost(Burst)

\* What the bucket holds once it has been filled for the time passed.
Filled ==
    LET sum == tokens + Earned(now - lastFill)
    IN  IF now = lastFill THEN tokens ELSE IF sum < Cost(Burst) THEN sum ELSE Cost(Burst)

\* Mutant: the time of the filling is not noted.
AllowUnnoted ==
    /\ Filled >= Second
    /\ tokens' = Filled - Second
    /\ allowed' = Append(allowed, now)
    /\ UNCHANGED <<now, lastFill>>

Allow ==
    /\ Filled >= Second
    /\ tokens' = Filled - Second
    /\ lastFill' = now
    /\ allowed' = Append(allowed, now)
    /\ UNCHANGED now

Refuse ==
    /\ Filled < Second
    /\ tokens' = Filled
    /\ lastFill' = now
    /\ UNCHANGED <<now, allowed>>

Next == Tick \/ Allow \/ Refuse

Spec == Init /\ [][Next]_vars

-----------------------------------------------------------------------------
\* Properties.

TypeOK ==
    /\ now \in 0..MaxTime
    /\ tokens \in 0..Cost(Burst)
    /\ lastFill \in 0..now
    /\ allowed \in Seq(0..now)

\* Between any two allowed commands, both included, no more were allowed than
\* a full bucket and what the time between them adds to it.
WithinRate ==
    \A i, j \in 1..Len(allowed) : i <= j =>
        Cost(j - i + 1) <= Cost(Burst) + Earned(allowed[j] - allowed[i])

\* A command is refused only if, with it, the commands since some earlier one
\* would be too many for the time since then: the limiter never punishes a
\* client that keeps to the rate.
RefusedWhenFast ==
    [][Refuse => \E i \in 1..Len(allowed) :
          Cost(Len(allowed) - i + 2) > Cost(Burst) + Earned(now - allowed[i])]_vars
=============================================================================
