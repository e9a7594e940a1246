----------------------------- MODULE ClientLimits ----------------------------
(***************************************************************************)
(* The rate limit of a client address (api/middleware/ratelimit.go).       *)
(*                                                                         *)
(* A shard maps a client to its limiter, a bucket of tokens that fills     *)
(* with time.  A request first gets the limiter, under the shard's lock,   *)
(* and then takes a token, without it.  Limiters that were not asked for   *)
(* in a while are evicted, and the client's next one begins full.          *)
(*                                                                         *)
(* Time is counted in ticks.  A limiter is an object: a request may hold   *)
(* one that the shard has no more.                                         *)
(***************************************************************************)
EXTENDS Integers, FiniteSets

CONSTANTS
    Clients,      \* of one shard
    Requesters,   \* requests under way
    NoClient,
    Limiters,     \* limiter objects
    NoLimiter,
    Burst,
    Refill,       \* tokens a tick brings
    ExpireTime,   \* ticks
    MaxDelay,     \* bound: ticks between getting the limiter and asking it
    ShardSize     \* maxSize / numShards

\* A bucket that was used is full again before it can be evicted.  (By default:
\* half a token a second, 5 tokens, 10 minutes.)
ASSUME LimitAssumption ==
    /\ NoClient \notin Clients
    /\ NoLimiter \notin Limiters
    /\ Burst \in Nat /\ Refill \in Nat /\ ExpireTime \in Nat /\ ShardSize \in Nat
    /\ MaxDelay \in 0 .. ExpireTime
    /\ Refill * (ExpireTime + 1 - MaxDelay) >= Burst

VARIABLES
    shard,     \* shard[c]: the limiter of c
    limiter,   \* limiter[o]: its tokens, and the ticks since it was last seen
    asking,    \* asking[q]: the client and the limiter of a request, and its delay
    allowance  \* ghost: tokens of a bucket that is never evicted

limitVars == <<shard, limiter, asking, allowance>>

\* Ticks after which all limiters are alike.
Old == ExpireTime + 1
NotAsking == [client |-> NoClient, limiter |-> NoLimiter, delay |-> 0]

LimitTypeOK ==
    /\ shard \in [Clients -> Limiters \cup {NoLimiter}]
    /\ limiter \in [Limiters -> [tokens : 0 .. Burst, unseen : 0 .. Old]]
    /\ asking \in [Requesters -> [client : Clients \cup {NoClient},
                                  limiter : Limiters \cup {NoLimiter}, delay : 0 .. MaxDelay]]
    /\ allowance \in [Clients -> Int]

LimitInit ==
    /\ shard = [c \in Clients |-> NoLimiter]
    /\ limiter = [o \in Limiters |-> [tokens |-> 0, unseen |-> Old]]
    /\ asking = [q \in Requesters |-> NotAsking]
    /\ allowance = [c \in Clients |-> Burst]

Atmost(n, bound) == IF n > bound THEN bound ELSE n
Held == {c \in Clients : shard[c] # NoLimiter}
Expired == {c \in Held : limiter[shard[c]].unseen > ExpireTime}
Evicted(S) == [c \in Clients |-> IF c \in S THEN NoLimiter ELSE shard[c]]

Unused ==
    {o \in Limiters : /\ \A c \in Clients : shard[c] # o
                      /\ \A q \in Requesters : asking[q].limiter # o}

Asks(q, c, o) ==
    asking' = [asking EXCEPT ![q] = [client |-> c, limiter |-> o, delay |-> 0]]

---------------------------------------------------------------------------

\* Mutant: a limiter that is asked for is not marked as seen.
GetUnseen(q, c) ==
    /\ asking[q] = NotAsking
    /\ IF c \in Held \ Expired
         THEN Asks(q, c, shard[c]) /\ UNCHANGED <<shard, limiter>>
         ELSE \E o \in Unused :
                 /\ shard' = [Evicted(IF Cardinality(Held \ {c}) >= ShardSize
                                        THEN Expired ELSE {}) EXCEPT ![c] = o]
                 /\ limiter' = [limiter EXCEPT ![o] = [tokens |-> Burst, unseen |-> 0]]
                 /\ Asks(q, c, o)
    /\ UNCHANGED allowance

\* getClientLimiter.  A full shard evicts what has expired, and takes the new
\* limiter in any case.
GetClientLimiter(q, c) ==
    /\ asking[q] = NotAsking
    /\ IF c \in Held \ Expired
         THEN /\ limiter' = [limiter EXCEPT ![shard[c]].unseen = 0]
              /\ Asks(q, c, shard[c])
              /\ UNCHANGED shard
         ELSE \E o \in Unused :
                 /\ shard' = [Evicted(IF Cardinality(Held \ {c}) >= ShardSize
                                        THEN Expired ELSE {}) EXCEPT ![c] = o]
                 /\ limiter' = [limiter EXCEPT ![o] = [tokens |-> Burst, unseen |-> 0]]
                 /\ Asks(q, c, o)
    /\ UNCHANGED allowance

\* Allow: the request goes on with a token, and is refused without.
Allow(q) ==
    /\ asking[q] # NotAsking
    /\ LET o == asking[q].limiter
           taken == IF limiter[o].tokens > 0 THEN 1 ELSE 0 IN
         /\ limiter' = [limiter EXCEPT ![o].tokens = @ - taken]
         /\ allowance' = [allowance EXCEPT ![asking[q].client] = @ - taken]
    /\ asking' = [asking EXCEPT ![q] = NotAsking]
    /\ UNCHANGED shard

\* cleanupAllShards, every five minutes.
CleanupShard ==
    /\ Expired # {}
    /\ shard' = Evicted(Expired)
    /\ UNCHANGED <<limiter, asking, allowance>>

Tick ==
    /\ \A q \in Requesters : asking[q] # NotAsking => asking[q].delay < MaxDelay
    /\ limiter' = [o \in Limiters |-> [tokens |-> Atmost(limiter[o].tokens + Refill, Burst),
                                       unseen |-> Atmost(limiter[o].unseen + 1, Old)]]
    /\ asking' = [q \in Requesters |->
                    IF asking[q] = NotAsking THEN NotAsking
                    ELSE [asking[q] EXCEPT !.delay = @ + 1]]
    /\ allowance' = [c \in Clients |-> Atmost(allowance[c] + Refill, Burst)]
    /\ UNCHANGED shard

LimitNext ==
    \/ \E q \in Requesters : Allow(q) \/ \E c \in Clients : GetClientLimiter(q, c)
    \/ CleanupShard
    \/ Tick

LimitSpec == LimitInit /\ [][LimitNext]_limitVars

---------------------------------------------------------------------------
\* Properties

\* Evictions give no client more than its limit: whatever requests, evictions by
\* a full shard and clean-ups meet, a client is allowed no more requests than one
\* bucket of its own, kept for ever, would allow.
LimitIsKept == \A c \in Clients : allowance[c] >= 0
=============================================================================
