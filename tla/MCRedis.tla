------------------------------ MODULE MCRedis ------------------------------
(***************************************************************************)
(* What the programs use of Redis: the connection pool, the unique queue   *)
(* and the priority queue.  They share no state, so the initial state      *)
(* chooses the one that runs and the others rest.                          *)
(***************************************************************************)
EXTENDS UniqueQueue, TLC

CONSTANTS a, b, e, g1, g2, g3

VARIABLES part,
          conf, closed, active, tokens, idle, line, open, broken, queue, pending, special, at, pc, state, reply,
          stray, used, gets, commands, faults,
          lists, set, pushes, popped

MCBodies == {a, b, e}

\* Three users of two connections, as the programs have it and with Wait; two who
\* send commands over one connection; two who wait for one.
Pools ==
  {[MaxIdle |-> 1, MaxActive |-> 2, Wait |-> w, users |-> {g1, g2, g3}, gets |-> 4, commands |-> 0, faults |-> 1] :
     w \in BOOLEAN}
  \cup {[MaxIdle |-> 1, MaxActive |-> 1, Wait |-> FALSE, users |-> {g1, g2}, gets |-> 2, commands |-> 3, faults |-> 1],
        [MaxIdle |-> 1, MaxActive |-> 1, Wait |-> TRUE, users |-> {g1, g2}, gets |-> 3, commands |-> 0, faults |-> 2]}
Pool == INSTANCE RedisPool WITH Goroutines <- {g1, g2, g3}, MaxConns <- 3

\* A queue of two priorities that is also pushed to with none and three.
Priority == INSTANCE PriorityQueue WITH Wanted <- 2, Priorities <- 0..3, MaxPushes <- 5

poolVars == <<conf, closed, active, tokens, idle, line, open, broken, queue, pending, special, at, pc, state,
              reply, stray, used, gets, commands, faults>>
priorityVars == <<lists, set, pushes, popped>>
allVars == <<part, vars, poolVars, priorityVars>>
RedisInit ==
  /\ part \in {"pool", "unique", "priority"} /\ Init /\ Pool!Init /\ Priority!Init
  /\ part # "pool" => conf = CHOOSE c \in Pools : TRUE
RedisNext ==
  \/ part = "unique" /\ Next /\ UNCHANGED <<part, poolVars, priorityVars>>
  \/ part = "pool" /\ Pool!Next /\ UNCHANGED <<part, vars, priorityVars>>
  \/ part = "priority" /\ Priority!Next /\ UNCHANGED <<part, vars, poolVars>>

\* The fairness of FairSpec of RedisPool; a pool at rest has no step to take.
RedisSpec == RedisInit /\ [][RedisNext]_allVars /\ Pool!Fairness

-----------------------------------------------------------------------------
\* See RedisPool: connections have one owner, are bounded and come back.
PoolAccounts == Pool!PoolAccounts
\* See RedisPool: an idle connection is like a new one.
IdleIsClean == Pool!IdleIsClean
\* See RedisPool: a command returns its own reply.
OwnReply == Pool!OwnReply
\* See RedisPool: nobody waits in Get for ever.
WaitersGoOn == Pool!WaitersGoOn
\* See PriorityQueue: the filter and the lists agree.
FilteredIffWaiting == Priority!FilteredIffWaiting
=============================================================================
