------------------------------ MODULE RedisPool ------------------------------
(***************************************************************************)
(* Pool and activeConn of redis/pool.go over conn of redis/conn.go: what   *)
(* every Redis call of the agent and of the server goes through.           *)
(*                                                                         *)
(* get releases the mutex while it closes, tests or dials a connection;    *)
(* the places of a goroutine are the points where others can run.  A       *)
(* connection has the commands it was sent and has not yet been read the   *)
(* reply of (queue), the client's count of them (pending), and the state   *)
(* that commands left at the server (special).                             *)
(***************************************************************************)
EXTENDS Integers, FiniteSets, SequencesExt

CONSTANTS Goroutines,
          Pools,       \* the pools to look at, see conf
          MaxConns     \* bound: connections dialled

VARIABLES conf,                          \* MaxIdle, MaxActive and Wait of Pool, the goroutines that use it,
                                         \* and bounds: calls of Get, commands after one, and failures
          closed, active, tokens, idle,  \* Pool: closed, active, the channel ch, the list idle
          line,                          \* who waits for a token (receivers of a Go channel queue)
          open, broken,                  \* connections: not closed, with err set
          queue, pending, special,       \* of a connection, as above
          at, pc, state,                 \* a goroutine: its place, its poolConn, activeConn.state
          reply,                         \* what its last command returned
          stray,                         \* connections that watch although they were sent a command to end it
          used, gets, commands, faults
poolVars == <<conf, closed, active, tokens, idle, line>>
connVars == <<open, broken, queue, pending, special, stray>>
vars == <<poolVars, connVars, at, pc, state, reply, used, gets, commands, faults>>

Conns == 1..MaxConns
MaxIdle == conf.MaxIdle
MaxActive == conf.MaxActive  \* zero is no limit
Wait == conf.Wait
None == 0
Limited == Wait /\ MaxActive > 0
Fault == faults < conf.faults /\ faults' = faults + 1
Go(g, place) == at' = [at EXCEPT ![g] = place]
Holds(g, c) == pc' = [pc EXCEPT ![g] = c]
Shut(c) ==
  /\ open' = open \ {c} /\ queue' = [queue EXCEPT ![c] = <<>>] /\ pending' = [pending EXCEPT ![c] = 0]
  /\ special' = [special EXCEPT ![c] = {}] /\ stray' = stray \ {c} /\ UNCHANGED broken
GiveToken == tokens' = IF Limited /\ ~closed THEN tokens + 1 ELSE tokens

Init ==
  /\ conf \in Pools
  /\ closed = FALSE /\ active = 0 /\ tokens = (IF Limited THEN MaxActive ELSE 0) /\ idle = <<>> /\ line = <<>>
  /\ open = {} /\ broken = {} /\ stray = {}
  /\ queue = [c \in Conns |-> <<>>] /\ pending = [c \in Conns |-> 0] /\ special = [c \in Conns |-> {}]
  /\ at = [g \in Goroutines |-> "out"] /\ pc = [g \in Goroutines |-> None]
  /\ state = [g \in Goroutines |-> {}] /\ reply = [g \in Goroutines |-> <<>>]
  /\ used = 0 /\ gets = 0 /\ commands = [g \in Goroutines |-> 0] /\ faults = 0

-----------------------------------------------------------------------------
(* get, with the token that Wait asks for. *)
Get(g) ==
  /\ at[g] = "out" /\ gets < conf.gets /\ g \in conf.users
  /\ gets' = gets + 1
  /\ IF Limited THEN Go(g, "token") /\ line' = Append(line, g) ELSE Go(g, "prune") /\ UNCHANGED line
  /\ UNCHANGED <<conf, closed, active, tokens, idle, connVars, pc, state, reply, used, commands, faults>>
(* A pool that is closed without its channel. *)
TokenOpen(g) ==
  /\ at[g] = "token" /\ tokens > 0 /\ g = Head(line)
  /\ tokens' = tokens - 1 /\ line' = Remove(line, g) /\ Go(g, "prune")
  /\ UNCHANGED <<conf, closed, active, idle, connVars, pc, state, reply, used, gets, commands, faults>>
Token(g) ==
  /\ at[g] = "token" /\ (closed \/ (tokens > 0 /\ g = Head(line)))
  /\ tokens' = IF closed THEN tokens ELSE tokens - 1
  /\ line' = Remove(line, g) /\ Go(g, "prune")
  /\ UNCHANGED <<conf, closed, active, idle, connVars, pc, state, reply, used, gets, commands, faults>>

(* Stale connections at the back of the list are closed with the mutex     *)
(* released.                                                               *)
Prune(g) ==
  /\ at[g] = "prune"
  /\ \/ idle # <<>> /\ Fault /\ Holds(g, Last(idle)) /\ idle' = Front(idle) /\ Go(g, "pruned")
     \/ Go(g, "pop") /\ UNCHANGED <<pc, idle, faults>>
  /\ UNCHANGED <<conf, line, closed, active, tokens, connVars, state, reply, used, gets, commands>>
CloseHeld(g, from, to) ==
  /\ at[g] = from
  /\ Shut(pc[g]) /\ active' = active - 1
  /\ Holds(g, None) /\ Go(g, to)
  /\ UNCHANGED <<conf, line, closed, tokens, idle, state, reply, used, gets, commands, faults>>
Pruned(g) == CloseHeld(g, "pruned", "prune")

(* The limit on active applies when Get does not wait. *)
AtLimit == ~Wait /\ MaxActive > 0 /\ active >= MaxActive
Pop(g) ==
  /\ at[g] = "pop"
  /\ \/ idle # <<>> /\ Holds(g, Head(idle)) /\ idle' = Tail(idle) /\ Go(g, "test") /\ UNCHANGED active
     \/ idle = <<>> /\ (closed \/ AtLimit) /\ Go(g, "out") /\ UNCHANGED <<pc, idle, active>>
     \/ idle = <<>> /\ ~closed /\ ~AtLimit /\ active' = active + 1 /\ Go(g, "dial") /\ UNCHANGED <<pc, idle>>
  /\ UNCHANGED <<conf, line, closed, tokens, connVars, state, reply, used, gets, commands, faults>>
(* TestOnBorrow and MaxConnLifetime. *)
Test(g) ==
  /\ at[g] = "test"
  /\ \/ Go(g, "use") /\ UNCHANGED faults
     \/ Fault /\ Go(g, "failed")
  /\ UNCHANGED <<poolVars, connVars, pc, state, reply, used, gets, commands>>
TestFailed(g) == CloseHeld(g, "failed", "pop")
(* The Dial of NewRedisPool returns a connection without an error also     *)
(* when it has closed it because SELECT failed.                            *)
Dialled(g) ==
  /\ used < MaxConns /\ used' = used + 1
  /\ Holds(g, used + 1) /\ Go(g, "use")
  /\ \/ open' = open \cup {used + 1} /\ UNCHANGED <<broken, faults>>
     \/ Fault /\ broken' = broken \cup {used + 1} /\ UNCHANGED open
  /\ UNCHANGED <<active, tokens>>
(* A failed dial that keeps its place in the count and its token. *)
DialFailedLeaks(g) ==
  /\ Fault /\ Go(g, "out")
  /\ UNCHANGED <<active, tokens, used, open, broken, pc>>
DialFailed(g) ==
  /\ Fault
  /\ active' = active - 1 /\ GiveToken /\ Go(g, "out")
  /\ UNCHANGED <<used, open, broken, pc>>
Dial(g) ==
  /\ at[g] = "dial"
  /\ Dialled(g) \/ DialFailed(g)
  /\ UNCHANGED <<conf, line, closed, idle, queue, pending, special, stray, state, reply, gets, commands>>

-----------------------------------------------------------------------------
(* lookupCommandInfo: what a command does to activeConn.state. *)
Cmds == {"GET", "WATCH", "UNWATCH", "MULTI", "EXEC", "DISCARD", "SUBSCRIBE", "MONITOR"}
Marks(s, cmd) ==
  CASE cmd = "WATCH" -> s \cup {"watch"}
    [] cmd = "UNWATCH" -> s \ {"watch"}
    [] cmd = "MULTI" -> s \cup {"multi"}
    [] cmd \in {"EXEC", "DISCARD"} -> s \ {"watch", "multi"}
    [] cmd = "SUBSCRIBE" -> s \cup {"subscribe"}
    [] cmd = "MONITOR" -> s \cup {"monitor"}
    [] OTHER -> s
(* What Redis refuses with an error reply, and what it does otherwise: a   *)
(* subscription made in a transaction begins with EXEC.                    *)
Refused(s, cmd) ==
  \/ "monitor" \in s
  \/ "subscribe" \in s /\ cmd # "SUBSCRIBE"
  \/ "multi" \in s /\ cmd \in {"WATCH", "MULTI", "MONITOR"}
  \/ "multi" \notin s /\ cmd \in {"EXEC", "DISCARD"}
Takes(s, cmd) ==
  CASE Refused(s, cmd) -> s
    [] cmd = "EXEC" /\ "later" \in s -> {"subscribe"}
    [] cmd \in {"EXEC", "DISCARD"} -> {}
    [] "multi" \in s -> IF cmd = "SUBSCRIBE" THEN s \cup {"later"} ELSE s
    [] OTHER -> Marks(s, cmd)
(* An error reply is also what a command with wrong arguments gets. *)
Errors(s, cmd) == IF cmd = "GET" THEN {Refused(s, cmd), TRUE} ELSE {Refused(s, cmd)}
(* The commands that end a WATCH clear the flags of activeConn also when   *)
(* Redis refuses them.                                                     *)
EndsWatch == {"UNWATCH", "EXEC", "DISCARD"}
Serves(c, cmd) ==
  /\ special' = [special EXCEPT ![c] = Takes(@, cmd)]
  /\ stray' = IF cmd \in EndsWatch /\ "watch" \in Takes(special[c], cmd) THEN stray \cup {c} ELSE stray
(* A read error that leaves the connection in use. *)
FatalIgnored(c) == UNCHANGED <<broken, open>>
Fatal(c) == broken' = broken \cup {c} /\ open' = open \ {c}

(* A reply, to the nth command of g, and whether it is an error. *)
ReplyTo(g, err) == <<g, commands[g] + 1, err>>
Issue(g, cmd) ==
  /\ at[g] = "use" /\ commands[g] < conf.commands /\ pc[g] \notin broken
  /\ commands' = [commands EXCEPT ![g] = @ + 1]
  /\ state' = [state EXCEPT ![g] = Marks(@, cmd)]
(* Send: written, and counted as pending. *)
Send(g, cmd) ==
  /\ Issue(g, cmd)
  /\ LET c == pc[g] IN
     /\ pending' = [pending EXCEPT ![c] = @ + 1]
     /\ \E err \in Errors(special[c], cmd) : queue' = [queue EXCEPT ![c] = Append(@, ReplyTo(g, err))]
     /\ Serves(c, cmd)
  /\ reply' = [reply EXCEPT ![g] = <<>>]
  /\ UNCHANGED <<poolVars, open, broken, at, pc, used, gets, faults>>
(* Do: reads the pending replies and its own, or the deadline passes and   *)
(* the connection is given up with the replies unread.                     *)
Do(g, cmd) ==
  /\ Issue(g, cmd)
  /\ LET c == pc[g]
         q == Append(queue[c], ReplyTo(g, Refused(special[c], cmd)))
         n == pending[c] + 1
     IN
     /\ Serves(c, cmd)
     /\ pending' = [pending EXCEPT ![c] = 0]
     /\ \/ /\ reply' = [reply EXCEPT ![g] = q[n]]
           /\ queue' = [queue EXCEPT ![c] = SubSeq(q, n + 1, Len(q))]
           /\ UNCHANGED <<open, broken, faults>>
        \/ /\ Fault /\ Fatal(c)
           /\ reply' = [reply EXCEPT ![g] = <<>>]
           /\ queue' = [queue EXCEPT ![c] = q]
  /\ UNCHANGED <<poolVars, at, pc, used, gets>>
(* A message of a channel, or what MONITOR reports. *)
Push(c) ==
  /\ c \in open /\ {"subscribe", "monitor"} \cap special[c] # {} /\ Len(queue[c]) < 2
  /\ queue' = [queue EXCEPT ![c] = Append(@, <<"push", 0, FALSE>>)]
  /\ UNCHANGED <<poolVars, open, broken, pending, special, stray, at, pc, state, reply, used, gets, commands, faults>>

(* activeConn.Close undoes what state says was begun. *)
Undo(st) == CASE "multi" \in st -> "DISCARD"
              [] "multi" \notin st /\ "watch" \in st -> "UNWATCH"
              [] OTHER -> "none"
Undone(s, st) ==
  LET t == IF Undo(st) = "none" THEN s ELSE Takes(s, Undo(st))
  IN  IF "subscribe" \in st THEN t \ {"subscribe"} ELSE t
(* Its loop for a subscriber reads up to the sentinel and gives up at the  *)
(* first error, the replies before those of Close included.                *)
LoopBreaks(c, st) ==
  /\ "subscribe" \in st
  /\ (\E i \in DOMAIN queue[c] : queue[c][i][3]) \/ (Undo(st) # "none" /\ Refused(special[c], Undo(st)))
(* Replies that nobody reads: Close without its Do(""). *)
UnreadAll(c, st) == queue[c]
Unread(c, st) == IF "subscribe" \in st THEN <<>> ELSE SubSeq(queue[c], pending[c] + 1, Len(queue[c]))
(* The flags that are left, or an error, have the connection closed; the   *)
(* next Get makes a new activeConn.                                        *)
Release(g) ==
  /\ at[g] = "use"
  /\ LET c == pc[g] IN
     \/ /\ c \in broken
        /\ Go(g, "force")
        /\ UNCHANGED <<connVars, faults>>
     \/ /\ c \notin broken
        /\ special' = [special EXCEPT ![c] = Undone(@, state[g])]
        /\ queue' = [queue EXCEPT ![c] = Unread(c, state[g])]
        /\ pending' = [pending EXCEPT ![c] = 0]
        /\ Go(g, IF "monitor" \in state[g] \/ LoopBreaks(c, state[g]) THEN "force" ELSE "put")
        /\ UNCHANGED <<open, broken, stray, faults>>
     \/ /\ c \notin broken /\ Fault /\ Fatal(c) /\ Go(g, "force")
        /\ UNCHANGED <<queue, pending, special, stray>>
  /\ state' = [state EXCEPT ![g] = {}] /\ commands' = [commands EXCEPT ![g] = 0]
  /\ reply' = [reply EXCEPT ![g] = <<>>]
  /\ UNCHANGED <<poolVars, pc, used, gets>>

-----------------------------------------------------------------------------
(* put: to the front of the list, or closed; the list gives up its last.   *)
Put(g) ==
  /\ at[g] \in {"put", "force"}
  /\ LET keep == ~closed /\ at[g] = "put"
         list == <<pc[g]>> \o idle
         over == keep /\ Len(list) > MaxIdle
     IN
     /\ idle' = IF keep THEN (IF over THEN Front(list) ELSE list) ELSE idle
     /\ IF keep /\ ~over
        THEN Holds(g, None) /\ Go(g, "out") /\ GiveToken
        ELSE Holds(g, IF keep THEN Last(list) ELSE pc[g]) /\ Go(g, "closing") /\ UNCHANGED tokens
  /\ UNCHANGED <<conf, line, closed, active, connVars, state, reply, used, gets, commands, faults>>
PutClosed(g) ==
  /\ at[g] = "closing"
  /\ Shut(pc[g]) /\ active' = active - 1 /\ GiveToken
  /\ Holds(g, None) /\ Go(g, "out")
  /\ UNCHANGED <<conf, line, closed, idle, state, reply, used, gets, commands, faults>>

(* Pool.Close. *)
PoolClose ==
  /\ ~closed /\ closed' = TRUE
  /\ active' = active - Len(idle) /\ idle' = <<>>
  /\ open' = open \ ToSet(idle)
  /\ UNCHANGED <<conf, line, tokens, broken, queue, pending, special, stray, at, pc, state, reply, used, gets, commands, faults>>

Step(g) ==
  \/ Token(g) \/ Prune(g) \/ Pruned(g) \/ Pop(g) \/ Test(g) \/ TestFailed(g) \/ Dial(g)
  \/ Release(g) \/ Put(g) \/ PutClosed(g)
Next ==
  \/ \E g \in Goroutines : Get(g) \/ Step(g) \/ \E cmd \in Cmds : Send(g, cmd) \/ Do(g, cmd)
  \/ \E c \in Conns : Push(c)
  \/ PoolClose
Spec == Init /\ [][Next]_vars
(* Goroutines run and return what they borrowed. *)
Fairness == \A g \in Goroutines : WF_vars(Step(g))
FairSpec == Spec /\ Fairness

-----------------------------------------------------------------------------
(* The accounts of the pool are right although the mutex is released while *)
(* connections are dialled, tested and closed: a connection is in the list *)
(* or has one user; no more than MaxActive are open, with Wait because of  *)
(* the tokens and without it because of active; and when nobody holds one, *)
(* the idle ones are all that are open and every token is back.            *)
PoolAccounts ==
  /\ \A g, h \in Goroutines : g # h /\ pc[g] # None => pc[g] # pc[h] /\ pc[g] \notin ToSet(idle)
  /\ Cardinality(ToSet(idle)) = Len(idle) /\ Len(idle) <= MaxIdle
  /\ MaxActive > 0 => Cardinality(open) <= MaxActive /\ active <= MaxActive
  /\ (\A g \in Goroutines : at[g] \in {"out", "token"}) =>
       /\ active = Len(idle) /\ open = ToSet(idle)
       /\ Limited /\ ~closed => tokens = MaxActive

(* A connection in the list is not in a transaction, watches nothing, has  *)
(* no subscription, no unread reply and no error: the next borrower cannot *)
(* tell it from a new one, whatever commands were sent, taken or refused   *)
(* (activeConn.Close).  Except that it still watches when a borrower meant *)
(* to end a WATCH by a command that Redis refused, as EXEC or DISCARD      *)
(* without MULTI: commandinfo.go clears the flag before the answer, and    *)
(* Close does not send UNWATCH.                                            *)
IdleIsClean ==
  \A c \in ToSet(idle) :
    /\ special[c] = {} \/ (special[c] = {"watch"} /\ c \in stray)
    /\ queue[c] = <<>> /\ pending[c] = 0 /\ c \notin broken

(* A command returns its own reply, whatever was sent before on the        *)
(* connection and whoever gave up waiting for an answer (pending of conn). *)
(* A subscriber or a monitor reads what it is sent.                        *)
OwnReply ==
  \A g \in Goroutines : {"subscribe", "monitor"} \cap state[g] = {} =>
    reply[g] = <<>> \/ \E err \in BOOLEAN : reply[g] = <<g, commands[g], err>>

(* Whoever waits in Get goes on: a connection is returned, a dial fails or *)
(* the pool is closed, and each gives a token.                             *)
WaitersGoOn == \A g \in Goroutines : at[g] = "token" ~> at[g] # "token"
=============================================================================
