------------------------------- MODULE WsPool -------------------------------
(***************************************************************************)
(* A pool of long-lived WebSocket connections (rust_engine/src/ws_pool.rs, *)
(* ConnectionPool, connection_loop, connection_session).                   *)
(*                                                                         *)
(* One thread calls the pool, an operation at a time; a task per           *)
(* connection connects, subscribes, reads commands and reconnects.  They   *)
(* share the set of tracked assets of the connection, behind a mutex, and  *)
(* a bounded channel of commands.  The pool changes the set first and      *)
(* sends the command after it has let go of the mutex, so the task may     *)
(* take any step in between.                                               *)
(*                                                                         *)
(* PING, PONG and market messages matter here only as reasons to lose a    *)
(* connection.  The delays between attempts are steps of their own.        *)
(***************************************************************************)
EXTENDS Pools

CONSTANTS
  MaxConns,         \* max_connections
  ThresholdPerConn, \* consolidation threshold per connection
  Room,             \* commands that the channel of a connection holds
  MaxOps            \* bound: operations the caller makes

ASSUME PoolAssumption ==
  /\ MaxConns \in Nat \ {0} /\ Room \in Nat \ {0}
  /\ ThresholdPerConn \in Nat /\ MaxOps \in Nat

VARIABLES
  conns,    \* connections spawned: 1 .. conns
  tracked,  \* per connection: ManagedConnection.subscribed
  inbox,    \* per connection: the channel of SubCommands
  link,     \* per connection: "down", "up", "lost" (not yet drained), "ended"
  served,   \* per connection: assets the venue sends in this session
  running,
  op,       \* the operation the caller is in
  sending,  \* a command whose assets are tracked already, not yet sent
  ops,      \* operations begun
  wanted,   \* history: assets the caller subscribed
  given,    \* history: assets the caller unsubscribed
  refused,  \* history: assets for which there was no room
  retired,  \* history, per connection: assets the pool took off it
  disturbed, \* history: an old command put assets back at a bad moment
  lost      \* history, per connection: assets whose command did not fit into the channel

caller == <<op, sending, ops>>
history == <<wanted, given, refused, retired, lost, disturbed>>
poolVars == <<conns, tracked, inbox, link, served, running, caller, history>>

Slots == 1..MaxConns
Spawned == 1..conns
Commands == [kind : {"Subscribe", "Unsubscribe"}, ids : SUBSET Tokens]
Command(kind, ids) == [kind |-> kind, ids |-> ids]

Idle == [kind |-> "idle", list |-> <<>>, at |-> 1, plan |-> <<>>, add |-> {}]

\* The assets that are tracked, each as often as it is.
Total == SumFunctionOnSet([c \in Slots |-> Cardinality(tracked[c])], Spawned)

\* What the connection tracks after a command was applied to its set.
Apply(set, cmd) ==
  IF cmd.kind = "Subscribe" THEN set \cup cmd.ids ELSE set \ cmd.ids

\* start: a connection per chunk, as many as are allowed; one without assets
\* when there is nothing to subscribe.
Start(list) ==
  LET n == Max({1, Min({NumChunks(Len(list)), MaxConns})})
  IN /\ conns = n
     /\ tracked = [c \in Slots |-> IF c <= n THEN Chunk(list, c) ELSE {}]
     /\ wanted = ToSet(list)
     /\ refused = ToSet(list) \ UNION {tracked[c] : c \in Slots}

PoolInit ==
  /\ \E first \in SUBSET Tokens : \E list \in SetToSeqs(first) : Start(list)
  /\ inbox = [c \in Slots |-> <<>>]
  /\ link = [c \in Slots |-> "down"]
  /\ served = [c \in Slots |-> {}]
  /\ running = TRUE
  /\ op = Idle /\ sending = <<>> /\ ops = 0
  /\ given = {} /\ retired = [c \in Slots |-> {}] /\ lost = [c \in Slots |-> {}]
  /\ disturbed = FALSE

-----------------------------------------------------------------------------
(* The caller.                                                             *)

Begin == running /\ op = Idle /\ sending = <<>> /\ ops < MaxOps /\ ops' = ops + 1

\* The pool takes assets off a connection and will send the command.
Take(c, ids) ==
  /\ tracked' = [tracked EXCEPT ![c] = @ \ ids]
  /\ retired' = [retired EXCEPT ![c] = @ \cup ids]
  /\ sending' = <<[conn |-> c, cmd |-> Command("Unsubscribe", ids)]>>

\* The pool puts assets on a connection and will send the command.
Put(c, ids) ==
  /\ tracked' = [tracked EXCEPT ![c] = @ \cup ids]
  /\ sending' = <<[conn |-> c, cmd |-> Command("Subscribe", ids)]>>

BeginSubscribe(ids) ==
  /\ Begin /\ ids # {}
  /\ \E list \in SetToSeqs(ids) : op' = [Idle EXCEPT !.kind = "subscribe", !.list = list]
  /\ wanted' = wanted \cup ids
  /\ UNCHANGED <<conns, tracked, inbox, link, served, running, sending, given, refused, retired, lost, disturbed>>

\* Phase 1: the assets of the connection the caller has come to are counted,
\* and as many as fit are meant for it ...
SubscribeNext ==
  /\ op.kind = "subscribe" /\ sending = <<>> /\ op.at <= conns /\ op.list # <<>>
  /\ LET count == Cardinality(tracked[op.at])
         free == IF count < Cap THEN Cap - count ELSE 0
         n == Min({free, Len(op.list)})
     IN op' = IF n = 0 THEN [op EXCEPT !.at = @ + 1]
              ELSE [op EXCEPT !.kind = "insert", !.add = ToSet(SubSeq(op.list, 1, n)),
                              !.list = SubSeq(@, n + 1, Len(@))]
  /\ UNCHANGED <<conns, tracked, inbox, link, served, running, sending, ops, history>>

\* ... and put on it, whatever it tracks by then: the mutex was let go of.
InsertNext ==
  /\ op.kind = "insert" /\ sending = <<>>
  /\ Put(op.at, op.add)
  /\ op' = [op EXCEPT !.kind = "subscribe", !.at = @ + 1, !.add = {}]
  /\ UNCHANGED <<conns, inbox, link, served, running, ops, history>>

\* Phase 2: the rest goes to new connections, which start with it tracked
\* and no command; what is left when there may be no more is dropped.
SpawnNext ==
  /\ op.kind = "subscribe" /\ sending = <<>> /\ op.at > conns
  /\ IF op.list # <<>> /\ conns < MaxConns
     THEN /\ conns' = conns + 1
          /\ tracked' = [tracked EXCEPT ![conns + 1] = Chunk(op.list, 1)]
          /\ op' = [op EXCEPT !.at = @ + 1, !.list = SubSeq(@, Cap + 1, Len(@))]
          /\ UNCHANGED refused
     ELSE /\ op' = Idle
          /\ refused' = refused \cup ToSet(op.list)
          /\ UNCHANGED <<conns, tracked>>
  /\ UNCHANGED <<inbox, link, served, running, sending, ops, wanted, given, retired, lost, disturbed>>

\* Nothing was left for phase 2, or for the connections not yet looked at.
SubscribeDone ==
  /\ op.kind = "subscribe" /\ sending = <<>> /\ op.list = <<>> /\ op.at <= conns
  /\ op' = Idle
  /\ UNCHANGED <<conns, tracked, inbox, link, served, running, sending, ops, history>>

BeginUnsubscribe(ids) ==
  /\ Begin /\ ids # {}
  /\ op' = [Idle EXCEPT !.kind = "unsubscribe",
                        !.plan = [c \in Spawned |-> ids \cap tracked[c]]]
  /\ given' = given \cup ids
  /\ UNCHANGED <<conns, tracked, inbox, link, served, running, sending, wanted, refused, retired, lost, disturbed>>

\* The connections that track some of the assets, one by one.
UnsubscribeNext ==
  /\ op.kind = "unsubscribe" /\ sending = <<>>
  /\ IF \E c \in DOMAIN op.plan : op.plan[c] # {}
     THEN \E c \in DOMAIN op.plan :
            /\ op.plan[c] # {}
            /\ Take(c, op.plan[c])
            /\ op' = [op EXCEPT !.plan[c] = {}]
     ELSE op' = Idle /\ UNCHANGED <<tracked, retired, sending>>
  /\ UNCHANGED <<conns, inbox, link, served, running, ops, wanted, given, refused, lost, disturbed>>

\* consolidate: the connections that are needed are counted ...
BeginConsolidate ==
  /\ Begin /\ conns > 1
  /\ LET needed == Max({1, NumChunks(Total)})
     IN /\ needed < conns /\ Total < (conns - 1) * ThresholdPerConn
        /\ op' = [Idle EXCEPT !.kind = "collect", !.at = needed + 1]
  /\ UNCHANGED <<conns, tracked, inbox, link, served, running, sending, history>>

\* The assets, connection by connection, each in the order of its hash set.
Collected ==
  {order \in [Spawned -> UNION {SetToSeqs(tracked[c]) : c \in Spawned}] :
     \A c \in Spawned : order[c] \in SetToSeqs(tracked[c])}

\* ... then the assets are collected, in chunks for the first so many of them.
\* The mutexes are let go of in between, so the tasks may have drained.
CollectNext ==
  /\ op.kind = "collect" /\ sending = <<>>
  /\ \E order \in Collected :
       LET list == FlattenSeq(order)
       IN op' = [op EXCEPT !.kind = "empty",
                   !.plan = [i \in 1..Min({op.at - 1, NumChunks(Len(list))}) |-> Chunk(list, i)]]
  /\ UNCHANGED <<conns, tracked, inbox, link, served, running, sending, ops, history>>

\* The connections that are not needed lose their assets.
EmptyNext ==
  /\ op.kind = "empty" /\ sending = <<>>
  /\ IF op.at > conns
     THEN op' = [op EXCEPT !.kind = "remove", !.at = 1] /\ UNCHANGED <<tracked, retired, sending>>
     ELSE /\ op' = [op EXCEPT !.at = @ + 1]
          /\ IF tracked[op.at] = {} THEN UNCHANGED <<tracked, retired, sending>>
             ELSE Take(op.at, tracked[op.at])
  /\ UNCHANGED <<conns, inbox, link, served, running, ops, wanted, given, refused, lost, disturbed>>

\* The set of a connection that stays is compared with its chunk once: what
\* is not in the chunk is taken off it ...
RemoveNext ==
  /\ op.kind = "remove" /\ sending = <<>>
  /\ IF op.at > Len(op.plan)
     THEN op' = Idle /\ UNCHANGED <<tracked, retired, sending>>
     ELSE /\ op' = [op EXCEPT !.kind = "add", !.add = op.plan[op.at] \ tracked[op.at]]
          /\ IF tracked[op.at] \ op.plan[op.at] = {} THEN UNCHANGED <<tracked, retired, sending>>
             ELSE Take(op.at, tracked[op.at] \ op.plan[op.at])
  /\ UNCHANGED <<conns, inbox, link, served, running, ops, wanted, given, refused, lost, disturbed>>

\* Mutant: only the difference that takes away is applied.
MutAddNext ==
  /\ op.kind = "add" /\ sending = <<>>
  /\ op' = [op EXCEPT !.kind = "remove", !.at = @ + 1, !.add = {}]
  /\ UNCHANGED <<conns, tracked, inbox, link, served, running, sending, ops, history>>

\* ... and what was missing is put on it.
AddNext ==
  /\ op.kind = "add" /\ sending = <<>>
  /\ op' = [op EXCEPT !.kind = "remove", !.at = @ + 1, !.add = {}]
  /\ IF op.add = {} THEN UNCHANGED <<tracked, sending>> ELSE Put(op.at, op.add)
  /\ UNCHANGED <<conns, inbox, link, served, running, ops, history>>

\* Mutant: the channel is unbounded.
MutSend ==
  /\ sending # <<>>
  /\ inbox' = [inbox EXCEPT ![sending[1].conn] = Append(@, sending[1].cmd)]
  /\ sending' = <<>>
  /\ UNCHANGED <<conns, tracked, link, served, running, op, ops, history>>

\* try_send: refused with a warning when the channel is full or closed.
Send ==
  /\ sending # <<>>
  /\ LET c == sending[1].conn
         cmd == sending[1].cmd
     IN IF Len(inbox[c]) < Room /\ link[c] # "ended"
        THEN inbox' = [inbox EXCEPT ![c] = Append(@, cmd)] /\ UNCHANGED lost
        ELSE lost' = [lost EXCEPT ![c] = @ \cup cmd.ids] /\ UNCHANGED inbox
  /\ sending' = <<>>
  /\ UNCHANGED <<conns, tracked, link, served, running, op, ops, wanted, given, refused, retired, disturbed>>

Stop ==
  /\ Begin /\ running' = FALSE
  /\ UNCHANGED <<conns, tracked, inbox, link, served, op, sending, history>>

Caller ==
  \/ SubscribeNext \/ InsertNext \/ SpawnNext \/ SubscribeDone
  \/ UnsubscribeNext \/ CollectNext \/ EmptyNext \/ RemoveNext \/ AddNext \/ Send

-----------------------------------------------------------------------------
(* The task of connection c.                                               *)

connVars == <<conns, running, caller, wanted, given, refused, retired>>
taskVars == <<connVars, disturbed>>

\* Mutant: only commands subscribe.
MutJoin(c) ==
  /\ link[c] = "down" /\ running
  /\ link' = [link EXCEPT ![c] = "up"]
  /\ lost' = [lost EXCEPT ![c] = {}]
  /\ UNCHANGED <<tracked, served, inbox, taskVars>>

\* The connection stands and the tracked assets of this moment are subscribed.
Join(c) ==
  /\ link[c] = "down" /\ running
  /\ link' = [link EXCEPT ![c] = "up"]
  /\ served' = [served EXCEPT ![c] = tracked[c]]
  /\ lost' = [lost EXCEPT ![c] = {}]
  /\ UNCHANGED <<tracked, inbox, taskVars>>

\* connect_async or the first subscription fails.
JoinFails(c) ==
  /\ link[c] = "down" /\ running
  /\ link' = [link EXCEPT ![c] = "lost"]
  /\ UNCHANGED <<tracked, inbox, served, lost, taskVars>>

\* A command is passed on to the venue.
Receive(c) ==
  /\ link[c] = "up" /\ inbox[c] # <<>>
  /\ served' = [served EXCEPT ![c] = Apply(@, Head(inbox[c]))]
  /\ inbox' = [inbox EXCEPT ![c] = Tail(@)]
  /\ UNCHANGED <<tracked, link, lost, taskVars>>

\* Sending it fails: the session ends and the command is gone.
ReceiveFails(c) ==
  /\ link[c] = "up" /\ inbox[c] # <<>>
  /\ link' = [link EXCEPT ![c] = "lost"]
  /\ served' = [served EXCEPT ![c] = {}]
  /\ inbox' = [inbox EXCEPT ![c] = Tail(@)]
  /\ UNCHANGED <<tracked, lost, taskVars>>

\* No PONG, a failed PING, an error, a Close, the end of the stream.
Lose(c) ==
  /\ link[c] = "up"
  /\ link' = [link EXCEPT ![c] = "lost"]
  /\ served' = [served EXCEPT ![c] = {}]
  /\ UNCHANGED <<tracked, inbox, lost, taskVars>>

Consolidating == op.kind \in {"collect", "empty", "remove", "add"}

\* Assets that are about to be put on the connection.
Incoming(c) == IF op.kind = "insert" /\ op.at = c THEN op.add ELSE {}

\* A drain puts assets back while the pool consolidates, or more than the
\* connection has room for.
Disturbs(c, after) ==
  /\ ~ (after \subseteq tracked[c])
  /\ Consolidating \/ Cardinality(after \cup Incoming(c)) > Cap

\* Between two sessions the waiting commands are applied to the tracked
\* assets, each under the mutex, although the pool had applied them already:
\* an old one puts back what the pool took off since.
DrainNext(c) ==
  /\ link[c] = "lost" /\ running /\ inbox[c] # <<>>
  /\ LET after == Apply(tracked[c], Head(inbox[c]))
     IN /\ tracked' = [tracked EXCEPT ![c] = after]
        /\ disturbed' = (disturbed \/ Disturbs(c, after))
  /\ inbox' = [inbox EXCEPT ![c] = Tail(@)]
  /\ UNCHANGED <<link, served, lost, connVars>>

\* The channel was found empty; the next attempt follows after a delay.
Retry(c) ==
  /\ link[c] = "lost" /\ running /\ inbox[c] = <<>>
  /\ link' = [link EXCEPT ![c] = "down"]
  /\ UNCHANGED <<tracked, inbox, served, lost, taskVars>>

\* A stopped pool: the loop, a session or a delay sees it and the task ends.
End(c) ==
  /\ ~running /\ link[c] # "ended"
  /\ link' = [link EXCEPT ![c] = "ended"]
  /\ served' = [served EXCEPT ![c] = {}]
  /\ UNCHANGED <<tracked, inbox, lost, taskVars>>

Task(c) == Join(c) \/ Receive(c) \/ DrainNext(c) \/ Retry(c) \/ End(c)

PoolNext ==
  \/ \E ids \in SUBSET Tokens : BeginSubscribe(ids) \/ BeginUnsubscribe(ids)
  \/ BeginConsolidate \/ Stop
  \/ Caller
  \/ \E c \in Spawned : Task(c) \/ JoinFails(c) \/ ReceiveFails(c) \/ Lose(c)

PoolSpec == PoolInit /\ [][PoolNext]_poolVars

\* Tasks and caller go on; an attempt to connect succeeds if they go on for ever.
PoolFairSpec ==
  /\ PoolSpec
  /\ WF_poolVars(Caller)
  /\ \A c \in Slots :
       /\ SF_poolVars(c \in Spawned /\ Join(c))
       /\ WF_poolVars(c \in Spawned /\ (Receive(c) \/ DrainNext(c) \/ Retry(c) \/ End(c)))

-----------------------------------------------------------------------------
Operations ==
  [kind : {"idle", "subscribe", "insert", "unsubscribe", "collect", "empty", "remove", "add"},
   list : Seq(Tokens), at : Nat, plan : Seq(SUBSET Tokens), add : SUBSET Tokens]

PoolTypeOK ==
  /\ conns \in Slots /\ running \in BOOLEAN /\ ops \in 0..MaxOps
  /\ tracked \in [Slots -> SUBSET Tokens] /\ served \in [Slots -> SUBSET Tokens]
  /\ inbox \in [Slots -> Seq(Commands)]
  /\ \A c \in Slots : Len(inbox[c]) <= Room
  /\ link \in [Slots -> {"down", "up", "lost", "ended"}]
  /\ op \in Operations
  /\ sending \in Seq([conn : Spawned, cmd : Commands]) /\ Len(sending) <= 1
  /\ \A c \in Slots \ Spawned :
       tracked[c] = {} /\ inbox[c] = <<>> /\ link[c] = "down"
  /\ wanted \subseteq Tokens /\ given \subseteq Tokens /\ refused \subseteq Tokens
  /\ retired \in [Slots -> SUBSET Tokens] /\ lost \in [Slots -> SUBSET Tokens]
  /\ disturbed \in BOOLEAN

\* An asset that was subscribed, for which there was room and which was never
\* unsubscribed is tracked by some connection between two operations, also
\* after it was moved from one to another (consolidate), whatever was
\* subscribed and unsubscribed since and however the tasks drain in between -
\* unless a drain put assets back at a bad moment: then it can be lost.
NothingForgotten ==
  op = Idle /\ ~disturbed =>
    wanted \ (given \cup refused) \subseteq UNION {tracked[c] : c \in Spawned}

\* Whatever the venue does, an asset that the pool put on a connection and
\* leaves there gets served, unless its command did not fit or the pool stops.
Served ==
  \A c \in Slots, a \in Tokens :
    (c \in Spawned /\ a \in tracked[c])
      ~> (a \in served[c] \/ a \in retired[c] \cup lost[c] \/ ~running)
=============================================================================
