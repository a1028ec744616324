----------------------------- MODULE SyncNetwork -----------------------------
(***************************************************************************)
(* The two locks behind desktop sync: the RwLock around a daemon's library  *)
(* state and the Mutex `active` of its SyncRuntime, which holds the Iroh    *)
(* router while the network is started.  Handlers await one lock while they *)
(* hold the other, and a transfer holds `active` while the peer's accept    *)
(* handler waits for the peer's own state lock.  Source:                    *)
(* native_core/src/sync_transport.rs and the handlers of service.rs that    *)
(* call the runtime.                                                        *)
(*                                                                          *)
(* A call is the list of the lock operations and awaits it has still to do; *)
(* what it reads and writes under the locks is left to the other modules.   *)
(* Both locks of tokio are fair: they are granted in the order they were    *)
(* asked for, and a reader queues behind a writer that asked before it.     *)
(***************************************************************************)
EXTENDS Integers, Sequences, FiniteSets, SequencesExt

CONSTANTS
    Daemons,    \* paired desktops, at least two when calls transfer
    Callers,    \* concurrent calls
    Home,       \* Home[c]: the daemon that caller c calls
    Target,     \* Target[d]: the peer that d transfers to and from
    Kinds       \* the calls the clients make

ASSUME NetworkAssumption ==
    /\ IsFiniteSet(Daemons) /\ IsFiniteSet(Callers)
    /\ Home \in [Callers -> Daemons]
    /\ Target \in [Daemons -> Daemons]
    /\ \A d \in Daemons : Target[d] # d
    /\ Kinds \subseteq {"edit", "workspace", "status", "start", "stop", "endpoint",
                        "push", "pull"}

VARIABLES
    todo,       \* todo[a]: the operations actor a has still to do
    lock,       \* lock[d][x]: who asked for lock x of d and has not freed it
    started     \* the daemons whose runtime is active

netVars == <<todo, lock, started>>

-----------------------------------------------------------------------------
(* The operations of a call. *)

Ask(x, mode) == [op |-> "ask", lock |-> x, mode |-> mode]
Free(x) == [op |-> "free", lock |-> x, mode |-> "none"]
Do(what) == [op |-> what, lock |-> "none", mode |-> "none"]

\* A handler that reads, or changes and saves, the library state.
ReadState == <<Ask("state", "read"), Free("state")>>
Edit == <<Ask("state", "write"), Free("state")>>

\* SyncRuntime::status.
RuntimeStatus == <<Ask("active", "write"), Free("active")>>

\* sync_network_status reads the state lock first and keeps it.
NetworkStatus == <<Ask("state", "read")>> \o RuntimeStatus \o <<Free("state")>>

\* SyncRuntime::start; refresh_local_endpoint_payload edits under `active`.
StartRuntime == <<Ask("active", "write"), Do("bind")>> \o Edit
                    \o <<Do("spawn"), Free("active")>>

\* Fault: the runtime is taken without its lock.
StopUnlocked == <<Do("take"), Do("shutdown")>>

\* SyncRuntime::stop; the router shuts down after the lock is given back.
StopRuntime == <<Ask("active", "write"), Do("take"), Free("active"), Do("shutdown")>>

\* receive_envelope: two checks, then the commit.
Receive == ReadState \o ReadState \o Edit

\* Fault: the rows stay locked while they are sent.
SendBlobLocked == <<Ask("active", "write"), Ask("state", "read"), Do("push"),
                    Do("reply"), Free("state"), Free("active")>>

\* send_blob and request_blob.
SendBlob == <<Ask("active", "write"), Do("push"), Do("reply"), Free("active")>>
RequestBlob == <<Ask("active", "write"), Do("pull"), Do("reply")>> \o Receive
                  \o <<Free("active")>>

\* VaultSyncHandler::accept_inner for either request.
AcceptPush == ReadState \o Receive
AcceptPull == ReadState \o ReadState

\* run_sync with one job: plan, execute, start, exchange, record, audit.
RecordOutcome == <<Ask("state", "write"), Do("record"), Free("state")>> \o Edit
RunSync(exchange) == Edit \o Edit \o StartRuntime \o exchange \o RecordOutcome

\* start_sync_network and stop_sync_network end so.
AuditAndStatus == Edit \o NetworkStatus

\* mobile_workspace.
Workspace == RuntimeStatus \o Edit

Call(kind) ==
    CASE kind = "edit"      -> Edit
      [] kind = "workspace" -> Workspace
      [] kind = "status"    -> NetworkStatus
      [] kind = "start"     -> Edit \o StartRuntime \o AuditAndStatus
      [] kind = "stop"      -> StopRuntime \o AuditAndStatus
      [] kind = "endpoint"  -> Edit \o StartRuntime
      [] kind = "push"      -> RunSync(SendBlob)
      [] kind = "pull"      -> RunSync(RequestBlob)

-----------------------------------------------------------------------------
(* Actors and locks. *)

\* The connection that a transfer of caller c opens is served on the peer.
Server(c) == <<"server", c>>
Actors == Callers \cup {Server(c) : c \in Callers}

\* The daemon an actor runs on.
On == [a \in Actors |-> IF a \in Callers THEN Home[a] ELSE Target[Home[a[2]]]]

Next1(a) == Head(todo[a])
Before(a, op) == todo[a] # <<>> /\ Next1(a).op = op

\* Entry k of a queue holds the lock when it is the first, or when it and all
\* before it are readers.
Granted(queue, k) == k = 1 \/ \A j \in 1 .. k : queue[j].mode = "read"

Holds(a, d, x) ==
    \E k \in DOMAIN lock[d][x] : lock[d][x][k].who = a /\ Granted(lock[d][x], k)
Waits(a, d, x) ==
    \E k \in DOMAIN lock[d][x] : lock[d][x][k].who = a /\ ~Granted(lock[d][x], k)
Runnable(a) == \A x \in {"state", "active"} : ~Waits(a, On[a], x)

\* Any moment without calls: each network may have been started before.
NetInit ==
    /\ todo = [a \in Actors |-> <<>>]
    /\ lock = [d \in Daemons |-> [x \in {"state", "active"} |-> <<>>]]
    /\ started \in SUBSET Daemons

\* The operation at the head is done.
Does(a, op) ==
    /\ Before(a, op)
    /\ Runnable(a)
    /\ todo' = [todo EXCEPT ![a] = Tail(@)]

-----------------------------------------------------------------------------
Begin(c, kind) ==
    /\ todo[c] = <<>>
    /\ todo' = [todo EXCEPT ![c] = Call(kind)]
    /\ UNCHANGED <<lock, started>>

AskLock(a) ==
    /\ Does(a, "ask")
    /\ lock' = [lock EXCEPT ![On[a]][Next1(a).lock] =
                    Append(@, [who |-> a, mode |-> Next1(a).mode])]
    /\ UNCHANGED started

\* The guard is dropped: the actor leaves the queue.
FreeLock(a) ==
    /\ Does(a, "free")
    /\ \E k \in DOMAIN lock[On[a]][Next1(a).lock] :
          /\ lock[On[a]][Next1(a).lock][k].who = a
          /\ lock' = [lock EXCEPT ![On[a]][Next1(a).lock] = RemoveAt(@, k)]
    /\ UNCHANGED started

\* start: the endpoint is bound, ...
Bind(c) ==
    /\ Does(c, "bind")
    /\ On[c] \notin started
    /\ UNCHANGED <<lock, started>>

\* ... or the runtime is active already and its payload is returned.
StartedAlready(c) ==
    /\ Before(c, "bind")
    /\ Runnable(c)
    /\ On[c] \in started
    /\ todo' = [todo EXCEPT ![c] = SubSeq(@, 5, Len(@))]
    /\ UNCHANGED <<lock, started>>

Spawn(c) ==
    /\ Does(c, "spawn")
    /\ started' = started \cup {On[c]}
    /\ UNCHANGED lock

Take(c) ==
    /\ Does(c, "take")
    /\ started' = started \ {On[c]}
    /\ UNCHANGED lock

\* The router shuts down; rows and audit events are written.
Work(c) ==
    /\ Does(c, "shutdown") \/ Does(c, "record")
    /\ UNCHANGED <<lock, started>>

\* The peer's router accepts the connection.
Connect(c, op, accept) ==
    /\ Before(c, op)
    /\ Runnable(c)
    /\ {On[c], On[Server(c)]} \subseteq started
    /\ todo[Server(c)] = <<>>
    /\ todo' = [todo EXCEPT ![c] = Tail(@), ![Server(c)] = accept]
    /\ UNCHANGED <<lock, started>>

\* The answer arrives when the peer is done.
Reply(c) ==
    /\ Does(c, "reply")
    /\ todo[Server(c)] = <<>>
    /\ UNCHANGED <<lock, started>>

\* An error return: the guards are dropped.  run_sync turns an error of the
\* runtime into failed transfers, which it records; other calls end.
GivesUp(a) ==
    todo' = [todo EXCEPT ![a] =
        (IF Holds(a, On[a], "state") THEN <<Free("state")>> ELSE <<>>)
        \o (IF ~Holds(a, On[a], "active") THEN <<>>
            ELSE <<Free("active")>> \o
                 (IF Do("record") \in ToSet(todo[a]) THEN RecordOutcome ELSE <<>>))]

\* The runtime was not started, or the peer's cannot be reached.
NoConnection(c) ==
    /\ Before(c, "push") \/ Before(c, "pull")
    /\ Runnable(c)
    /\ ~({On[c], On[Server(c)]} \subseteq started)
    /\ GivesUp(c)
    /\ UNCHANGED <<lock, started>>

\* The endpoint cannot be bound, a save fails, or the exchange does: the
\* connection breaks, the answer is a refusal.
Fail(c) ==
    /\ todo[c] # <<>> /\ Runnable(c)
    /\ \/ Next1(c).op \in {"bind", "push", "pull", "reply"}
       \/ Next1(c) = Free("state") /\ Len(todo[c]) > 1
    /\ GivesUp(c)
    /\ UNCHANGED <<lock, started>>

\* The connection is gone, or the request is refused.
ServerFails(c) ==
    /\ Before(Server(c), "free")
    /\ Runnable(Server(c))
    /\ Len(todo[Server(c)]) > 1
    /\ GivesUp(Server(c))
    /\ UNCHANGED <<lock, started>>

LockStep(a) == AskLock(a) \/ FreeLock(a)

Act(c) ==
    \/ LockStep(c)
    \/ Bind(c)
    \/ StartedAlready(c)
    \/ Spawn(c)
    \/ Take(c)
    \/ Work(c)
    \/ Connect(c, "push", AcceptPush)
    \/ Connect(c, "pull", AcceptPull)
    \/ NoConnection(c)
    \/ Reply(c)

NetNext ==
    \/ \E c \in Callers, kind \in Kinds : Begin(c, kind)
    \/ \E c \in Callers : Act(c) \/ Fail(c) \/ LockStep(Server(c)) \/ ServerFails(c)

\* tokio runs every task that can go on, and its locks are fair.  No failure is
\* counted on to end a wait, except that an unreachable peer is noticed.
NetSpec ==
    /\ NetInit /\ [][NetNext]_netVars
    /\ \A c \in Callers : WF_netVars(Act(c)) /\ WF_netVars(LockStep(Server(c)))

-----------------------------------------------------------------------------
(* Properties. *)

\* Queues name actors that are on that daemon, once each, and an actor between
\* calls has freed every lock.
NetTypeOK ==
    /\ started \subseteq Daemons
    /\ \A d \in Daemons, x \in {"state", "active"} :
          \A j, k \in DOMAIN lock[d][x] :
             LET e == lock[d][x][k]
             IN  /\ e.who \in Actors /\ e.mode \in {"read", "write"}
                 /\ On[e.who] = d /\ todo[e.who] # <<>>
                 /\ lock[d][x][j].who = e.who => j = k

\* While a transfer talks to its peer, and while start binds the endpoint, the
\* runtime is not taken away or put in place by another call.
RuntimeIsHeld ==
    [][\A d \in Daemons, c \in Callers :
          On[c] = d /\ Holds(c, d, "active") /\ todo'[c] = todo[c]
              => (d \in started) = (d \in started')]_netVars

\* Nobody waits for a lock whose holder waits, over one or two locks, for the
\* first: the daemon would answer nothing any more.
NoCircularWait ==
    \A d \in Daemons, a, b \in Actors :
        ~(/\ Holds(a, d, "state") /\ Waits(a, d, "active")
          /\ Holds(b, d, "active") /\ Waits(b, d, "state"))

\* Every call returns: with calls that never hold the state lock when they ask
\* for the runtime, nothing two daemons do to each other hangs one of them.
EveryCallReturns == \A c \in Callers : todo[c] # <<>> ~> todo[c] = <<>>
=============================================================================
