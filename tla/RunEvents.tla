------------------------------- MODULE RunEvents -------------------------------
(***************************************************************************)
(* The replayable event stream of one Run: RunHandle and the SSE endpoint  *)
(* of src/openppx/runtime/client_api_service.py, and the reconnecting      *)
(* client of src/apps/desktop/electron/main/client-api-run-stream.ts.      *)
(*                                                                         *)
(* The Run's worker thread publishes; the request thread of each client    *)
(* subscribes and then writes what its queue holds.  Both take the lock of *)
(* the handle to look at the history and the list of subscribers and put   *)
(* into the queues after having released it, so one action is one critical *)
(* section or one put.  An event is its sequence number; the last one is   *)
(* "run.finished".  A queue whose client went away is no longer read, so   *)
(* only the current queue of each client is modelled.                      *)
(***************************************************************************)
EXTENDS Integers, Sequences, SequencesExt

CONSTANTS
    Clients,       \* clients that follow the Run
    LastEvent,     \* number of events the Run publishes
    MaxDrops       \* bound: connections that break

ASSUME EventAssumption == LastEvent \in Nat \ {0}
ASSUME DropAssumption == MaxDrops \in Nat

VARIABLES
    history,       \* events in self._history: 1..history
    done,          \* self.done
    subscribers,   \* self._subscribers, by client
    toPut,         \* queues the worker has yet to put its item into
    queue,         \* the queue of each client's current request
    replay,        \* what subscribe has yet to put into it
    since,         \* Last-Event-ID of that request
    pc,            \* where the client and its request thread are
    lastEventId,   \* the client's lastEventId
    delivered,     \* events the client handed to the application
    drops          \* history: connections that broke so far

handleVars == <<history, done, subscribers, toPut>>
requestVars == <<queue, replay, since>>
clientVars == <<lastEventId, delivered>>
vars == <<handleVars, requestVars, pc, clientVars, drops>>

\* The None that ends a stream.
End == 0

Events == 1..LastEvent

TypeOK ==
    /\ history \in 0..LastEvent
    /\ done \in BOOLEAN
    /\ subscribers \subseteq Clients
    /\ toPut \subseteq Clients
    /\ queue \in [Clients -> Seq(Events \cup {End})]
    /\ replay \in [Clients -> Seq(Events \cup {End})]
    /\ since \in [Clients -> 0..LastEvent]
    /\ pc \in [Clients -> {"idle", "connect", "replay", "stream", "returned"}]
    /\ lastEventId \in [Clients -> 0..LastEvent]
    /\ delivered \in [Clients -> SUBSET Events]
    /\ drops \in 0..MaxDrops

Init ==
    /\ history = 0
    /\ done = FALSE
    /\ subscribers = {}
    /\ toPut = {}
    /\ queue = [c \in Clients |-> <<>>]
    /\ replay = [c \in Clients |-> <<>>]
    /\ since = [c \in Clients |-> 0]
    /\ pc = [c \in Clients |-> "idle"]
    /\ lastEventId = [c \in Clients |-> 0]
    /\ delivered = [c \in Clients |-> {}]
    /\ drops = 0

-----------------------------------------------------------------------------
(* The worker thread of the Run *)

\* publish: append to the history and copy the list of subscribers.
Publish ==
    /\ toPut = {}
    /\ history < LastEvent
    /\ history' = history + 1
    /\ toPut' = subscribers
    /\ UNCHANGED <<done, subscribers, requestVars, pc, clientVars, drops>>

\* Mutant of Finish: the subscribers are forgotten before they are told.
FinishUntold ==
    /\ toPut = {}
    /\ history = LastEvent
    /\ ~done
    /\ done' = TRUE
    /\ subscribers' = {}
    /\ UNCHANGED <<history, toPut, requestVars, pc, clientVars, drops>>

\* finish: close the stream of those who are subscribed.
Finish ==
    /\ toPut = {}
    /\ history = LastEvent
    /\ ~done
    /\ done' = TRUE
    /\ toPut' = subscribers
    /\ subscribers' = {}
    /\ UNCHANGED <<history, requestVars, pc, clientVars, drops>>

\* Their puts, after the lock was released.
Put(c) ==
    /\ c \in toPut
    /\ toPut' = toPut \ {c}
    /\ queue' = [queue EXCEPT ![c] = Append(@, IF done THEN End ELSE history)]
    /\ UNCHANGED <<history, done, subscribers, replay, since, pc, clientVars,
                   drops>>

-----------------------------------------------------------------------------
(* A client and the thread that serves its request *)

Open(c) ==
    /\ pc[c] = "idle"
    /\ pc' = [pc EXCEPT ![c] = "connect"]
    /\ UNCHANGED <<handleVars, requestVars, clientVars, drops>>

\* Mutants of Subscribe: the event the client has seen last is replayed again; a
\* client that has events to catch up with is not registered.
SubscribeInclusive(c) ==
    LET first == IF lastEventId[c] = 0 THEN 1 ELSE lastEventId[c]
        missed == [i \in 1..(history - first + 1) |-> first + i - 1]
    IN
    /\ pc[c] = "connect"
    /\ queue' = [queue EXCEPT ![c] = <<>>]
    /\ replay' = [replay EXCEPT ![c] = IF done THEN Append(missed, End)
                                               ELSE missed]
    /\ since' = [since EXCEPT ![c] = lastEventId[c]]
    /\ subscribers' = IF done THEN subscribers ELSE subscribers \cup {c}
    /\ pc' = [pc EXCEPT ![c] = "replay"]
    /\ UNCHANGED <<history, done, toPut, clientVars, drops>>

SubscribeUnregistered(c) ==
    LET missed == [i \in 1..(history - lastEventId[c]) |-> lastEventId[c] + i] IN
    /\ pc[c] = "connect"
    /\ queue' = [queue EXCEPT ![c] = <<>>]
    /\ replay' = [replay EXCEPT ![c] = IF done THEN Append(missed, End)
                                               ELSE missed]
    /\ since' = [since EXCEPT ![c] = lastEventId[c]]
    /\ subscribers' = IF done \/ missed # <<>> THEN subscribers
                                               ELSE subscribers \cup {c}
    /\ pc' = [pc EXCEPT ![c] = "replay"]
    /\ UNCHANGED <<history, done, toPut, clientVars, drops>>

\* The critical section of subscribe.
Subscribe(c) ==
    LET missed == [i \in 1..(history - lastEventId[c]) |-> lastEventId[c] + i] IN
    /\ pc[c] = "connect"
    /\ queue' = [queue EXCEPT ![c] = <<>>]
    /\ replay' = [replay EXCEPT ![c] = IF done THEN Append(missed, End)
                                               ELSE missed]
    /\ since' = [since EXCEPT ![c] = lastEventId[c]]
    /\ subscribers' = IF done THEN subscribers ELSE subscribers \cup {c}
    /\ pc' = [pc EXCEPT ![c] = "replay"]
    /\ UNCHANGED <<history, done, toPut, clientVars, drops>>

\* Its puts, after the lock was released; then the stream is written.
Replay(c) ==
    /\ pc[c] = "replay"
    /\ IF replay[c] = <<>>
       THEN /\ pc' = [pc EXCEPT ![c] = "stream"]
            /\ UNCHANGED <<queue, replay>>
       ELSE /\ queue' = [queue EXCEPT ![c] = Append(@, Head(replay[c]))]
            /\ replay' = [replay EXCEPT ![c] = Tail(@)]
            /\ UNCHANGED pc
    /\ UNCHANGED <<handleVars, since, clientVars, drops>>

\* Mutant of Receive: the end of the stream is taken for an event.
ReceiveAnything(c) ==
    /\ pc[c] = "stream"
    /\ queue[c] # <<>>
    /\ queue' = [queue EXCEPT ![c] = Tail(@)]
    /\ lastEventId' = [lastEventId EXCEPT ![c] = Head(queue[c])]
    /\ delivered' = [delivered EXCEPT ![c] = @ \cup {Head(queue[c])}]
    /\ UNCHANGED <<handleVars, replay, since, pc, drops>>

\* _write_run_event_stream and the client's deliver, which remembers the id
\* before it drops an event it has already delivered.
Receive(c) ==
    /\ pc[c] = "stream"
    /\ queue[c] # <<>>
    /\ Head(queue[c]) # End
    /\ queue' = [queue EXCEPT ![c] = Tail(@)]
    /\ lastEventId' = [lastEventId EXCEPT ![c] = Head(queue[c])]
    /\ delivered' = [delivered EXCEPT ![c] = @ \cup {Head(queue[c])}]
    /\ UNCHANGED <<handleVars, replay, since, pc, drops>>

\* The response ends.  The client is satisfied if it saw the terminal event and
\* connects again if not.
StreamEnds(c) ==
    /\ pc[c] = "stream"
    /\ queue[c] # <<>>
    /\ Head(queue[c]) = End
    /\ pc' = [pc EXCEPT ![c] = IF LastEvent \in delivered[c] THEN "returned"
                                                             ELSE "connect"]
    /\ UNCHANGED <<handleVars, requestVars, clientVars, drops>>

\* The connection breaks and the client, after a delay, opens another one.
Drop(c) ==
    /\ pc[c] \in {"replay", "stream"}
    /\ drops < MaxDrops
    /\ drops' = drops + 1
    /\ subscribers' = subscribers \ {c}
    /\ toPut' = toPut \ {c}
    /\ pc' = [pc EXCEPT ![c] = "connect"]
    /\ UNCHANGED <<history, done, requestVars, clientVars>>

-----------------------------------------------------------------------------
(* The specification *)

WorkerStep == Publish \/ Finish \/ \E c \in Clients : Put(c)

ClientStep(c) == Subscribe(c) \/ Replay(c) \/ Receive(c) \/ StreamEnds(c)

Next == WorkerStep \/ \E c \in Clients : Open(c) \/ ClientStep(c) \/ Drop(c)

\* The Run ends, and threads and connected clients get to run.
Fairness == WF_vars(WorkerStep) /\ \A c \in Clients : WF_vars(ClientStep(c))

Spec == Init /\ [][Next]_vars /\ Fairness

-----------------------------------------------------------------------------
(* Properties *)

\* A queue holds only events the client has not acknowledged, each once, and is
\* closed once: what subscribe replays and what publish fans out never overlap,
\* wherever between the worker's critical sections the subscription falls.
QueuedOnce ==
    \A c \in Clients :
        /\ IsInjective(queue[c] \o replay[c])
        /\ \A i \in DOMAIN queue[c] : queue[c][i] = End \/ queue[c][i] > since[c]

\* Nothing falls between replay and fan-out either: every event published since
\* the client's Last-Event-ID is delivered, in its queue or about to be put there.
NothingMissing ==
    \A c \in Clients, e \in Events :
        pc[c] \in {"replay", "stream"} /\ since[c] < e /\ e <= history
            => \/ e \in delivered[c] \cup ToSet(queue[c]) \cup ToSet(replay[c])
               \/ c \in toPut /\ ~done /\ e = history

\* However subscriptions, breaks and the end of the Run interleave, a client that
\* opened the stream sees "run.finished" and returns: no stream stays open with
\* nobody left to close it, and no client reconnects for ever.
FollowedToTheEnd ==
    \A c \in Clients : (pc[c] # "idle") ~> (pc[c] = "returned")

\* "Create one subscriber queue and replay retained history": a client that has
\* followed the Run to its end has received every event of it.
ReturnedClientHasAllEvents ==
    \A c \in Clients : pc[c] = "returned" => delivered[c] = Events
=============================================================================
