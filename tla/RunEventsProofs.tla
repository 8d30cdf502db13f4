----------------------------- MODULE RunEventsProofs -----------------------------
(***************************************************************************)
(* Theorems of RunEvents, for any clients, events and broken connections.  *)
(* What subscribe replays and what publish fans out make one whole because *)
(* a client is registered in the critical section that reads the history,  *)
(* and the worker does not publish the next event before it has put the    *)
(* last one into every queue.                                              *)
(***************************************************************************)
EXTENDS RunEvents, SequenceTheorems, TLAPS

\* A request is being served.
Following(c) == pc[c] \in {"replay", "stream"}

\* What the queue of a request holds or is about to hold from the replay.
Held(c) == ToSet(queue[c]) \cup ToSet(replay[c])

\* Whoever is followed by the worker is being served, and until the Run is done the
\* other way round.
StreamInv ==
    /\ done => subscribers = {} /\ history = LastEvent
    /\ \A c \in Clients :
           /\ c \in subscribers \cup toPut => Following(c)
           /\ Following(c) /\ ~done => c \in subscribers
           /\ lastEventId[c] <= history /\ since[c] <= history

\* Nothing is held twice, and what the worker is about to put is not held yet.
Once(c) ==
    /\ IsInjective(queue[c]) /\ IsInjective(replay[c])
    /\ ToSet(queue[c]) \cap ToSet(replay[c]) = {}
    /\ Held(c) \subseteq {End} \cup (since[c] + 1)..history
    /\ End \in Held(c) => done /\ c \notin toPut
    /\ c \in toPut /\ ~done => since[c] < history /\ history \notin Held(c)

OnceInv == \A c \in Clients : Once(c)

IInv == TypeOK /\ StreamInv /\ OnceInv /\ NothingMissing

-----------------------------------------------------------------------------
(* Sequences that hold nothing twice *)

\* A sequence without repetition stays one when something new is appended.
LEMMA AppendOnce ==
    ASSUME NEW S, NEW s \in Seq(S), NEW x \in S, x \notin ToSet(s), IsInjective(s)
    PROVE  /\ Append(s, x) \in Seq(S) /\ IsInjective(Append(s, x))
           /\ ToSet(Append(s, x)) = ToSet(s) \cup {x}
BY AppendProperties, LenProperties DEF ToSet, IsInjective

\* Its tail has lost its head and nothing else.
LEMMA TailOnce ==
    ASSUME NEW S, NEW s \in Seq(S), s # <<>>, IsInjective(s)
    PROVE  /\ Head(s) \in ToSet(s) /\ Head(s) \in S
           /\ Tail(s) \in Seq(S) /\ IsInjective(Tail(s))
           /\ ToSet(Tail(s)) = ToSet(s) \ {Head(s)}
<1>1. Len(s) \in Nat \ {0} /\ DOMAIN s = 1..Len(s) /\ Head(s) = s[1]
  BY EmptySeq, LenProperties
<1>2. /\ Tail(s) \in Seq(S) /\ Len(Tail(s)) = Len(s) - 1 /\ DOMAIN Tail(s) = 1..(Len(s) - 1)
      /\ \A i \in 1..(Len(s) - 1) : Tail(s)[i] = s[i + 1]
  BY HeadTailProperties, LenProperties
<1>3. Head(s) \in ToSet(s) /\ Head(s) \in S
  BY <1>1, ElementOfSeq DEF ToSet
<1>4. IsInjective(Tail(s))
  BY <1>1, <1>2 DEF IsInjective
<1>5. ToSet(Tail(s)) \subseteq ToSet(s) \ {Head(s)}
  BY <1>1, <1>2 DEF ToSet, IsInjective
<1>6. ASSUME NEW x \in ToSet(s), x # Head(s) PROVE x \in ToSet(Tail(s))
  <2>1. PICK i \in 1..Len(s) : x = s[i]
    BY <1>1 DEF ToSet
  <2>2. i - 1 \in 1..(Len(s) - 1) /\ Tail(s)[i - 1] = x
    BY <1>1, <1>2, <1>6, <2>1
  <2> QED
    BY <1>2, <2>2 DEF ToSet
<1> QED
  BY <1>2, <1>3, <1>4, <1>5, <1>6

\* The events after the k-th in their order.
LEMMA MissedOnce ==
    ASSUME NEW k \in Nat, NEW h \in Nat, k <= h, h <= LastEvent, LastEvent \in Nat
    PROVE  LET missed == [i \in 1..(h - k) |-> k + i]
           IN  /\ missed \in Seq(Events \cup {End}) /\ IsInjective(missed)
               /\ ToSet(missed) = (k + 1)..h
<1> DEFINE missed == [i \in 1..(h - k) |-> k + i]
<1>1. missed \in Seq(Events \cup {End})
  BY DEF Events
<1>2. IsInjective(missed)
  BY DEF IsInjective
<1>3. \A e \in (k + 1)..h : e - k \in 1..(h - k) /\ missed[e - k] = e
  OBVIOUS
<1>4. ToSet(missed) = (k + 1)..h
  BY <1>3 DEF ToSet
<1> QED
  BY <1>1, <1>2, <1>4

\* Two sequences without repetition and without a common element, one after the other.
LEMMA ConcatOnce ==
    ASSUME NEW S, NEW s \in Seq(S), NEW t \in Seq(S), IsInjective(s), IsInjective(t),
           ToSet(s) \cap ToSet(t) = {}
    PROVE  IsInjective(s \o t)
<1>1. /\ Len(s) \in Nat /\ Len(t) \in Nat /\ DOMAIN s = 1..Len(s) /\ DOMAIN t = 1..Len(t)
      /\ DOMAIN (s \o t) = 1..(Len(s) + Len(t))
      /\ \A i \in 1..(Len(s) + Len(t)) :
             (s \o t)[i] = IF i <= Len(s) THEN s[i] ELSE t[i - Len(s)]
  BY ConcatProperties, LenProperties
<1>2. \A i \in 1..Len(s), j \in 1..Len(t) : s[i] # t[j]
  BY <1>1 DEF ToSet
<1>3. ASSUME NEW i \in DOMAIN (s \o t), NEW j \in DOMAIN (s \o t), (s \o t)[i] = (s \o t)[j]
      PROVE  i = j
  <2>1. CASE i <= Len(s) /\ j <= Len(s)
    BY <1>1, <1>3, <2>1 DEF IsInjective
  <2>2. CASE i > Len(s) /\ j > Len(s)
    <3>1. i - Len(s) \in DOMAIN t /\ j - Len(s) \in DOMAIN t /\ t[i - Len(s)] = t[j - Len(s)]
      BY <1>1, <1>3, <2>2
    <3>2. i - Len(s) = j - Len(s)
      BY <3>1 DEF IsInjective
    <3> QED
      BY <1>1, <3>2
  <2>3. CASE i <= Len(s) /\ j > Len(s)
    BY <1>1, <1>2, <1>3, <2>3
  <2>4. CASE i > Len(s) /\ j <= Len(s)
    BY <1>1, <1>2, <1>3, <2>4
  <2> QED
    BY <1>1, <2>1, <2>2, <2>3, <2>4
<1> QED
  BY <1>3 DEF IsInjective
-----------------------------------------------------------------------------
(* The steps on one queue *)

\* What the worker puts into a queue is an event or the end of the stream, and new.
LEMMA PutIsNew ==
    ASSUME TypeOK, StreamInv, OnceInv, NEW c \in Clients, Put(c)
    PROVE  LET item == IF done THEN End ELSE history
           IN  /\ item \in Events \cup {End} /\ item \notin Held(c)
               /\ queue' \in [Clients -> Seq(Events \cup {End})]
               /\ IsInjective(queue'[c]) /\ ToSet(queue'[c]) = ToSet(queue[c]) \cup {item}
               /\ \A d \in Clients \ {c} : queue'[d] = queue[d]
<1> DEFINE item == IF done THEN End ELSE history
<1>1. item \in Events \cup {End} /\ item \notin Held(c)
  BY EventAssumption DEF TypeOK, OnceInv, Once, Put, Events, End
<1>2. /\ queue[c] \in Seq(Events \cup {End}) /\ IsInjective(queue[c])
      /\ item \notin ToSet(queue[c])
  BY <1>1 DEF TypeOK, OnceInv, Once, Held
<1>3. /\ Append(queue[c], item) \in Seq(Events \cup {End})
      /\ IsInjective(Append(queue[c], item))
      /\ ToSet(Append(queue[c], item)) = ToSet(queue[c]) \cup {item}
  <2> HIDE DEF item
  <2> QED
    BY <1>1, <1>2, AppendOnce
<1>4. queue' = [queue EXCEPT ![c] = Append(queue[c], item)]
  BY DEF Put
<1> QED
  <2> HIDE DEF item
  <2>1. /\ queue'[c] = Append(queue[c], item)
        /\ queue' \in [Clients -> Seq(Events \cup {End})]
        /\ \A d \in Clients \ {c} : queue'[d] = queue[d]
    BY <1>3, <1>4 DEF TypeOK
  <2> QED
    BY <1>1, <1>3, <2>1 DEF item

\* What subscribe replays are the events after the client's last one, and the end of
\* the stream when the Run is done.
LEMMA SubscribeReplays ==
    ASSUME TypeOK, StreamInv, NEW c \in Clients, Subscribe(c)
    PROVE  /\ replay' \in [Clients -> Seq(Events \cup {End})] /\ IsInjective(replay'[c])
           /\ ToSet(replay'[c]) = (lastEventId[c] + 1)..history \cup IF done THEN {End} ELSE {}
           /\ queue' \in [Clients -> Seq(Events \cup {End})]
           /\ IsInjective(queue'[c]) /\ ToSet(queue'[c]) = {}
           /\ \A d \in Clients \ {c} : queue'[d] = queue[d] /\ replay'[d] = replay[d]
<1> DEFINE missed == [i \in 1..(history - lastEventId[c]) |-> lastEventId[c] + i]
           shown == IF done THEN Append(missed, End) ELSE missed
<1>1. /\ lastEventId[c] \in Nat /\ history \in Nat /\ lastEventId[c] <= history
      /\ history <= LastEvent /\ LastEvent \in Nat
  BY EventAssumption DEF TypeOK, StreamInv
<1>2. /\ missed \in Seq(Events \cup {End}) /\ IsInjective(missed)
      /\ ToSet(missed) = (lastEventId[c] + 1)..history
  BY <1>1, MissedOnce
<1>3. replay' = [replay EXCEPT ![c] = shown] /\ queue' = [queue EXCEPT ![c] = <<>>]
  BY DEF Subscribe
<1> HIDE DEF missed
<1>4. /\ shown \in Seq(Events \cup {End}) /\ IsInjective(shown)
      /\ ToSet(shown) = (lastEventId[c] + 1)..history \cup IF done THEN {End} ELSE {}
  <2>1. End \notin ToSet(missed)
    BY <1>1, <1>2 DEF End
  <2>2. PICK m \in Seq(Events \cup {End}) : m = missed
    BY <1>2
  <2>3. /\ Append(m, End) \in Seq(Events \cup {End}) /\ IsInjective(Append(m, End))
        /\ ToSet(Append(m, End)) = ToSet(m) \cup {End}
    <3>1. IsInjective(m) /\ End \notin ToSet(m) /\ End \in Events \cup {End}
      BY <1>2, <2>1, <2>2
    <3> QED
      BY <3>1, AppendOnce
  <2> QED
    BY <1>2, <2>2, <2>3
<1>5. <<>> \in Seq(Events \cup {End}) /\ IsInjective(<<>>) /\ ToSet(<<>>) = {}
  BY EmptySeq DEF IsInjective, ToSet
<1> HIDE DEF shown
<1>6. /\ replay' \in [Clients -> Seq(Events \cup {End})] /\ replay'[c] = shown
      /\ queue' \in [Clients -> Seq(Events \cup {End})] /\ queue'[c] = <<>>
      /\ \A d \in Clients \ {c} : queue'[d] = queue[d] /\ replay'[d] = replay[d]
  BY <1>3, <1>4, <1>5 DEF TypeOK
<1> QED
  BY <1>4, <1>5, <1>6

\* A replayed item goes from one sequence to the other.
LEMMA ReplayMoves ==
    ASSUME TypeOK, OnceInv, NEW c \in Clients, Replay(c), replay[c] # <<>>
    PROVE  LET item == Head(replay[c])
           IN  /\ item \in ToSet(replay[c])
               /\ replay' \in [Clients -> Seq(Events \cup {End})]
               /\ IsInjective(replay'[c]) /\ ToSet(replay'[c]) = ToSet(replay[c]) \ {item}
               /\ queue' \in [Clients -> Seq(Events \cup {End})]
               /\ IsInjective(queue'[c]) /\ ToSet(queue'[c]) = ToSet(queue[c]) \cup {item}
               /\ \A d \in Clients \ {c} : queue'[d] = queue[d] /\ replay'[d] = replay[d]
<1> DEFINE item == Head(replay[c])
<1>1. /\ queue[c] \in Seq(Events \cup {End}) /\ replay[c] \in Seq(Events \cup {End})
      /\ IsInjective(queue[c]) /\ IsInjective(replay[c])
      /\ ToSet(queue[c]) \cap ToSet(replay[c]) = {}
  BY DEF TypeOK, OnceInv, Once
<1>2. /\ item \in ToSet(replay[c]) /\ item \in Events \cup {End}
      /\ Tail(replay[c]) \in Seq(Events \cup {End}) /\ IsInjective(Tail(replay[c]))
      /\ ToSet(Tail(replay[c])) = ToSet(replay[c]) \ {item}
  BY <1>1, TailOnce
<1>3. queue' = [queue EXCEPT ![c] = Append(queue[c], item)]
      /\ replay' = [replay EXCEPT ![c] = Tail(replay[c])]
  BY DEF Replay
<1> HIDE DEF item
<1>4. /\ Append(queue[c], item) \in Seq(Events \cup {End})
      /\ IsInjective(Append(queue[c], item))
      /\ ToSet(Append(queue[c], item)) = ToSet(queue[c]) \cup {item}
  <2>1. item \notin ToSet(queue[c])
    BY <1>1, <1>2
  <2> QED
    BY <1>1, <1>2, <2>1, AppendOnce
<1>5. /\ queue' \in [Clients -> Seq(Events \cup {End})] /\ queue'[c] = Append(queue[c], item)
      /\ replay' \in [Clients -> Seq(Events \cup {End})] /\ replay'[c] = Tail(replay[c])
      /\ \A d \in Clients \ {c} : queue'[d] = queue[d] /\ replay'[d] = replay[d]
  BY <1>2, <1>3, <1>4 DEF TypeOK
<1> QED
  BY <1>2, <1>4, <1>5 DEF item

\* A received event leaves the queue.
LEMMA ReceiveTakes ==
    ASSUME TypeOK, OnceInv, NEW c \in Clients, Receive(c)
    PROVE  LET item == Head(queue[c])
           IN  /\ item \in Events /\ item \in ToSet(queue[c]) /\ item <= history
               /\ queue' \in [Clients -> Seq(Events \cup {End})]
               /\ IsInjective(queue'[c]) /\ ToSet(queue'[c]) = ToSet(queue[c]) \ {item}
               /\ \A d \in Clients \ {c} : queue'[d] = queue[d]
<1> DEFINE item == Head(queue[c])
<1>1. queue[c] \in Seq(Events \cup {End}) /\ IsInjective(queue[c]) /\ queue[c] # <<>>
  BY DEF TypeOK, OnceInv, Once, Receive
<1>2. /\ item \in ToSet(queue[c]) /\ item \in Events \cup {End}
      /\ Tail(queue[c]) \in Seq(Events \cup {End}) /\ IsInjective(Tail(queue[c]))
      /\ ToSet(Tail(queue[c])) = ToSet(queue[c]) \ {item}
  BY <1>1, TailOnce
<1>3. queue' = [queue EXCEPT ![c] = Tail(queue[c])] /\ item # End
  BY DEF Receive
<1> HIDE DEF item
<1>4. item \in Events /\ item <= history
  <2>1. item \in Held(c)
    BY <1>2 DEF Held
  <2>2. item \in (since[c] + 1)..history
    BY <1>3, <2>1 DEF OnceInv, Once
  <2> QED
    BY <1>2, <1>3, <2>2 DEF TypeOK
<1>5. /\ queue' \in [Clients -> Seq(Events \cup {End})] /\ queue'[c] = Tail(queue[c])
      /\ \A d \in Clients \ {c} : queue'[d] = queue[d]
  BY <1>2, <1>3 DEF TypeOK
<1> QED
  BY <1>2, <1>4, <1>5 DEF item

-----------------------------------------------------------------------------
(* The invariant *)

\* Nobody has asked for anything.
LEMMA InitIInv == Init => IInv
<1> SUFFICES ASSUME Init PROVE IInv
  OBVIOUS
<1>1. <<>> \in Seq(Events \cup {End}) /\ IsInjective(<<>>) /\ ToSet(<<>>) = {}
  BY EmptySeq DEF IsInjective, ToSet
<1>2. TypeOK
  <2>1. /\ queue \in [Clients -> Seq(Events \cup {End})]
        /\ replay \in [Clients -> Seq(Events \cup {End})]
    BY <1>1 DEF Init
  <2>2. /\ history \in 0..LastEvent /\ drops \in 0..MaxDrops
        /\ since \in [Clients -> 0..LastEvent] /\ lastEventId \in [Clients -> 0..LastEvent]
    BY EventAssumption, DropAssumption DEF Init
  <2> QED
    BY <2>1, <2>2 DEF Init, TypeOK
<1>3. StreamInv
  BY DEF Init, StreamInv, Following
<1>4. OnceInv
  BY <1>1 DEF Init, OnceInv, Once, Held
<1>5. NothingMissing
  BY DEF Init, NothingMissing
<1> QED
  BY <1>2, <1>3, <1>4, <1>5 DEF IInv

\* Only events and ends of streams are put into queues.
LEMMA TypeStep ==
    ASSUME IInv, [Next]_vars
    PROVE  TypeOK'
<1> USE EventAssumption DEF IInv, handleVars, requestVars, clientVars
<1>1. CASE Publish
  BY <1>1 DEF Publish, TypeOK
<1>2. CASE Finish
  BY <1>2 DEF Finish, TypeOK
<1>3. ASSUME NEW c \in Clients, Put(c) PROVE TypeOK'
  BY <1>3, PutIsNew DEF Put, TypeOK
<1>4. ASSUME NEW c \in Clients, Open(c) PROVE TypeOK'
  BY <1>4 DEF Open, TypeOK
<1>5. ASSUME NEW c \in Clients, Subscribe(c) PROVE TypeOK'
  BY <1>5, SubscribeReplays DEF Subscribe, TypeOK
<1>6. ASSUME NEW c \in Clients, Replay(c) PROVE TypeOK'
  <2>1. CASE replay[c] = <<>>
    BY <1>6, <2>1 DEF Replay, TypeOK
  <2>2. CASE replay[c] # <<>>
    BY <1>6, <2>2, ReplayMoves DEF Replay, TypeOK
  <2> QED
    BY <2>1, <2>2
<1>7. ASSUME NEW c \in Clients, Receive(c) PROVE TypeOK'
  <2>1. Head(queue[c]) \in Events /\ queue' \in [Clients -> Seq(Events \cup {End})]
    BY <1>7, ReceiveTakes
  <2> HIDE DEF IInv
  <2> QED
    BY <1>7, <2>1 DEF Receive, TypeOK, IInv, Events
<1>8. ASSUME NEW c \in Clients, StreamEnds(c) PROVE TypeOK'
  BY <1>8 DEF StreamEnds, TypeOK
<1>9. ASSUME NEW c \in Clients, Drop(c) PROVE TypeOK'
  BY <1>9, DropAssumption DEF Drop, TypeOK
<1>10. CASE UNCHANGED vars
  BY <1>10 DEF vars, TypeOK
<1> QED
  BY <1>1, <1>2, <1>3, <1>4, <1>5, <1>6, <1>7, <1>8, <1>9, <1>10
  DEF Next, WorkerStep, ClientStep

\* A stream ends after the Run is done and after the worker has told the subscriber.
LEMMA StreamStep ==
    ASSUME IInv, [Next]_vars
    PROVE  StreamInv'
<1> USE DEF IInv, TypeOK, StreamInv, Following, handleVars, requestVars, clientVars
<1>1. CASE Publish
  BY <1>1 DEF Publish
<1>2. CASE Finish
  BY <1>2 DEF Finish
<1>3. ASSUME NEW c \in Clients, Put(c) PROVE StreamInv'
  BY <1>3 DEF Put
<1>4. ASSUME NEW c \in Clients, Open(c) PROVE StreamInv'
  BY <1>4 DEF Open
<1>5. ASSUME NEW c \in Clients, Subscribe(c) PROVE StreamInv'
  BY <1>5 DEF Subscribe
<1>6. ASSUME NEW c \in Clients, Replay(c) PROVE StreamInv'
  BY <1>6 DEF Replay
<1>7. ASSUME NEW c \in Clients, Receive(c) PROVE StreamInv'
  <2>1. Head(queue[c]) \in Events /\ Head(queue[c]) <= history
    BY <1>7, ReceiveTakes
  <2> QED
    BY <1>7, <2>1 DEF Receive, Events
<1>8. ASSUME NEW c \in Clients, StreamEnds(c) PROVE StreamInv'
  <2>1. Head(queue[c]) \in ToSet(queue[c])
    BY <1>8, TailOnce DEF StreamEnds, OnceInv, Once
  <2>2. done /\ c \notin toPut
    BY <1>8, <2>1 DEF StreamEnds, OnceInv, Once, Held
  <2> QED
    BY <1>8, <2>2 DEF StreamEnds
<1>9. ASSUME NEW c \in Clients, Drop(c) PROVE StreamInv'
  BY <1>9 DEF Drop
<1>10. CASE UNCHANGED vars
  BY <1>10 DEF vars
<1> QED
  BY <1>1, <1>2, <1>3, <1>4, <1>5, <1>6, <1>7, <1>8, <1>9, <1>10
  DEF Next, WorkerStep, ClientStep

\* An event is put while it is the newest, into queues that were registered before it.
LEMMA OnceStep ==
    ASSUME IInv, [Next]_vars
    PROVE  OnceInv'
<1> USE DEF IInv, handleVars, requestVars, clientVars
<1>1. CASE Publish
  <2> SUFFICES ASSUME NEW d \in Clients PROVE Once(d)'
    BY DEF OnceInv
  <2>1. /\ history' = history + 1 /\ history \in Nat /\ since[d] \in Nat /\ since[d] <= history
        /\ UNCHANGED <<done, since, queue, replay>> /\ (done => toPut' = {})
    BY <1>1, EventAssumption DEF Publish, TypeOK, StreamInv
  <2>2. Once(d) /\ Held(d)' = Held(d)
    BY <2>1 DEF OnceInv, Held
  <2>3. Held(d) \subseteq {0} \cup (since[d] + 1)..history /\ (0 \in Held(d) => done)
    BY <2>2 DEF Once, End
  <2>4. Held(d) \subseteq {0} \cup (since[d] + 1)..(history + 1) /\ history + 1 \notin Held(d)
    BY <2>1, <2>3
  <2> QED
    BY <2>1, <2>2, <2>3, <2>4 DEF Once, End
<1>2. CASE Finish
  BY <1>2 DEF Finish, TypeOK, StreamInv, OnceInv, Once, Held, End
<1>3. ASSUME NEW c \in Clients, Put(c) PROVE OnceInv'
  <2> SUFFICES ASSUME NEW d \in Clients PROVE Once(d)'
    BY DEF OnceInv
  <2>1. CASE d = c
    <3>1. /\ IsInjective(queue'[c]) /\ IsInjective(replay[c]) /\ c \in toPut /\ Once(c)
          /\ UNCHANGED <<done, history, since, replay>> /\ c \notin toPut'
      <4>1. IsInjective(queue'[c])
        BY <1>3, PutIsNew
      <4> QED
        BY <1>3, <4>1 DEF Put, OnceInv, Once
    <3>2. (done => End \notin Held(c)) /\ (~done => history \in (since[c] + 1)..history)
      BY <3>1 DEF TypeOK, Once
    <3>3. PICK item \in Events \cup {End} :
             /\ item = (IF done THEN End ELSE history) /\ item \notin Held(c)
             /\ ToSet(queue'[c]) = ToSet(queue[c]) \cup {item}
      BY <1>3, PutIsNew
    <3>4. Held(c)' = Held(c) \cup {item}
      BY <3>1, <3>3 DEF Held
    <3>5. ToSet(queue'[c]) \cap ToSet(replay'[c]) = {}
      BY <3>1, <3>3 DEF Held, Once
    <3>6. item \in {End} \cup (since[c] + 1)..history /\ (item = End => done)
      BY <3>2, <3>3, EventAssumption DEF TypeOK, End
    <3> QED
      BY <2>1, <3>1, <3>4, <3>5, <3>6 DEF Once
  <2>2. CASE d # c
    <3>1. queue'[d] = queue[d]
      BY <1>3, <2>2, PutIsNew
    <3> QED
      BY <1>3, <2>2, <3>1 DEF Put, OnceInv, Once, Held
  <2> QED
    BY <2>1, <2>2
<1>4. ASSUME NEW c \in Clients, Open(c) PROVE OnceInv'
  BY <1>4 DEF Open, OnceInv, Once, Held
<1>5. ASSUME NEW c \in Clients, Subscribe(c) PROVE OnceInv'
  <2> SUFFICES ASSUME NEW d \in Clients PROVE Once(d)'
    BY DEF OnceInv
  <2>1. c \notin toPut
    BY <1>5 DEF Subscribe, StreamInv, Following
  <2>2. /\ IsInjective(replay'[c]) /\ IsInjective(queue'[c]) /\ ToSet(queue'[c]) = {}
        /\ ToSet(replay'[c]) = (lastEventId[c] + 1)..history \cup IF done THEN {End} ELSE {}
        /\ \A e \in Clients \ {c} : queue'[e] = queue[e] /\ replay'[e] = replay[e]
    BY <1>5, SubscribeReplays
  <2>3. /\ since' = [since EXCEPT ![c] = lastEventId[c]] /\ since \in [Clients -> 0..LastEvent]
        /\ UNCHANGED <<history, done, toPut>> /\ lastEventId[c] \in Nat /\ history \in Nat
    BY <1>5, EventAssumption DEF Subscribe, TypeOK
  <2>4. CASE d = c
    BY <2>1, <2>2, <2>3, <2>4 DEF Once, Held, End
  <2>5. CASE d # c
    BY <2>2, <2>3, <2>5 DEF OnceInv, Once, Held
  <2> QED
    BY <2>4, <2>5
<1>6. ASSUME NEW c \in Clients, Replay(c) PROVE OnceInv'
  <2>1. CASE replay[c] = <<>>
    BY <1>6, <2>1 DEF Replay, OnceInv, Once, Held
  <2>2. CASE replay[c] # <<>>
    <3> SUFFICES ASSUME NEW d \in Clients PROVE Once(d)'
      BY DEF OnceInv
    <3>1. PICK item \in ToSet(replay[c]) :
             /\ IsInjective(replay'[c]) /\ ToSet(replay'[c]) = ToSet(replay[c]) \ {item}
             /\ IsInjective(queue'[c]) /\ ToSet(queue'[c]) = ToSet(queue[c]) \cup {item}
             /\ \A e \in Clients \ {c} : queue'[e] = queue[e] /\ replay'[e] = replay[e]
      BY <1>6, <2>2, ReplayMoves
    <3>2. UNCHANGED <<done, history, since, toPut>> /\ Once(c) /\ Once(d)
      BY <1>6 DEF Replay, OnceInv
    <3>3. CASE d = c
      <4>1. Held(c)' = Held(c)
        BY <3>1 DEF Held
      <4>2. ToSet(queue'[c]) \cap ToSet(replay'[c]) = {}
        BY <3>1, <3>2 DEF Once
      <4> QED
        BY <3>1, <3>2, <3>3, <4>1, <4>2 DEF Once
    <3>4. CASE d # c
      BY <3>1, <3>2, <3>4 DEF Once, Held
    <3> QED
      BY <3>3, <3>4
  <2> QED
    BY <2>1, <2>2
<1>7. ASSUME NEW c \in Clients, Receive(c) PROVE OnceInv'
  <2> SUFFICES ASSUME NEW d \in Clients PROVE Once(d)'
    BY DEF OnceInv
  <2>1. /\ IsInjective(queue'[c]) /\ ToSet(queue'[c]) \subseteq ToSet(queue[c])
        /\ \A e \in Clients \ {c} : queue'[e] = queue[e]
    BY <1>7, ReceiveTakes
  <2>2. UNCHANGED <<done, history, since, toPut, replay>> /\ Once(c) /\ Once(d)
    BY <1>7 DEF Receive, OnceInv
  <2>3. CASE d = c
    <3>1. Held(c)' \subseteq Held(c)
      BY <2>1, <2>2 DEF Held
    <3> QED
      BY <2>1, <2>2, <2>3, <3>1 DEF Once
  <2>4. CASE d # c
    BY <2>1, <2>2, <2>4 DEF Once, Held
  <2> QED
    BY <2>3, <2>4
<1>8. ASSUME NEW c \in Clients, StreamEnds(c) PROVE OnceInv'
  BY <1>8 DEF StreamEnds, OnceInv, Once, Held
<1>9. ASSUME NEW c \in Clients, Drop(c) PROVE OnceInv'
  BY <1>9 DEF Drop, OnceInv, Once, Held
<1>10. CASE UNCHANGED vars
  BY <1>10 DEF vars, OnceInv, Once, Held
<1> QED
  BY <1>1, <1>2, <1>3, <1>4, <1>5, <1>6, <1>7, <1>8, <1>9, <1>10
  DEF Next, WorkerStep, ClientStep

\* An event leaves the worker for a queue, a replay for a queue and a queue for the
\* application.
LEMMA MissingStep ==
    ASSUME IInv, [Next]_vars
    PROVE  NothingMissing'
<1> USE DEF IInv, NothingMissing, handleVars, requestVars, clientVars
<1>1. CASE Publish
  <2> SUFFICES ASSUME NEW d \in Clients, NEW e \in Events, Following(d)', since'[d] < e,
                      e <= history'
               PROVE  \/ e \in (delivered[d] \cup ToSet(queue[d]) \cup ToSet(replay[d]))'
                      \/ d \in toPut' /\ ~done' /\ e = history'
    BY DEF Following
  <2>1. /\ toPut = {} /\ history' = history + 1 /\ history \in Nat /\ e \in Nat
        /\ toPut' = subscribers /\ history < LastEvent
        /\ UNCHANGED <<done, since, queue, replay, delivered, pc>>
    BY <1>1, EventAssumption DEF Publish, TypeOK, Events
  <2>2. CASE e = history + 1
    BY <1>1, <2>1, <2>2 DEF Publish, StreamInv, Following
  <2>3. CASE e <= history
    BY <2>1, <2>3 DEF Following
  <2> QED
    BY <2>1, <2>2, <2>3
<1>2. CASE Finish
  BY <1>2 DEF Finish
<1>3. ASSUME NEW c \in Clients, Put(c) PROVE NothingMissing'
  BY <1>3, PutIsNew DEF Put
<1>4. ASSUME NEW c \in Clients, Open(c) PROVE NothingMissing'
  BY <1>4 DEF Open, TypeOK
<1>5. ASSUME NEW c \in Clients, Subscribe(c) PROVE NothingMissing'
  <2> SUFFICES ASSUME NEW d \in Clients, NEW e \in Events, Following(d)', since'[d] < e,
                      e <= history'
               PROVE  \/ e \in (delivered[d] \cup ToSet(queue[d]) \cup ToSet(replay[d]))'
                      \/ d \in toPut' /\ ~done' /\ e = history'
    BY DEF Following
  <2>1. /\ ToSet(replay'[c]) = (lastEventId[c] + 1)..history \cup IF done THEN {End} ELSE {}
        /\ \A f \in Clients \ {c} : queue'[f] = queue[f] /\ replay'[f] = replay[f]
    BY <1>5, SubscribeReplays
  <2>2. /\ UNCHANGED <<done, history, toPut, delivered>> /\ since'[c] = lastEventId[c]
        /\ \A f \in Clients \ {c} : since'[f] = since[f] /\ pc'[f] = pc[f]
    BY <1>5 DEF Subscribe, TypeOK
  <2>3. CASE d = c
    <3>1. e \in (lastEventId[c] + 1)..history
      BY <2>2, <2>3, EventAssumption DEF TypeOK, Events
    <3> QED
      BY <2>1, <2>3, <3>1
  <2>4. CASE d # c
    BY <2>1, <2>2, <2>4 DEF Following
  <2> QED
    BY <2>3, <2>4
<1>6. ASSUME NEW c \in Clients, Replay(c) PROVE NothingMissing'
  <2>1. CASE replay[c] = <<>>
    BY <1>6, <2>1 DEF Replay, TypeOK
  <2>2. CASE replay[c] # <<>>
    BY <1>6, <2>2, ReplayMoves DEF Replay
  <2> QED
    BY <2>1, <2>2
<1>7. ASSUME NEW c \in Clients, Receive(c) PROVE NothingMissing'
  <2> SUFFICES ASSUME NEW d \in Clients, NEW e \in Events, Following(d)', since'[d] < e,
                      e <= history'
               PROVE  \/ e \in (delivered[d] \cup ToSet(queue[d]) \cup ToSet(replay[d]))'
                      \/ d \in toPut' /\ ~done' /\ e = history'
    BY DEF Following
  <2>1. PICK item \in Events :
           /\ item = Head(queue[c]) /\ ToSet(queue'[c]) = ToSet(queue[c]) \ {item}
           /\ \A f \in Clients \ {c} : queue'[f] = queue[f]
    BY <1>7, ReceiveTakes
  <2>2. /\ UNCHANGED <<done, history, toPut, since, replay, pc>>
        /\ delivered'[c] = delivered[c] \cup {item}
        /\ \A f \in Clients \ {c} : delivered'[f] = delivered[f]
    BY <1>7, <2>1 DEF Receive, TypeOK
  <2>3. CASE d = c
    BY <2>1, <2>2, <2>3 DEF Following
  <2>4. CASE d # c
    BY <2>1, <2>2, <2>4 DEF Following
  <2> QED
    BY <2>3, <2>4
<1>8. ASSUME NEW c \in Clients, StreamEnds(c) PROVE NothingMissing'
  BY <1>8 DEF StreamEnds, TypeOK
<1>9. ASSUME NEW c \in Clients, Drop(c) PROVE NothingMissing'
  BY <1>9 DEF Drop, TypeOK
<1>10. CASE UNCHANGED vars
  BY <1>10 DEF vars
<1> QED
  BY <1>1, <1>2, <1>3, <1>4, <1>5, <1>6, <1>7, <1>8, <1>9, <1>10
  DEF Next, WorkerStep, ClientStep

\* The invariant holds of every state of every behaviour.
LEMMA Invariance == Spec => []IInv
<1>1. IInv /\ [Next]_vars => IInv'
  BY TypeStep, StreamStep, OnceStep, MissingStep DEF IInv
<1> QED
  BY InitIInv, <1>1, PTL DEF Spec

-----------------------------------------------------------------------------
(* The theorems *)

\* Every variable keeps its type: only events and ends are put into queues.
THEOREM TypeCorrect == Spec => []TypeOK
BY Invariance, PTL DEF IInv

\* subscribe replays and publish fans out without overlap, wherever between the
\* worker's critical sections the subscription falls: a queue holds no event twice,
\* none the client has acknowledged, and is closed once.
THEOREM NothingTwice == Spec => []QueuedOnce
<1>1. IInv => QueuedOnce
  <2> SUFFICES ASSUME IInv, NEW c \in Clients
               PROVE  /\ IsInjective(queue[c] \o replay[c])
                      /\ \A i \in DOMAIN queue[c] :
                             queue[c][i] = End \/ queue[c][i] > since[c]
    BY DEF QueuedOnce
  <2>1. /\ queue[c] \in Seq(Events \cup {End}) /\ replay[c] \in Seq(Events \cup {End})
        /\ since[c] \in Nat /\ history \in Nat /\ Once(c)
    BY EventAssumption DEF IInv, TypeOK, OnceInv
  <2>2. IsInjective(queue[c] \o replay[c])
    BY <2>1, ConcatOnce DEF Once
  <2>3. \A i \in DOMAIN queue[c] : queue[c][i] \in Held(c)
    BY DEF Held, ToSet
  <2>4. ASSUME NEW i \in DOMAIN queue[c] PROVE queue[c][i] = End \/ queue[c][i] > since[c]
    <3>1. queue[c][i] \in {End} \cup (since[c] + 1)..history
      BY <2>1, <2>3 DEF Once
    <3> QED
      BY <2>1, <3>1
  <2> QED
    BY <2>2, <2>4
<1> QED
  BY Invariance, <1>1, PTL

\* No event falls between the replay and the fan-out: every event published since the
\* client's Last-Event-ID is delivered, held for it or about to be put into its queue.
THEOREM NothingLost == Spec => []NothingMissing
BY Invariance, PTL DEF IInv
=============================================================================
