---------------------------- MODULE Ledger_proofs ----------------------------
(***************************************************************************)
(* Proofs about Ledger for any rows, any backends of any kinds in any      *)
(* order, any capacity, and any number of process stops.                   *)
(***************************************************************************)
EXTENDS Ledger, FiniteSetTheorems, SequenceTheorems, TLAPS

\* a is one of the rows, one after the first n, one before b.
Among(rows, a)    == \E i \in 1..Len(rows) : rows[i] = a
After(n, rows, a) == \E i \in (n + 1)..Len(rows) : rows[i] = a
Before(rows, a, b) ==
  \E i, j \in 1..Len(rows) : i < j /\ rows[i] = a /\ rows[j] = b

LedgerTypes ==
  /\ offered \in Seq(Rows)
  /\ firstNow \in 0..Len(offered)
  /\ queue \in Seq(Rows)
  /\ hand \in Seq(Rows)
  /\ connected \subseteq Sinks
  /\ waiting \subseteq connected
  /\ waiting # {} => hand # <<>>
  /\ toConnect \in Seq(Sinks)
  /\ stored \in [Sinks -> Seq(Rows)]
  /\ errors \in [Labels -> Nat]
  /\ dropped \in Nat

(***************************************************************************)
(* The inductive invariant: rows travel in the order they were offered.    *)
(* What a sink holds came before the row in the writer's hand, as long as  *)
(* the sink still waits for that one, or is a copy of it in a topic, and   *)
(* that row came before what is queued.                                    *)
(***************************************************************************)
NoneOfferedTwice ==
  \A i, j \in 1..Len(offered) : offered[i] = offered[j] => i = j

QueueInOrder ==
  \A k \in 1..Len(queue) :
    /\ After(firstNow, offered, queue[k])
    /\ \A l \in 1..Len(queue) : k < l => Before(offered, queue[k], queue[l])

HandBeforeQueue ==
  waiting # {} =>
    /\ After(firstNow, offered, hand[1])
    /\ \A k \in 1..Len(queue) : Before(offered, hand[1], queue[k])

UpToHand(s, a) ==
  s \in waiting => Before(offered, a, hand[1]) \/ (s \in Topics /\ a = hand[1])
StoredBeforeRest ==
  \A s \in Sinks : \A m \in 1..Len(stored[s]) :
    /\ Among(offered, stored[s][m])
    /\ \A k \in 1..Len(queue) : Before(offered, stored[s][m], queue[k])
    /\ UpToHand(s, stored[s][m])

\* A process that still connects its sinks has been offered nothing.
ConnectsFirst ==
  toConnect # <<>> => firstNow = Len(offered) /\ queue = <<>> /\ waiting = {}

OrderInv ==
  /\ LedgerTypes /\ NoneOfferedTwice /\ QueueInOrder /\ HandBeforeQueue
  /\ StoredBeforeRest /\ ConnectsFirst

-----------------------------------------------------------------------------

\* A row offered now comes after every row offered before.
LEMMA OfferedGrows ==
  ASSUME offered \in Seq(Rows), firstNow \in 0..Len(offered), NEW r \in Rows,
         offered' = Append(offered, r), UNCHANGED firstNow
  PROVE  /\ Len(offered') = Len(offered) + 1
         /\ \A i \in 1..Len(offered) : offered'[i] = offered[i]
         /\ offered'[Len(offered) + 1] = r
         /\ \A a, b : Before(offered, a, b) => Before(offered', a, b)
         /\ \A a : Among(offered, a) => Among(offered', a) /\ Before(offered', a, r)
         /\ \A a : After(firstNow, offered, a) => After(firstNow', offered', a)
         /\ After(firstNow', offered', r)
  <1>1. /\ Len(offered) \in Nat
        /\ Len(offered') = Len(offered) + 1
        /\ \A i \in 1..Len(offered) : offered'[i] = offered[i]
        /\ offered'[Len(offered) + 1] = r
    BY AppendProperties
  <1>2. ASSUME NEW a, NEW b, Before(offered, a, b) PROVE Before(offered', a, b)
    BY <1>1, <1>2 DEF Before
  <1>3. ASSUME NEW a, Among(offered, a) PROVE Among(offered', a) /\ Before(offered', a, r)
    BY <1>1, <1>3 DEF Among, Before
  <1>4. ASSUME NEW a, After(firstNow, offered, a) PROVE After(firstNow', offered', a)
    BY <1>1, <1>4 DEF After
  <1>5. After(firstNow', offered', r)
    BY <1>1 DEF After
  <1> QED BY <1>1, <1>2, <1>3, <1>4, <1>5

\* A row offered to this process is a row offered.
LEMMA OfferedNowIsOffered ==
  ASSUME firstNow \in Nat, NEW a, After(firstNow, offered, a)
  PROVE  Among(offered, a)
  BY DEF After, Among

\* No row comes before itself.
LEMMA BeforeIsStrict ==
  ASSUME offered \in Seq(Rows), NoneOfferedTwice, NEW a
  PROVE  ~ Before(offered, a, a)
  BY DEF Before, NoneOfferedTwice

\* A sink that stores the row in hand keeps its order, whether it has answered or,
\* a topic, is going to be sent the row again; nothing else is touched.
LEMMA StoringKeepsOrder ==
  ASSUME OrderInv, NEW s \in Sinks, s \in waiting,
         \/ waiting' = waiting \ {s}
         \/ waiting' = waiting /\ s \in Topics,
         UNCHANGED <<offered, firstNow, queue, hand, startVars, dropped>>,
         \/ stored' = stored
         \/ stored' = [stored EXCEPT ![s] = Append(@, hand[1])],
         errors' \in [Labels -> Nat]
  PROVE  OrderInv'
  <1> USE DEF OrderInv
  <1>1. waiting' \subseteq waiting /\ UNCHANGED <<toConnect, connected>>
    BY DEF startVars
  <1>2. hand[1] \in Rows /\ After(firstNow, offered, hand[1]) /\ Among(offered, hand[1])
    <2>1. hand[1] \in Rows
      BY EmptySeq DEF LedgerTypes
    <2>2. After(firstNow, offered, hand[1])
      BY DEF HandBeforeQueue
    <2> QED BY <2>1, <2>2, OfferedNowIsOffered DEF LedgerTypes
  <1>3. LedgerTypes'
    <2>1. stored' \in [Sinks -> Seq(Rows)]
      <3>1. Append(stored[s], hand[1]) \in Seq(Rows)
        BY <1>2, AppendProperties DEF LedgerTypes
      <3> QED BY <3>1 DEF LedgerTypes
    <2>2. waiting' \subseteq connected' /\ (waiting' # {} => hand' # <<>>)
      BY <1>1 DEF LedgerTypes
    <2> QED BY <1>1, <2>1, <2>2 DEF LedgerTypes, Labels
  <1>4. NoneOfferedTwice' /\ QueueInOrder' /\ HandBeforeQueue' /\ ConnectsFirst'
    BY <1>1 DEF NoneOfferedTwice, QueueInOrder, HandBeforeQueue, ConnectsFirst,
                After, Before
  <1>5. StoredBeforeRest'
    <2>1. ASSUME NEW t \in Sinks, NEW m \in 1..Len(stored'[t])
          PROVE  \/ m \in 1..Len(stored[t]) /\ stored'[t][m] = stored[t][m]
                 \/ t = s /\ stored'[t][m] = hand[1]
      <3>1. stored[t] \in Seq(Rows) /\ stored[s] \in Seq(Rows)
        BY DEF LedgerTypes
      <3>2. CASE stored'[t] = stored[t]
        BY <3>2
      <3>3. CASE t = s /\ stored'[s] = Append(stored[s], hand[1])
        BY <1>2, <3>1, <3>3, AppendProperties
      <3>4. stored'[t] = stored[t] \/ (t = s /\ stored'[s] = Append(stored[s], hand[1]))
        BY DEF LedgerTypes
      <3> QED BY <3>2, <3>3, <3>4
    <2>2. ASSUME NEW t \in Sinks, NEW m \in 1..Len(stored'[t])
          PROVE  /\ Among(offered, stored'[t][m])
                 /\ \A k \in 1..Len(queue) : Before(offered, stored'[t][m], queue[k])
                 /\ t \in waiting' => \/ Before(offered, stored'[t][m], hand[1])
                                      \/ t \in Topics /\ stored'[t][m] = hand[1]
      <3>1. CASE m \in 1..Len(stored[t]) /\ stored'[t][m] = stored[t][m]
        BY <1>1, <3>1 DEF StoredBeforeRest, UpToHand
      <3>2. CASE t = s /\ stored'[t][m] = hand[1]
        BY <1>1, <1>2, <3>2 DEF HandBeforeQueue
      <3> QED BY <2>1, <3>1, <3>2
    <2> QED BY <2>2 DEF StoredBeforeRest, UpToHand
  <1> QED BY <1>3, <1>4, <1>5

\* Connecting the sinks moves no row.
LEMMA ConnectingKeepsOrder ==
  ASSUME OrderInv, Connecting
  PROVE  OrderInv'
  <1> USE DEF OrderInv
  <1>1. /\ UNCHANGED <<offered, firstNow, queue, hand, waiting, stored, errors, dropped>>
        /\ toConnect # <<>> /\ toConnect' \in {toConnect, Tail(toConnect)}
        /\ connected' \in {connected, connected \cup {NextBackend}}
    BY DEF Connecting, Connect, ConnectFails, ConnectSkipped
  <1>2. NextBackend \in Sinks /\ Tail(toConnect) \in Seq(Sinks)
    BY <1>1, HeadTailProperties DEF LedgerTypes, NextBackend
  <1>3. LedgerTypes'
    BY <1>1, <1>2 DEF LedgerTypes, Labels
  <1> QED
    BY <1>1, <1>3 DEF NoneOfferedTwice, QueueInOrder, HandBeforeQueue, StoredBeforeRest,
                      UpToHand, ConnectsFirst, Among, After, Before

\* A new row goes to the end of the queue, or nowhere.
LEMMA EnqueueKeepsOrder ==
  ASSUME OrderInv, NEW r \in Rows, Enqueue(r)
  PROVE  OrderInv'
  <1> USE DEF OrderInv
  <1>1. /\ offered' = Append(offered, r) /\ toConnect = <<>>
        /\ UNCHANGED <<firstNow, hand, waiting, startVars, stored, errors>>
        /\ offered \in Seq(Rows) /\ queue \in Seq(Rows) /\ firstNow \in 0..Len(offered)
        /\ Len(offered) \in Nat
    BY DEF Enqueue, LedgerTypes
  <1>2. /\ Len(offered') = Len(offered) + 1
        /\ \A i \in 1..Len(offered) : offered'[i] = offered[i]
        /\ offered'[Len(offered) + 1] = r
        /\ \A a, b : Before(offered, a, b) => Before(offered', a, b)
        /\ \A a : Among(offered, a) => Among(offered', a) /\ Before(offered', a, r)
        /\ \A a : After(firstNow, offered, a) => After(firstNow', offered', a)
        /\ After(firstNow', offered', r)
    BY <1>1, OfferedGrows
  <1>3. \/ queue' = queue
        \/ /\ queue' = Append(queue, r) /\ Len(queue') = Len(queue) + 1
           /\ \A k \in 1..Len(queue) : queue'[k] = queue[k]
           /\ queue'[Len(queue) + 1] = r
    <2>1. /\ Len(Append(queue, r)) = Len(queue) + 1
          /\ \A k \in 1..Len(queue) : Append(queue, r)[k] = queue[k]
          /\ Append(queue, r)[Len(queue) + 1] = r
      BY <1>1, AppendProperties
    <2>2. queue' = queue \/ queue' = Append(queue, r)
      BY DEF Enqueue
    <2> QED BY <2>1, <2>2
  <1>4. LedgerTypes'
    <2>1. queue' \in Seq(Rows)
      <3>1. Append(queue, r) \in Seq(Rows)
        BY <1>1, AppendProperties
      <3> QED BY <1>1, <1>3, <3>1
    <2>2. offered' \in Seq(Rows)
      BY <1>1, AppendProperties
    <2>3. dropped' \in Nat
      BY DEF Enqueue, LedgerTypes
    <2> QED BY <1>1, <1>2, <2>1, <2>2, <2>3 DEF LedgerTypes, startVars, Labels
  <1>5. NoneOfferedTwice'
    <2>1. \A i \in 1..Len(offered) : offered[i] # r
      BY <1>1 DEF Enqueue, Range
    <2> QED BY <1>1, <1>2, <2>1 DEF NoneOfferedTwice
  <1>6. \A k \in 1..Len(queue) : Among(offered, queue[k])
    BY <1>1, OfferedNowIsOffered DEF QueueInOrder
  <1>7. QueueInOrder'
    <2>1. CASE queue' = queue
      BY <1>2, <2>1 DEF QueueInOrder
    <2>2. CASE queue' # queue
      <3>1. Len(queue) \in Nat
        BY <1>1
      <3>2. ASSUME NEW k \in 1..Len(queue') PROVE After(firstNow', offered', queue'[k])
        BY <1>2, <1>3, <2>2, <3>1 DEF QueueInOrder
      <3>3. ASSUME NEW k \in 1..Len(queue'), NEW l \in 1..Len(queue'), k < l
            PROVE  Before(offered', queue'[k], queue'[l])
        <4>1. k \in 1..Len(queue) /\ queue'[k] = queue[k]
          BY <1>3, <2>2, <3>1, <3>3
        <4>2. CASE l \in 1..Len(queue)
          BY <1>2, <1>3, <2>2, <3>3, <4>1, <4>2 DEF QueueInOrder
        <4>3. CASE l = Len(queue) + 1
          BY <1>2, <1>3, <1>6, <2>2, <4>1, <4>3
        <4> QED BY <1>3, <2>2, <3>1, <4>2, <4>3
      <3> QED BY <3>2, <3>3 DEF QueueInOrder
    <2> QED BY <2>1, <2>2
  <1>8. ASSUME NEW a, Among(offered, a), \A k \in 1..Len(queue) : Before(offered, a, queue[k])
        PROVE  \A k \in 1..Len(queue') : Before(offered', a, queue'[k])
    <2>1. CASE queue' = queue
      BY <1>2, <1>8, <2>1
    <2>2. CASE queue' # queue
      BY <1>1, <1>2, <1>3, <1>8, <2>2
    <2> QED BY <2>1, <2>2
  <1>9. HandBeforeQueue'
    <2> SUFFICES ASSUME waiting # {}
                 PROVE  After(firstNow', offered', hand[1]) /\ \A k \in 1..Len(queue') : Before(offered', hand[1], queue'[k])
      BY <1>1 DEF HandBeforeQueue
    <2>1. After(firstNow, offered, hand[1]) /\ Among(offered, hand[1])
      BY <1>1, OfferedNowIsOffered DEF HandBeforeQueue
    <2> QED BY <1>1, <1>2, <1>8, <2>1 DEF HandBeforeQueue
  <1>10. StoredBeforeRest'
    <2> SUFFICES ASSUME NEW s \in Sinks, NEW m \in 1..Len(stored[s])
                 PROVE  /\ Among(offered', stored[s][m])
                        /\ \A k \in 1..Len(queue') : Before(offered', stored[s][m], queue'[k])
                        /\ s \in waiting => \/ Before(offered', stored[s][m], hand[1])
                                            \/ s \in Topics /\ stored[s][m] = hand[1]
      BY <1>1 DEF StoredBeforeRest, UpToHand
    <2>1. /\ Among(offered, stored[s][m])
          /\ \A k \in 1..Len(queue) : Before(offered, stored[s][m], queue[k])
          /\ s \in waiting => \/ Before(offered, stored[s][m], hand[1])
                              \/ s \in Topics /\ stored[s][m] = hand[1]
      BY DEF StoredBeforeRest, UpToHand
    <2>2. Among(offered', stored[s][m])
      BY <1>1, <1>2, <2>1
    <2>3. s \in waiting => \/ Before(offered', stored[s][m], hand[1])
                           \/ s \in Topics /\ stored[s][m] = hand[1]
      BY <1>1, <1>2, <2>1
    <2> QED BY <1>1, <1>8, <2>1, <2>2, <2>3
  <1>11. ConnectsFirst'
    BY <1>1 DEF ConnectsFirst, startVars
  <1> QED BY <1>4, <1>5, <1>7, <1>9, <1>10, <1>11

\* The writer takes the row that came before all the others in the queue.
LEMMA ReceiveKeepsOrder ==
  ASSUME OrderInv, Receive
  PROVE  OrderInv'
  <1> USE DEF OrderInv
  <1>1. /\ waiting = {} /\ queue # <<>>
        /\ hand' = <<Head(queue)>> /\ queue' = Tail(queue) /\ waiting' = connected
        /\ UNCHANGED <<offered, firstNow, startVars, stored, errors, dropped>>
        /\ queue \in Seq(Rows)
    BY DEF Receive, LedgerTypes
  <1>2. /\ hand'[1] = queue[1] /\ queue[1] \in Rows
        /\ Len(queue) \in Nat \ {0} /\ Len(queue') = Len(queue) - 1
        /\ \A k \in 1..Len(queue') : queue'[k] = queue[k + 1]
        /\ queue' \in Seq(Rows)
    BY <1>1, HeadTailProperties, EmptySeq
  <1>3. LedgerTypes'
    BY <1>1, <1>2 DEF LedgerTypes, startVars, Labels
  <1>4. NoneOfferedTwice' /\ ConnectsFirst'
    BY <1>1 DEF NoneOfferedTwice, ConnectsFirst, startVars
  <1>5. QueueInOrder'
    <2>1. ASSUME NEW k \in 1..Len(queue')
          PROVE  /\ After(firstNow, offered, queue'[k])
                 /\ \A l \in 1..Len(queue') :
                      k < l => Before(offered, queue'[k], queue'[l])
      <3>1. k \in Nat /\ k + 1 \in 1..Len(queue) /\ queue'[k] = queue[k + 1]
        BY <1>2
      <3>2. \A l \in 1..Len(queue') : l + 1 \in 1..Len(queue) /\ queue'[l] = queue[l + 1]
        BY <1>2
      <3> QED BY <3>1, <3>2 DEF QueueInOrder
    <2> QED BY <1>1, <2>1 DEF QueueInOrder
  <1>6. HandBeforeQueue'
    <2>1. After(firstNow, offered, queue[1]) /\ \A k \in 1..Len(queue') : Before(offered, queue[1], queue'[k])
      BY <1>2 DEF QueueInOrder
    <2> QED BY <1>1, <1>2, <2>1 DEF HandBeforeQueue, After, Before
  <1>7. StoredBeforeRest'
    <2> SUFFICES ASSUME NEW s \in Sinks, NEW m \in 1..Len(stored[s])
                 PROVE  /\ Among(offered, stored[s][m])
                        /\ \A k \in 1..Len(queue') : Before(offered, stored[s][m], queue'[k])
                        /\ Before(offered, stored[s][m], queue[1])
      BY <1>1, <1>2 DEF StoredBeforeRest, UpToHand
    <2>1. \A k \in 1..Len(queue') : k + 1 \in 1..Len(queue) /\ queue'[k] = queue[k + 1]
      BY <1>2
    <2>2. 1 \in 1..Len(queue)
      BY <1>2
    <2> QED BY <2>1, <2>2 DEF StoredBeforeRest
  <1> QED BY <1>3, <1>4, <1>5, <1>6, <1>7

\* The invariant holds in every state.
LEMMA OrderInvariant == Spec => []OrderInv
  <1>0. /\ Backends \in Seq(Sinks)
        /\ <<>> \in Seq(Rows) /\ Len(<<>>) = 0
    BY EmptySeq, LedgerAssumption
  <1>1. Init => OrderInv
    <2> SUFFICES ASSUME Init PROVE OrderInv
      OBVIOUS
    <2>1. LedgerTypes
      BY <1>0 DEF Init, LedgerTypes
    <2> QED
      BY <1>0, <2>1 DEF Init, OrderInv, NoneOfferedTwice, QueueInOrder, HandBeforeQueue,
                        StoredBeforeRest, ConnectsFirst
  <1>2. OrderInv /\ [Next]_vars => OrderInv'
    <2> SUFFICES ASSUME OrderInv, [Next]_vars PROVE OrderInv'
      OBVIOUS
    <2>1. CASE Connecting
      BY <2>1, ConnectingKeepsOrder
    <2>2. ASSUME NEW r \in Rows, Enqueue(r) PROVE OrderInv'
      BY <2>2, EnqueueKeepsOrder
    <2>3. CASE Receive
      BY <2>3, ReceiveKeepsOrder
    <2>4. ASSUME NEW s \in Sinks, SinkStores(s) \/ PublishRepeated(s) PROVE OrderInv'
      BY <2>4, StoringKeepsOrder DEF SinkStores, Answered, PublishRepeated, OrderInv, LedgerTypes
    <2>5. ASSUME NEW s \in Sinks, SinkFails(s) PROVE OrderInv'
      <3>1. errors' \in [Labels -> Nat]
        <4>1. errors \in [Labels -> Nat] /\ errors' = [errors EXCEPT ![Label(s)] = @ + 1]
          BY <2>5 DEF SinkFails, OrderInv, LedgerTypes
        <4>2. Label(s) \in Labels
          BY DEF Label, Labels
        <4> QED BY <4>1, <4>2
      <3> QED BY <2>5, <3>1, StoringKeepsOrder DEF SinkFails, Answered
    <2>6. ASSUME UNCHANGED <<offered, firstNow, queue, hand, waiting, startVars, stored,
                             errors, dropped>>
          PROVE  OrderInv'
      BY <2>6 DEF startVars, OrderInv, LedgerTypes, Labels, NoneOfferedTwice, QueueInOrder,
                  HandBeforeQueue, StoredBeforeRest, UpToHand, ConnectsFirst
    <2>7. CASE Restart
      <3>1. /\ firstNow' = Len(offered) /\ queue' = <<>> /\ hand' = <<>> /\ waiting' = {}
            /\ toConnect' = Backends /\ connected' = {} /\ dropped' = 0
            /\ errors' = [l \in Labels |-> 0] /\ UNCHANGED <<offered, stored>>
        BY <2>7 DEF Restart
      <3>2. LedgerTypes'
        BY <1>0, <3>1 DEF OrderInv, LedgerTypes
      <3> QED
        BY <1>0, <3>1, <3>2 DEF OrderInv, NoneOfferedTwice, QueueInOrder, HandBeforeQueue,
                                StoredBeforeRest, UpToHand, ConnectsFirst, Among
    <2> QED
      BY <2>1, <2>2, <2>3, <2>4, <2>5, <2>6, <2>7 DEF Next, Flip, vars
  <1> QED BY <1>1, <1>2, PTL DEF Spec

-----------------------------------------------------------------------------
(* Every sink's log is a lossy feed *)

\* The row a sink stores comes after the last one it holds.
LEMMA StoresLater ==
  ASSUME OrderInv, NEW s \in Sinks, s \in waiting,
         stored' = [stored EXCEPT ![s] = Append(@, hand[1])], UNCHANGED offered
  PROVE  Feed(s)!Store
  <1> USE DEF OrderInv
  <1>1. stored[s] \in Seq(Rows) /\ offered \in Seq(Rows) /\ firstNow \in Nat
    BY DEF LedgerTypes
  <1>2. stored'[s] = Append(stored[s], hand[1])
    BY DEF LedgerTypes
  <1>3. CASE stored[s] = <<>>
    <2>1. Among(offered, hand[1])
      BY <1>1, OfferedNowIsOffered DEF HandBeforeQueue
    <2>2. PICK i \in DOMAIN offered : offered[i] = hand[1]
      BY <1>1, <2>1 DEF Among
    <2>3. Feed(s)!Follows(i)
      BY <1>3 DEF Feed!Follows
    <2> QED BY <1>2, <2>2, <2>3 DEF Feed!Store
  <1>4. CASE stored[s] # <<>>
    <2>1. Len(stored[s]) \in 1..Len(stored[s])
      BY <1>1, <1>4, EmptySeq
    <2>2. PICK i \in 1..Len(offered) : offered[i] = hand[1]
      BY OfferedNowIsOffered, <1>1 DEF HandBeforeQueue, Among
    <2>3. \/ Before(offered, stored[s][Len(stored[s])], hand[1])
          \/ s \in Topics /\ stored[s][Len(stored[s])] = hand[1]
      BY <2>1 DEF StoredBeforeRest, UpToHand
    <2>4. CASE Before(offered, stored[s][Len(stored[s])], hand[1])
      <3>1. PICK j, k \in 1..Len(offered) :
              j < k /\ offered[j] = stored[s][Len(stored[s])] /\ offered[k] = hand[1]
        BY <2>4 DEF Before
      <3>2. j \in 1..(k - 1) /\ k \in DOMAIN offered
        BY <1>1, <3>1
      <3>3. Feed(s)!Follows(k)
        BY <3>1, <3>2 DEF Feed!Follows
      <3> QED BY <1>2, <3>1, <3>2, <3>3 DEF Feed!Store
    <2>5. CASE s \in Topics /\ stored[s][Len(stored[s])] = hand[1]
      <3>1. Feed(s)!Follows(i)
        BY <2>2, <2>5 DEF Feed!Follows
      <3> QED BY <1>1, <1>2, <2>2, <3>1 DEF Feed!Store
    <2> QED BY <2>3, <2>4, <2>5
  <1> QED BY <1>3, <1>4

\* The ledger implements LossyFeed at every sink: offering a row is the feed's
\* Offer, a sink that stores one, again or not, the feed's Store, and whatever else happens,
\* outages, failures and process stops, the feed does not see.
THEOREM LedgerImplementsLossyFeed == Spec => EverySinkIsAFeed
  <1>1. Init => \A s \in Sinks : Feed(s)!FeedInit
    BY DEF Init, Feed!FeedInit
  <1>2. OrderInv /\ [Next]_vars =>
          [\A s \in Sinks : [Feed(s)!FeedNext]_(Feed(s)!feedVars)]_vars
    <2> SUFFICES ASSUME OrderInv, Next, NEW s \in Sinks
                 PROVE  Feed(s)!FeedNext \/ UNCHANGED Feed(s)!feedVars
      OBVIOUS
    <2>1. ASSUME NEW r \in Rows, Enqueue(r) PROVE Feed(s)!FeedNext
      BY <2>1 DEF Enqueue, Feed!FeedNext, Feed!Offer
    <2>2. ASSUME NEW t \in Sinks, t \in waiting, UNCHANGED offered,
                 stored' = [stored EXCEPT ![t] = Append(@, hand[1])]
          PROVE  Feed(s)!FeedNext \/ UNCHANGED Feed(s)!feedVars
      <3>1. CASE t = s
        BY <2>2, <3>1, StoresLater DEF Feed!FeedNext
      <3>2. CASE t # s
        <4>1. stored'[s] = stored[s]
          BY <2>2, <3>2 DEF OrderInv, LedgerTypes
        <4> QED BY <2>2, <4>1 DEF Feed!feedVars
      <3> QED BY <3>1, <3>2
    <2>3. CASE UNCHANGED <<offered, stored>>
      BY <2>3 DEF Feed!feedVars
    <2> QED
      BY <2>1, <2>2, <2>3 DEF Next, Connecting, Connect, ConnectFails, ConnectSkipped,
         Receive, SinkStores, PublishRepeated, SinkFails, Answered, Flip, Restart
  <1> QED BY <1>1, <1>2, OrderInvariant, PTL DEF Spec, EverySinkIsAFeed

-----------------------------------------------------------------------------
(* The counters account for every gap *)

\* What a sink can be missing is finite.
LEMMA MissingIsFinite ==
  ASSUME LedgerTypes, NEW s \in Sinks
  PROVE  IsFiniteSet(Missing(s)) /\ Cardinality(Missing(s)) \in Nat
  <1>1. IsFiniteSet((firstNow + 1)..Len(offered))
    BY FS_Interval DEF LedgerTypes
  <1>2. Missing(s) \subseteq (firstNow + 1)..Len(offered)
    BY DEF Missing
  <1>3. IsFiniteSet(Missing(s))
    BY <1>1, <1>2, FS_Subset
  <1> QED BY <1>3, FS_CardinalityType

\* What one sink may be missing: dropped, refused by it, or still on its way.  A
\* topic that has taken the row in hand is no longer missing it, though it has not
\* answered: the property's bound is too weak to be kept when it does.
Due(s) == s \in waiting /\ hand[1] \notin Range(stored[s])
Allowed(s) == dropped + errors[Label(s)] + Len(queue) + (IF Due(s) THEN 1 ELSE 0)
GapsCovered == \A s \in connected : Cardinality(Missing(s)) <= Allowed(s)

\* The bound is a number, whatever the state.
LEMMA AllowedIsNat ==
  ASSUME LedgerTypes, NEW s \in Sinks
  PROVE  Allowed(s) \in Nat
  <1>1. Label(s) \in Labels
    BY DEF Label, Labels
  <1>2. dropped \in Nat /\ errors[Label(s)] \in Nat /\ Len(queue) \in Nat
    BY <1>1 DEF LedgerTypes
  <1> QED BY <1>2 DEF Allowed

\* A gap that does not grow is covered by a bound that does not shrink.
LEMMA GapStays ==
  ASSUME LedgerTypes, LedgerTypes', NEW s \in Sinks,
         Cardinality(Missing(s)) <= Allowed(s),
         Missing(s)' \subseteq Missing(s), Allowed(s) <= Allowed(s)'
  PROVE  Cardinality(Missing(s)') <= Allowed(s)'
  <1>1. Cardinality(Missing(s)') <= Cardinality(Missing(s))
    BY MissingIsFinite, FS_Subset
  <1>2. /\ Cardinality(Missing(s)) \in Nat /\ Allowed(s) \in Nat
        /\ Cardinality(Missing(s)') \in Nat /\ Allowed(s)' \in Nat
    <2>1. IsFiniteSet(Missing(s)) /\ Cardinality(Missing(s)) \in Nat
      BY MissingIsFinite
    <2>2. IsFiniteSet(Missing(s)')
      BY <2>1, FS_Subset
    <2>3. Allowed(s)' \in Nat
      <3>1. Label(s)' \in Labels
        BY DEF Label, Labels
      <3>2. errors'[Label(s)'] \in Nat /\ dropped' \in Nat /\ Len(queue') \in Nat
        BY <3>1 DEF LedgerTypes, Labels
      <3> QED BY <3>2 DEF Allowed
    <2> QED BY <2>1, <2>2, <2>3, AllowedIsNat, FS_CardinalityType
  <1> QED BY <1>1, <1>2

\* A sink that stores the row in hand, which it was missing or has a copy of, owes
\* nothing for it any more; a call that fails is counted.
LEMMA AnswerAccounts ==
  ASSUME OrderInv, OrderInv', GapsCovered,
         NEW t \in Sinks, SinkStores(t) \/ PublishRepeated(t) \/ SinkFails(t)
  PROVE  GapsCovered'
  <1> USE DEF OrderInv
  <1>1. /\ t \in waiting /\ waiting' \subseteq waiting /\ \A s \in waiting \ waiting' : s = t
        /\ UNCHANGED <<offered, firstNow, queue, hand, connected, dropped>>
        /\ LedgerTypes /\ LedgerTypes'
    BY DEF SinkStores, PublishRepeated, SinkFails, Answered, startVars
  <1> SUFFICES ASSUME NEW s \in connected
               PROVE  Cardinality(Missing(s)') <= Allowed(s)'
    BY <1>1 DEF GapsCovered, Allowed, Due, Label
  <1>2. /\ s \in Sinks /\ Cardinality(Missing(s)) <= Allowed(s)
        /\ Label(s) \in Labels /\ errors[Label(s)] \in Nat /\ Label(s)' = Label(s)
        /\ dropped \in Nat /\ Len(queue) \in Nat
    <2>1. s \in Sinks /\ dropped \in Nat /\ Len(queue) \in Nat
      BY <1>1 DEF LedgerTypes
    <2>2. Cardinality(Missing(s)) <= Allowed(s)
      BY DEF GapsCovered
    <2>3. Label(s) \in Labels /\ Label(s)' = Label(s)
      BY <1>1, <2>1 DEF Label, Labels
    <2>4. errors[Label(s)] \in Nat
      BY <1>1, <2>3 DEF LedgerTypes
    <2> QED BY <2>1, <2>2, <2>3, <2>4
  <1>3. stored[s] \in Seq(Rows) /\ hand[1] \in Rows
    BY <1>1, <1>2, EmptySeq DEF LedgerTypes
  <1>4. Range(stored[s]) \subseteq Range(stored'[s]) /\ Missing(s)' \subseteq Missing(s)
    <2>1. stored'[s] = stored[s] \/ stored'[s] = Append(stored[s], hand[1])
      BY <1>2 DEF SinkStores, PublishRepeated, SinkFails, LedgerTypes
    <2>2. Range(stored[s]) \subseteq Range(stored'[s])
      BY <1>3, <2>1, AppendProperties DEF Range
    <2> QED BY <1>1, <2>2 DEF Missing
  <1>5. errors'[Label(s)] \in {errors[Label(s)], errors[Label(s)] + 1}
    BY <1>2 DEF SinkStores, PublishRepeated, SinkFails, LedgerTypes
  <1>6. CASE s # t
    <2>1. stored'[s] = stored[s]
      BY <1>2, <1>6 DEF SinkStores, PublishRepeated, SinkFails, LedgerTypes
    <2>2. Due(s)' <=> Due(s)
      BY <1>1, <1>6, <2>1 DEF Due
    <2>3. Allowed(s) <= Allowed(s)'
      BY <1>1, <1>2, <1>5, <2>2 DEF Allowed
    <2> QED BY <1>1, <1>2, <1>4, <2>3, GapStays
  <1>7. CASE s = t /\ SinkFails(t)
    <2>1. errors'[Label(s)] = errors[Label(s)] + 1
      BY <1>2, <1>7 DEF SinkFails, LedgerTypes
    <2>2. Allowed(s) <= Allowed(s)'
      BY <1>1, <1>2, <2>1 DEF Allowed
    <2> QED BY <1>1, <1>2, <1>4, <2>2, GapStays
  <1>8. CASE s = t /\ ~ SinkFails(t)
    <2>1. stored'[s] = Append(stored[s], hand[1]) /\ errors' = errors
      BY <1>2, <1>8 DEF SinkStores, PublishRepeated, LedgerTypes
    <2>2. hand[1] \in Range(stored'[s]) /\ ~ Due(s)'
      <3>1. hand[1] \in Range(stored'[s])
        BY <1>3, <2>1, AppendProperties DEF Range
      <3> QED BY <1>1, <3>1 DEF Due
    <2>3. CASE ~ Due(s)
      <3>1. Allowed(s) <= Allowed(s)'
        BY <1>1, <1>2, <2>1, <2>2, <2>3 DEF Allowed
      <3> QED BY <1>1, <1>2, <1>4, <3>1, GapStays
    <2>4. CASE Due(s)
      <3>1. PICK i \in (firstNow + 1)..Len(offered) : offered[i] = hand[1]
        BY <1>1 DEF HandBeforeQueue, After
      <3>2. i \in Missing(s)
        BY <2>4, <3>1 DEF Missing, Due
      <3>3. Missing(s)' \subseteq Missing(s) \ {i}
        BY <1>1, <1>4, <2>2, <3>1 DEF Missing
      <3>4. /\ IsFiniteSet(Missing(s)) /\ Cardinality(Missing(s)) \in Nat
            /\ IsFiniteSet(Missing(s) \ {i})
            /\ Cardinality(Missing(s) \ {i}) = Cardinality(Missing(s)) - 1
        BY <1>1, <1>2, <3>2, MissingIsFinite, FS_RemoveElement
      <3>5. /\ Cardinality(Missing(s)') <= Cardinality(Missing(s)) - 1
            /\ Cardinality(Missing(s)') \in Nat
        BY <3>3, <3>4, FS_Subset, FS_CardinalityType
      <3>6. Allowed(s)' = Allowed(s) - 1
        BY <1>1, <1>2, <2>1, <2>2, <2>4 DEF Allowed
      <3>7. Allowed(s) \in Nat
        BY <1>1, <1>2, AllowedIsNat
      <3> QED BY <1>2, <3>4, <3>5, <3>6, <3>7
    <2> QED BY <2>3, <2>4
  <1> QED BY <1>6, <1>7, <1>8

\* A row that is offered is queued or counted as dropped.
LEMMA EnqueueAccounts ==
  ASSUME OrderInv, OrderInv', GapsCovered, NEW r \in Rows, Enqueue(r)
  PROVE  GapsCovered'
  <1> USE DEF OrderInv
  <1>1. /\ offered' = Append(offered, r)
        /\ UNCHANGED <<firstNow, hand, waiting, connected, stored, errors>>
        /\ offered \in Seq(Rows) /\ queue \in Seq(Rows) /\ dropped \in Nat
    BY DEF Enqueue, startVars, LedgerTypes
  <1>2. \/ Len(queue') = Len(queue) + 1 /\ dropped' = dropped
        \/ Len(queue') = Len(queue) /\ dropped' = dropped + 1
    <2>1. Len(Append(queue, r)) = Len(queue) + 1
      BY <1>1, AppendProperties
    <2>2. CASE Len(queue) < Capacity
      BY <2>1, <2>2 DEF Enqueue
    <2>3. CASE ~ (Len(queue) < Capacity)
      BY <2>3 DEF Enqueue
    <2> QED BY <2>2, <2>3
  <1> SUFFICES ASSUME NEW s \in connected
               PROVE  Cardinality(Missing(s)') <= Allowed(s)'
    BY <1>1 DEF GapsCovered, Allowed, Due, Label
  <1>3. s \in Sinks /\ Cardinality(Missing(s)) <= Allowed(s)
    BY DEF LedgerTypes, GapsCovered
  <1>4. Missing(s)' \subseteq Missing(s) \cup {Len(offered) + 1}
    <2>1. /\ Len(offered') = Len(offered) + 1
          /\ \A i \in 1..Len(offered) : offered'[i] = offered[i]
      BY <1>1, AppendProperties
    <2>2. Len(offered) \in Nat /\ firstNow \in Nat
      BY <1>1 DEF LedgerTypes
    <2> SUFFICES ASSUME NEW i \in Missing(s)', i # Len(offered) + 1
                 PROVE  i \in Missing(s)
      OBVIOUS
    <2>3. /\ i \in (firstNow + 1)..Len(offered')
          /\ offered'[i] \notin Range(stored[s])
      BY <1>1 DEF Missing
    <2>4. i \in (firstNow + 1)..Len(offered) /\ i \in 1..Len(offered)
      BY <2>1, <2>2, <2>3
    <2>5. offered[i] \notin Range(stored[s])
      BY <2>1, <2>3, <2>4
    <2> QED BY <2>4, <2>5 DEF Missing
  <1>5. /\ IsFiniteSet(Missing(s)) /\ Cardinality(Missing(s)) \in Nat
        /\ IsFiniteSet(Missing(s) \cup {Len(offered) + 1})
        /\ Cardinality(Missing(s) \cup {Len(offered) + 1}) <= Cardinality(Missing(s)) + 1
    <2>1. IsFiniteSet(Missing(s))
      BY <1>3, MissingIsFinite
    <2>2. Cardinality(Missing(s)) \in Nat
      BY <2>1, FS_CardinalityType
    <2>3. /\ IsFiniteSet(Missing(s) \cup {Len(offered) + 1})
          /\ Cardinality(Missing(s) \cup {Len(offered) + 1})
               = IF Len(offered) + 1 \in Missing(s)
                 THEN Cardinality(Missing(s)) ELSE Cardinality(Missing(s)) + 1
      BY <2>1, FS_AddElement
    <2> QED BY <2>1, <2>2, <2>3
  <1>6. /\ Cardinality(Missing(s)') <= Cardinality(Missing(s) \cup {Len(offered) + 1})
        /\ Cardinality(Missing(s)') \in Nat
        /\ Cardinality(Missing(s) \cup {Len(offered) + 1}) \in Nat
    BY <1>4, <1>5, FS_Subset, FS_CardinalityType
  <1>7. Allowed(s)' = Allowed(s) + 1 /\ Allowed(s) \in Nat
    <2>1. Label(s)' = Label(s) /\ Label(s) \in Labels
      BY <1>1, <1>3 DEF Label, Labels
    <2>2. errors[Label(s)] \in Nat /\ Len(queue) \in Nat
      BY <1>1, <2>1 DEF LedgerTypes
    <2>3. Allowed(s)' = dropped' + errors[Label(s)] + Len(queue')
                          + (IF Due(s) THEN 1 ELSE 0)
      BY <1>1, <2>1 DEF Allowed, Due
    <2>4. Allowed(s) = dropped + errors[Label(s)] + Len(queue)
                         + (IF Due(s) THEN 1 ELSE 0)
      BY DEF Allowed
    <2>5. Allowed(s)' = Allowed(s) + 1
      <3> DEFINE w == IF Due(s) THEN 1 ELSE 0
                 e == errors[Label(s)]
                 q == Len(queue)
      <3>1. w \in Nat /\ e \in Nat /\ q \in Nat /\ dropped \in Nat
        BY <1>1, <2>2
      <3>2. Allowed(s)' = dropped' + e + Len(queue') + w /\ Allowed(s) = dropped + e + q + w
        BY <2>3, <2>4
      <3>3. \/ Len(queue') = q + 1 /\ dropped' = dropped
            \/ Len(queue') = q /\ dropped' = dropped + 1
        BY <1>2
      <3> HIDE DEF w, e, q
      <3>4. CASE Len(queue') = q + 1 /\ dropped' = dropped
        <4>1. Allowed(s)' = dropped + e + (q + 1) + w
          BY <3>2, <3>4
        <4> QED BY <3>1, <3>2, <4>1
      <3>5. CASE Len(queue') = q /\ dropped' = dropped + 1
        <4>1. Allowed(s)' = (dropped + 1) + e + q + w
          BY <3>2, <3>5
        <4> QED BY <3>1, <3>2, <4>1
      <3> QED BY <3>3, <3>4, <3>5
    <2> QED BY <1>3, <2>5, AllowedIsNat
  <1> QED BY <1>3, <1>5, <1>6, <1>7

\* The row the writer takes off the queue every connected sink waits for.
LEMMA ReceiveAccounts ==
  ASSUME OrderInv, OrderInv', GapsCovered, Receive
  PROVE  GapsCovered'
  <1> USE DEF OrderInv
  <1>1. /\ waiting = {} /\ waiting' = connected /\ queue # <<>> /\ queue' = Tail(queue)
        /\ UNCHANGED <<offered, firstNow, connected, stored, errors, dropped>>
        /\ queue \in Seq(Rows) /\ dropped \in Nat
    BY DEF Receive, startVars, LedgerTypes
  <1>2. Len(queue) \in Nat \ {0} /\ Len(queue') = Len(queue) - 1
    BY <1>1, EmptySeq, HeadTailProperties
  <1> SUFFICES ASSUME NEW s \in connected
               PROVE  Cardinality(Missing(s)') <= Allowed(s)'
    BY <1>1 DEF GapsCovered, Allowed, Due, Label
  <1>3. s \in Sinks /\ Cardinality(Missing(s)) <= Allowed(s)
    BY DEF LedgerTypes, GapsCovered
  <1>4. Label(s)' = Label(s) /\ Label(s) \in Labels
    BY <1>1, <1>3 DEF Label, Labels
  <1>5. errors[Label(s)] \in Nat
    BY <1>4 DEF LedgerTypes
  <1>6. Allowed(s)' = Allowed(s)
    <2>1. hand'[1] = queue[1] /\ 1 \in 1..Len(queue)
      BY <1>1, <1>2 DEF Receive
    <2>2. \A m \in 1..Len(stored[s]) : stored[s][m] # queue[1]
      BY <1>3, <2>1, BeforeIsStrict DEF StoredBeforeRest, LedgerTypes
    <2>3. stored[s] \in Seq(Rows)
      BY <1>3 DEF LedgerTypes
    <2>4. queue[1] \notin Range(stored[s])
      BY <2>2, <2>3 DEF Range
    <2>5. Due(s)' /\ ~ Due(s)
      BY <1>1, <2>1, <2>4 DEF Due
    <2> QED BY <1>1, <1>2, <1>4, <1>5, <2>5 DEF Allowed
  <1>7. Missing(s)' = Missing(s)
    BY <1>1 DEF Missing
  <1> QED BY <1>3, <1>6, <1>7

\* While sinks connect, none of them is missing anything.
LEMMA ConnectingAccounts ==
  ASSUME OrderInv, OrderInv', Connecting
  PROVE  GapsCovered'
  <1> USE DEF OrderInv
  <1>1. UNCHANGED <<offered, firstNow>> /\ toConnect # <<>>
    BY DEF Connecting, Connect, ConnectFails, ConnectSkipped
  <1>2. firstNow = Len(offered) /\ Len(offered) \in Nat
    BY <1>1 DEF ConnectsFirst, LedgerTypes
  <1> SUFFICES ASSUME NEW s \in connected'
               PROVE  Cardinality(Missing(s)') <= Allowed(s)'
    BY DEF GapsCovered
  <1>3. Cardinality(Missing(s)') = 0
    BY <1>1, <1>2, FS_EmptySet DEF Missing
  <1>4. Label(s)' \in Labels /\ s \in Sinks
    BY DEF Label, Labels, LedgerTypes
  <1>5. errors'[Label(s)'] \in Nat /\ dropped' \in Nat /\ Len(queue') \in Nat
    BY <1>4 DEF LedgerTypes, Labels
  <1> QED BY <1>3, <1>5 DEF Allowed

\* No gap without a trace: whatever a connected sink does not hold of the rows
\* this process was offered is covered by the queue, the drop counter and that
\* sink's own error counter, whatever happens at the other sinks.
THEOREM GapsAreCounted == Spec => []CountersAccountForGaps
  <1>1. Init => GapsCovered
    BY DEF Init, GapsCovered
  <1>2. OrderInv /\ OrderInv' /\ GapsCovered /\ [Next]_vars => GapsCovered'
    <2> SUFFICES ASSUME OrderInv, OrderInv', GapsCovered, [Next]_vars
                 PROVE  GapsCovered'
      OBVIOUS
    <2>1. CASE Connecting
      BY <2>1, ConnectingAccounts
    <2>2. ASSUME NEW r \in Rows, Enqueue(r) PROVE GapsCovered'
      BY <2>2, EnqueueAccounts
    <2>3. CASE Receive
      BY <2>3, ReceiveAccounts
    <2>4. ASSUME NEW s \in Sinks, SinkStores(s) \/ PublishRepeated(s) \/ SinkFails(s)
          PROVE  GapsCovered'
      BY <2>4, AnswerAccounts
    <2>5. ASSUME UNCHANGED <<offered, firstNow, queue, hand, waiting, connected, stored,
                             errors, dropped>>
          PROVE  GapsCovered'
      BY <2>5 DEF GapsCovered, Allowed, Due, Missing, Label
    <2>6. CASE Restart
      BY <2>6 DEF Restart, GapsCovered
    <2> QED
      BY <2>1, <2>2, <2>3, <2>4, <2>5, <2>6 DEF Next, Flip, vars, startVars
  <1>3. OrderInv /\ GapsCovered => CountersAccountForGaps
    <2> SUFFICES ASSUME OrderInv, GapsCovered, NEW s \in connected
                 PROVE  Cardinality(Missing(s)) <=
                          dropped + errors[Label(s)] + Len(queue) + (IF s \in waiting THEN 1 ELSE 0)
      BY DEF CountersAccountForGaps
    <2>1. s \in Sinks /\ Label(s) \in Labels
      BY DEF OrderInv, LedgerTypes, Label, Labels
    <2>2. dropped \in Nat /\ errors[Label(s)] \in Nat /\ Len(queue) \in Nat
      BY <2>1 DEF OrderInv, LedgerTypes
    <2>3. Cardinality(Missing(s)) \in Nat
      BY <2>1, MissingIsFinite DEF OrderInv
    <2>4. Cardinality(Missing(s)) <= Allowed(s)
      BY DEF GapsCovered
    <2> QED BY <2>2, <2>3, <2>4 DEF Allowed, Due
  <1> QED BY <1>1, <1>2, <1>3, OrderInvariant, PTL DEF Spec
=============================================================================
