-------------------------- MODULE AssocPoolProofs --------------------------
(***************************************************************************)
(* Proofs about AssocPool, for any descriptors and any number of accepted  *)
(* associations.                                                           *)
(***************************************************************************)
EXTENDS AssocPool, SequenceTheorems, TLAPS

\* Tasks are numbered in the order of acceptance.
NumbersInOrder == \A n \in Numbers : task[n] = "none" <=> n > accepted

\* A task reads, or a sender writes, the socket fd[n].
Uses(n) == task[n] \in Unended \/ sending = n

\* Two associations in use at a time have different descriptors.
OwnDescriptor ==
  /\ \A n, m \in Numbers : Uses(n) /\ Uses(m) /\ fd[n] = fd[m] => n = m
  /\ sending # NoTask => task[sending] # "none"

\* Every running task can be reached by a drain: its handle is in the list,
\* taken from it, or about to be pushed.
Reachable ==
  \A n \in Numbers : task[n] \in Unended =>
     n \in Range(handles) \/ awaited["main"] = n \/ awaited["listener"] = n \/ adding = n

\* Who holds the mutex, and in which order shutdown goes.
Order ==
  /\ lock = "main" <=> main = "draining"
  /\ lock = "listener" <=> listener = "draining"
  /\ \A d \in Drainers : awaited[d] # NoTask => lock = d
  /\ adding # NoTask <=> listener = "adding"
  /\ listener \in {"closed", "draining", "exited"} => main \in {"joining", "done"}
  /\ listener = "exited" => handles = <<>>
  /\ main = "done" => listener = "exited"

\* The inductive invariant.
PoolInv ==
  /\ PoolTypeOK
  /\ MapMatchesTasks
  /\ OpenWhileUsed
  /\ NumbersInOrder
  /\ OwnDescriptor
  /\ Reachable
  /\ Order

-----------------------------------------------------------------------------
\* Pushing a handle adds exactly its task to the list.
LEMMA RangeOfPush ==
  ASSUME NEW S, NEW s \in Seq(S), NEW e \in S
  PROVE  Range(Append(s, e)) = Range(s) \cup {e}
<1>1. Append(s, e) \in Seq(S) /\ Len(Append(s, e)) = Len(s) + 1
  OBVIOUS
<1>2. DOMAIN s = 1 .. Len(s) /\ DOMAIN Append(s, e) = 1 .. Len(s) + 1
  BY <1>1
<1>3. \A i \in 1 .. Len(s) + 1 : Append(s, e)[i] = IF i = Len(s) + 1 THEN e ELSE s[i]
  OBVIOUS
<1>4. Len(s) \in Nat
  OBVIOUS
<1>5. ASSUME NEW x PROVE x \in Range(Append(s, e)) <=> x \in Range(s) \cup {e}
  BY <1>2, <1>3, <1>4 DEF Range
<1> QED
  BY Zenon, <1>5

\* Taking the first handle leaves the others.
LEMMA RangeOfTake ==
  ASSUME NEW S, NEW s \in Seq(S), s # <<>>
  PROVE  /\ Head(s) \in S /\ Tail(s) \in Seq(S)
         /\ Range(s) = Range(Tail(s)) \cup {Head(s)}
<1>1. Len(s) \in Nat \ {0} /\ Tail(s) \in Seq(S) /\ Len(Tail(s)) = Len(s) - 1
  OBVIOUS
<1>2. DOMAIN s = 1 .. Len(s) /\ DOMAIN Tail(s) = 1 .. Len(s) - 1
  BY <1>1
<1>3. Head(s) = s[1] /\ \A i \in 1 .. Len(s) - 1 : Tail(s)[i] = s[i + 1]
  OBVIOUS
<1>4. ASSUME NEW x PROVE x \in Range(s) <=> x \in Range(Tail(s)) \cup {Head(s)}
  <2>1. CASE x \in Range(s)
    <3>1. PICK i \in 1 .. Len(s) : s[i] = x
      BY Zenon, <1>2, <2>1 DEF Range
    <3>2. CASE i = 1
      BY Zenon, <1>3, <2>1, <3>1, <3>2
    <3>3. CASE i # 1
      <4>1. i - 1 \in 1 .. Len(s) - 1 /\ Tail(s)[i - 1] = x
        BY <1>1, <1>3, <3>1, <3>3
      <4> QED
        BY Zenon, <1>2, <2>1, <4>1 DEF Range
    <3> QED
      BY Zenon, <3>2, <3>3
  <2>2. CASE x \in Range(Tail(s))
    <3>1. PICK i \in 1 .. Len(s) - 1 : Tail(s)[i] = x
      BY Zenon, <1>2, <2>2 DEF Range
    <3>2. i + 1 \in 1 .. Len(s) /\ s[i + 1] = x
      BY <1>1, <1>3, <3>1
    <3> QED
      BY Zenon, <1>2, <2>2, <3>2 DEF Range
  <2>3. CASE x = Head(s)
    BY <1>1, <1>2, <1>3, <2>3 DEF Range
  <2> QED
    BY Zenon, <2>1, <2>2, <2>3
<1> QED
  BY <1>1, <1>4

\* An empty list has no handles.
LEMMA EmptyRange == Range(<<>>) = {}
BY DEF Range

-----------------------------------------------------------------------------
\* The invariant holds when serve starts.
LEMMA PoolInvInit == PoolInit => PoolInv
<1> SUFFICES ASSUME PoolInit PROVE PoolInv
  BY Zenon
<1> USE PoolAssumption
<1>1. PoolTypeOK
  <2>1. <<>> \in Seq(Numbers)
    OBVIOUS
  <2> QED
    BY <2>1 DEF PoolInit, PoolTypeOK, Numbers, Unended, InPool, Drainers, NoTask
<1>2. MapMatchesTasks /\ OpenWhileUsed /\ NumbersInOrder /\ OwnDescriptor /\ Reachable
  BY DEF PoolInit, MapMatchesTasks, OpenWhileUsed, NumbersInOrder, OwnDescriptor, Uses, Reachable,
         Unended, InPool, NoTask, Numbers
<1>3. Order
  BY Zenon DEF PoolInit, Order
<1> QED
  BY Zenon, <1>1, <1>2, <1>3 DEF PoolInv

\* A step of a task that changes nothing but its own progress, within the
\* states in which its association is in the map.
LEMMA WithinPool ==
  ASSUME PoolInv, NEW n \in Numbers, NEW state \in InPool,
         task[n] \in InPool, Becomes(n, state), UNCHANGED <<socket, assocs>>
  PROVE  PoolInv'
<1>1. PoolTypeOK'
  BY Zenon DEF PoolInv, PoolTypeOK, Becomes, Unended, InPool
<1>2. MapMatchesTasks' /\ OpenWhileUsed'
  BY DEF PoolInv, PoolTypeOK, MapMatchesTasks, OpenWhileUsed, Becomes, Unended, InPool
<1>3. NumbersInOrder' /\ OwnDescriptor'
  BY DEF PoolInv, PoolTypeOK, NumbersInOrder, OwnDescriptor, Uses, Becomes, Unended, InPool, NoTask
<1>4. Reachable' /\ Order'
  BY Zenon DEF PoolInv, PoolTypeOK, Reachable, Order, Becomes, Unended, InPool
<1> QED
  BY Zenon, <1>1, <1>2, <1>3, <1>4 DEF PoolInv

\* accept and add_and_handle keep the invariant: the descriptor is nobody else's.
LEMMA PoolInvAccept ==
  ASSUME PoolInv, NEW f \in Fds, Accept(f)
  PROVE  PoolInv'
<1> DEFINE n == accepted + 1
<1>1. n \in Numbers /\ accepted \in Nat
  BY PoolAssumption DEF PoolInv, PoolTypeOK, Accept, Numbers
<1>2. task[n] = "none" /\ sending # n
  BY <1>1 DEF PoolInv, NumbersInOrder, OwnDescriptor, Numbers, NoTask
<1>3. /\ accepted' = n /\ fd' = [fd EXCEPT ![n] = f] /\ task' = [task EXCEPT ![n] = "spawned"]
      /\ assocs' = [assocs EXCEPT ![f] = n] /\ adding' = n
      /\ socket' = [socket EXCEPT ![f] = "up"] /\ listener' = "adding" /\ listener = "accepting"
      /\ socket[f] = "free" /\ accepted < MaxAccepts
      /\ UNCHANGED <<stopped, handles, lock, awaited, main, sending>>
  BY Zenon DEF Accept
<1> HIDE DEF n
<1>4. \A m \in Numbers : Uses(m) => fd[m] # f
  BY Zenon, <1>3 DEF PoolInv, OpenWhileUsed, Uses
<1>5. PoolTypeOK'
  <2>1. n \in 0 .. MaxAccepts
    BY <1>1, PoolAssumption DEF Numbers
  <2> QED
    BY Zenon, <1>1, <1>3, <2>1 DEF PoolInv, PoolTypeOK, Unended, InPool
<1>6. MapMatchesTasks'
  BY <1>1, <1>2, <1>3, <1>4 DEF PoolInv, PoolTypeOK, MapMatchesTasks, Uses, Unended, InPool, NoTask
<1>7. OpenWhileUsed'
  BY Zenon, <1>1, <1>2, <1>3, <1>4 DEF PoolInv, PoolTypeOK, OpenWhileUsed, Uses, Unended, InPool
<1>8. NumbersInOrder'
  BY <1>1, <1>2, <1>3, PoolAssumption DEF PoolInv, PoolTypeOK, NumbersInOrder, Numbers, n
<1>9. OwnDescriptor'
  BY <1>1, <1>2, <1>3, <1>4 DEF PoolInv, PoolTypeOK, OwnDescriptor, Uses, Unended, InPool, NoTask
<1>10. Reachable'
  BY <1>1, <1>2, <1>3 DEF PoolInv, PoolTypeOK, Reachable, Order, Unended, InPool, NoTask, Numbers
<1>11. Order'
  BY <1>1, <1>3 DEF PoolInv, Order, NoTask, Numbers
<1> QED
  BY Zenon, <1>5, <1>6, <1>7, <1>8, <1>9, <1>10, <1>11 DEF PoolInv

\* Steps that touch neither tasks, sockets, the map nor senders.
LEMMA QuietStep ==
  ASSUME PoolInv, PoolTypeOK', Reachable', Order',
         UNCHANGED <<socket, assocs, accepted, fd, task, sending>>
  PROVE  PoolInv'
BY Zenon DEF PoolInv, MapMatchesTasks, OpenWhileUsed, NumbersInOrder, OwnDescriptor, Uses

\* The other steps of serve, and of QCore::graceful_shutdown.
LEMMA PoolInvListener ==
  ASSUME PoolInv, PushHandle \/ StopListening \/ Signal \/ JoinListener
  PROVE  PoolInv'
<1>1. CASE PushHandle
  <2>1. adding \in Numbers /\ handles \in Seq(Numbers)
    BY Zenon, <1>1 DEF PoolInv, PoolTypeOK, Order, PushHandle
  <2>2. Range(handles') = Range(handles) \cup {adding} /\ handles' \in Seq(Numbers)
    BY <1>1, <2>1, RangeOfPush DEF PushHandle
  <2>3. PoolTypeOK'
    BY Zenon, <1>1, <2>2 DEF PoolInv, PoolTypeOK, PushHandle
  <2>4. Reachable'
    BY Zenon, <1>1, <2>2 DEF PoolInv, Reachable, PushHandle
  <2>5. Order'
    BY Zenon, <1>1 DEF PoolInv, Order, PushHandle
  <2> QED
    BY Zenon, <1>1, <2>3, <2>4, <2>5, QuietStep DEF PushHandle
<1>2. CASE StopListening
  <2>1. PoolTypeOK' /\ Reachable' /\ Order'
    BY Zenon, <1>2 DEF PoolInv, PoolTypeOK, Reachable, Order, StopListening
  <2> QED
    BY Zenon, <1>2, <2>1, QuietStep DEF StopListening
<1>3. CASE Signal
  <2>1. PoolTypeOK' /\ Reachable' /\ Order'
    BY Zenon, <1>3 DEF PoolInv, PoolTypeOK, Reachable, Order, Signal
  <2> QED
    BY Zenon, <1>3, <2>1, QuietStep DEF Signal
<1>4. CASE JoinListener
  <2>1. PoolTypeOK' /\ Reachable' /\ Order'
    BY Zenon, <1>4 DEF PoolInv, PoolTypeOK, Reachable, Order, JoinListener
  <2> QED
    BY Zenon, <1>4, <2>1, QuietStep DEF JoinListener
<1> QED
  BY Zenon, <1>1, <1>2, <1>3, <1>4

\* A drain keeps every running task reachable until it has ended.
LEMMA PoolInvDrain ==
  ASSUME PoolInv, NEW d \in Drainers, DrainStep(d)
  PROVE  PoolInv'
<1>1. CASE LockTasks(d)
  <2>1. PoolTypeOK' /\ Reachable'
    BY Zenon, <1>1 DEF PoolInv, PoolTypeOK, Reachable, LockTasks, Drainers
  <2>2. Order'
    BY Zenon, <1>1 DEF PoolInv, PoolTypeOK, Order, LockTasks, Drainers
  <2> QED
    BY Zenon, <1>1, <2>1, <2>2, QuietStep DEF LockTasks
<1>2. CASE StopNext(d)
  <2>1. /\ Head(handles) \in Numbers /\ Tail(handles) \in Seq(Numbers)
        /\ Range(handles) = Range(Tail(handles)) \cup {Head(handles)}
    BY Zenon, <1>2, RangeOfTake DEF PoolInv, PoolTypeOK, StopNext
  <2>2. PoolTypeOK'
    BY Zenon, <1>2, <2>1 DEF PoolInv, PoolTypeOK, StopNext
  <2>3. Reachable'
    BY <1>2, <2>1 DEF PoolInv, PoolTypeOK, Reachable, StopNext, Drainers, NoTask, Numbers
  <2>4. Order'
    BY Zenon, <1>2, <2>1 DEF PoolInv, PoolTypeOK, Order, StopNext, Drainers
  <2> QED
    BY Zenon, <1>2, <2>2, <2>3, <2>4, QuietStep DEF StopNext
<1>3. CASE Join(d)
  <2>1. PoolTypeOK'
    BY Zenon, <1>3 DEF PoolInv, PoolTypeOK, Join
  <2>2. Reachable'
    BY Zenon, <1>3 DEF PoolInv, PoolTypeOK, Reachable, Join, Drainers, Unended, InPool
  <2>3. Order'
    BY Zenon, <1>3 DEF PoolInv, PoolTypeOK, Order, Join, Drainers
  <2> QED
    BY Zenon, <1>3, <2>1, <2>2, <2>3, QuietStep DEF Join
<1>4. CASE Drained(d)
  <2>1. PoolTypeOK' /\ Reachable'
    BY Zenon, <1>4 DEF PoolInv, PoolTypeOK, Reachable, Drained
  <2>2. Order'
    BY Zenon, <1>4 DEF PoolInv, PoolTypeOK, Order, Drained, Drainers
  <2> QED
    BY Zenon, <1>4, <2>1, <2>2, QuietStep DEF Drained
<1> QED
  BY Zenon, <1>1, <1>2, <1>3, <1>4 DEF DrainStep

\* assocs.remove takes out the task's own entry.
LEMMA PoolInvRemove ==
  ASSUME PoolInv, NEW n \in Numbers, Remove(n)
  PROVE  PoolInv'
<1>1. fd[n] \in Fds /\ assocs[fd[n]] = n
  BY Zenon DEF PoolInv, PoolTypeOK, MapMatchesTasks, Remove, InPool
<1>2. PoolTypeOK'
  BY Zenon, <1>1 DEF PoolInv, PoolTypeOK, Remove, Becomes, Unended, NoTask
<1>3. MapMatchesTasks'
  <2>1. \A f \in Fds : assocs'[f] # NoTask => task'[assocs'[f]] \in InPool /\ fd'[assocs'[f]] = f
    BY <1>1 DEF PoolInv, PoolTypeOK, MapMatchesTasks, Remove, Becomes, InPool
  <2>2. \A m \in Numbers : task'[m] \in InPool => assocs'[fd'[m]] = m
    BY <1>1 DEF PoolInv, PoolTypeOK, MapMatchesTasks, Remove, Becomes, InPool
  <2> QED
    BY Zenon, <2>1, <2>2 DEF MapMatchesTasks
<1>4. OpenWhileUsed' /\ NumbersInOrder' /\ OwnDescriptor'
  BY DEF PoolInv, PoolTypeOK, OpenWhileUsed, NumbersInOrder, OwnDescriptor, Uses, Remove, Becomes,
         Unended, InPool, NoTask
<1>5. Reachable' /\ Order'
  BY Zenon DEF PoolInv, PoolTypeOK, Reachable, Order, Remove, Becomes, Unended, InPool
<1> QED
  BY Zenon, <1>2, <1>3, <1>4, <1>5 DEF PoolInv

\* The last reference of the task goes; the socket stays for a sender.
LEMMA PoolInvEnd ==
  ASSUME PoolInv, NEW n \in Numbers, End(n)
  PROVE  PoolInv'
<1>1. PoolTypeOK'
  BY Zenon DEF PoolInv, PoolTypeOK, End, Becomes, Unended
<1>2. MapMatchesTasks'
  BY DEF PoolInv, PoolTypeOK, MapMatchesTasks, End, Becomes, InPool
<1>3. OpenWhileUsed'
  BY Zenon DEF PoolInv, PoolTypeOK, OpenWhileUsed, OwnDescriptor, Uses, End, Becomes, Unended,
     InPool
<1>4. NumbersInOrder' /\ OwnDescriptor'
  BY Zenon DEF PoolInv, PoolTypeOK, NumbersInOrder, OwnDescriptor, Uses, End, Becomes, Unended,
     InPool, NoTask
<1>5. Reachable' /\ Order'
  BY Zenon DEF PoolInv, PoolTypeOK, Reachable, Order, End, Becomes, Unended, InPool
<1> QED
  BY Zenon, <1>1, <1>2, <1>3, <1>4, <1>5 DEF PoolInv

\* Every step of handle_assoc keeps the invariant.
LEMMA PoolInvTask ==
  ASSUME PoolInv, NEW n \in Numbers, TaskStep(n) \/ HandleMessage(n)
  PROVE  PoolInv'
<1>1. CASE Established(n) \/ Handled(n) \/ Terminated(n) \/ HandleMessage(n)
  <2>1. PICK state \in InPool :
           task[n] \in InPool /\ Becomes(n, state) /\ UNCHANGED <<socket, assocs>>
    BY Zenon, <1>1 DEF Established, Handled, Terminated, HandleMessage, InPool
  <2> QED
    BY Zenon, <2>1, WithinPool
<1> QED
  BY Zenon, <1>1, PoolInvRemove, PoolInvEnd DEF TaskStep

\* So do send_message and the peer.
LEMMA PoolInvSender ==
  ASSUME PoolInv, (\E f \in Fds : PickAssoc(f) \/ PeerGone(f)) \/ Sent
  PROVE  PoolInv'
<1>1. ASSUME NEW f \in Fds, PickAssoc(f) PROVE PoolInv'
  <2>1. assocs[f] \in Numbers /\ task[assocs[f]] \in InPool
    BY <1>1 DEF PoolInv, PoolTypeOK, MapMatchesTasks, PickAssoc
  <2>2. PoolTypeOK' /\ MapMatchesTasks' /\ NumbersInOrder' /\ Reachable' /\ Order'
    BY Zenon, <1>1, <2>1 DEF PoolInv, PoolTypeOK, MapMatchesTasks, NumbersInOrder, Reachable,
       Order, PickAssoc
  <2>3. OpenWhileUsed' /\ OwnDescriptor'
    BY Zenon, <1>1, <2>1 DEF PoolInv, OpenWhileUsed, OwnDescriptor, Uses, PickAssoc, Unended, InPool
  <2> QED
    BY Zenon, <2>2, <2>3 DEF PoolInv
<1>2. ASSUME NEW f \in Fds, PeerGone(f) PROVE PoolInv'
  <2>1. PoolTypeOK' /\ MapMatchesTasks' /\ NumbersInOrder' /\ Reachable' /\ Order'
    BY Zenon, <1>2 DEF PoolInv, PoolTypeOK, MapMatchesTasks, NumbersInOrder, Reachable, Order,
       PeerGone
  <2>2. OpenWhileUsed' /\ OwnDescriptor'
    BY Zenon, <1>2 DEF PoolInv, PoolTypeOK, OpenWhileUsed, OwnDescriptor, Uses, PeerGone
  <2> QED
    BY Zenon, <2>1, <2>2 DEF PoolInv
<1>3. CASE Sent
  <2>1. sending \in Numbers
    BY Zenon, <1>3 DEF PoolInv, PoolTypeOK, Sent
  <2>2. PoolTypeOK' /\ MapMatchesTasks' /\ NumbersInOrder' /\ Reachable' /\ Order'
    BY Zenon, <1>3, <2>1 DEF PoolInv, PoolTypeOK, MapMatchesTasks, NumbersInOrder, Reachable,
       Order, Sent
  <2>3. OpenWhileUsed'
    BY <1>3, <2>1 DEF PoolInv, PoolTypeOK, OpenWhileUsed, OwnDescriptor, Uses, Sent, Unended,
       InPool,
                      NoTask, Numbers
  <2>4. OwnDescriptor'
    BY <1>3, <2>1 DEF PoolInv, PoolTypeOK, OwnDescriptor, Uses, Sent, NoTask, Numbers
  <2> QED
    BY Zenon, <2>2, <2>3, <2>4 DEF PoolInv
<1> QED
  BY Zenon, <1>1, <1>2, <1>3

\* The invariant is inductive.
LEMMA PoolInvNext == PoolInv /\ [PoolNext]_poolVars => PoolInv'
<1> SUFFICES ASSUME PoolInv, [PoolNext]_poolVars PROVE PoolInv'
  BY Zenon
<1>1. CASE UNCHANGED poolVars
  BY <1>1 DEF poolVars, PoolInv, PoolTypeOK, MapMatchesTasks, OpenWhileUsed, NumbersInOrder,
              OwnDescriptor, Uses, Reachable, Order
<1>2. CASE PoolNext
  BY Zenon, <1>2, PoolInvAccept, PoolInvSender, PoolInvListener, PoolInvDrain, PoolInvTask
     DEF PoolNext
<1> QED
  BY Zenon, <1>1, <1>2

\* Hence it holds in every state.
LEMMA PoolInvAlways == PoolSpec => []PoolInv
BY PoolInvInit, PoolInvNext, PTL DEF PoolSpec

\* An association is in the map exactly while its own task is between
\* add_and_handle and assocs.remove, also when descriptors are used again.
THEOREM PoolMapMatchesTasks == PoolSpec => []MapMatchesTasks
<1>1. PoolInv => MapMatchesTasks
  BY Zenon DEF PoolInv
<1> QED
  BY <1>1, PoolInvAlways, PTL

\* A socket is open while a task reads it or a sender writes to it.
THEOREM PoolOpenWhileUsed == PoolSpec => []OpenWhileUsed
<1>1. PoolInv => OpenWhileUsed
  BY Zenon DEF PoolInv
<1> QED
  BY <1>1, PoolInvAlways, PTL

\* When graceful_shutdown returns, the listener and all tasks have ended and
\* the map is empty, whatever was accepted while it ran.
THEOREM PoolShutdownLeavesNothing == PoolSpec => []ShutdownLeavesNothing
<1>1. PoolInv => ShutdownLeavesNothing
  <2> SUFFICES ASSUME PoolInv, main = "done" PROVE ShutdownLeavesNothing
    BY Zenon DEF ShutdownLeavesNothing
  <2>1. listener = "exited" /\ handles = <<>>
    BY Zenon DEF PoolInv, Order
  <2>2. awaited["main"] = NoTask /\ awaited["listener"] = NoTask /\ adding = NoTask
    BY Zenon, <2>1 DEF PoolInv, Order, Drainers
  <2>3. \A n \in Numbers : task[n] \notin Unended
    BY <2>1, <2>2, EmptyRange DEF PoolInv, Reachable, NoTask, Numbers
  <2>4. \A f \in Fds : assocs[f] = NoTask
    BY <2>3 DEF PoolInv, PoolTypeOK, MapMatchesTasks, Unended
  <2> QED
    BY Zenon, <2>1, <2>3, <2>4 DEF ShutdownLeavesNothing
<1> QED
  BY <1>1, PoolInvAlways, PTL
=============================================================================
