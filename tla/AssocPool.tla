----------------------------- MODULE AssocPool -----------------------------
(***************************************************************************)
(* The life of SCTP associations and the orderly shutdown of the process:  *)
(* the listener of SctpTransportProvider::serve, the association map and   *)
(* task list of SctpTnlaPool, one handle_assoc task per association, and   *)
(* QCore::graceful_shutdown.                                               *)
(*                                                                         *)
(* An association is identified by its file descriptor, which the kernel   *)
(* gives out again once it is closed: a task is known here by its number   *)
(* in the order of acceptance, and fd[n] is the key it works with.         *)
(*                                                                         *)
(* What the handlers do with events and messages is Stack's.               *)
(***************************************************************************)
EXTENDS Naturals, Sequences, Functions

CONSTANTS Fds,         \* file descriptors
          MaxAccepts   \* bound: associations accepted altogether

ASSUME PoolAssumption == MaxAccepts \in Nat

Numbers == 1 .. MaxAccepts
NoTask == 0

VARIABLES
  socket,      \* socket[f]: "free", "up", or "down" when the peer has gone
  assocs,      \* assocs[f]: the task whose association is in the map, or NoTask
  accepted,    \* how many associations have been accepted
  fd,          \* fd[n]: the descriptor of task n
  task,        \* task[n]: how far handle_assoc is
  stopped,     \* tasks whose stop source has been dropped
  handles,     \* SctpTnlaPool::tasks, a Vec of shutdown handles
  lock,        \* who holds its mutex: "main", "listener" or "free"
  awaited,     \* awaited[d]: the task drainer d is joining, or NoTask
  listener,    \* how far the task of serve is
  adding,      \* the task whose handle the listener has still to push
  main,        \* how far QCore::graceful_shutdown is
  sending      \* the association a send_message has hold of, or NoTask

poolVars == <<socket, assocs, accepted, fd, task, stopped, handles, lock, awaited,
              listener, adding, main, sending>>

Drainers == {"main", "listener"}
InPool == {"spawned", "recv", "handling", "terminated"}
Unended == InPool \cup {"removed"}

PoolTypeOK ==
  /\ socket \in [Fds -> {"free", "up", "down"}]
  /\ assocs \in [Fds -> Numbers \cup {NoTask}]
  /\ accepted \in 0 .. MaxAccepts
  /\ fd \in [Numbers -> Fds]
  /\ task \in [Numbers -> Unended \cup {"none", "ended"}]
  /\ stopped \subseteq Numbers
  /\ handles \in Seq(Numbers)
  /\ lock \in Drainers \cup {"free"}
  /\ awaited \in [Drainers -> Numbers \cup {NoTask}]
  /\ listener \in {"accepting", "adding", "closed", "draining", "exited"}
  /\ adding \in Numbers \cup {NoTask}
  /\ main \in {"running", "locking", "draining", "joining", "done"}
  /\ sending \in Numbers \cup {NoTask}

PoolInit ==
  /\ socket = [f \in Fds |-> "free"]
  /\ assocs = [f \in Fds |-> NoTask]
  /\ accepted = 0
  /\ fd \in {[n \in Numbers |-> f] : f \in Fds}
  /\ task = [n \in Numbers |-> "none"]
  /\ stopped = {} /\ handles = <<>> /\ lock = "free"
  /\ awaited = [d \in Drainers |-> NoTask]
  /\ listener = "accepting" /\ adding = NoTask /\ main = "running" /\ sending = NoTask

-----------------------------------------------------------------------------
(* serve: the listener.                                                    *)

\* accept, and add_and_handle up to its lock.  While the stop token is ready
\* too, select! may still choose this branch.
Accept(f) ==
  /\ listener = "accepting"
  /\ socket[f] = "free"
  /\ accepted < MaxAccepts
  /\ LET n == accepted + 1
     IN  /\ accepted' = n
         /\ fd' = [fd EXCEPT ![n] = f]
         /\ task' = [task EXCEPT ![n] = "spawned"]
         /\ assocs' = [assocs EXCEPT ![f] = n]
         /\ adding' = n
  /\ socket' = [socket EXCEPT ![f] = "up"]
  /\ listener' = "adding"
  /\ UNCHANGED <<stopped, handles, lock, awaited, main, sending>>

\* add_and_handle: self.tasks.lock().await.push(shutdown_handle).
PushHandle ==
  /\ listener = "adding"
  /\ lock = "free"
  /\ handles' = Append(handles, adding)
  /\ adding' = NoTask
  /\ listener' = "accepting"
  /\ UNCHANGED <<socket, assocs, accepted, fd, task, stopped, lock, awaited, main, sending>>

\* Mutant: the listener leaves the pool to graceful_shutdown's own drain.
StopListeningExits ==
  /\ listener = "accepting"
  /\ main = "joining"
  /\ listener' = "exited"
  /\ UNCHANGED <<socket, assocs, accepted, fd, task, stopped, handles, lock, awaited,
                 adding, main, sending>>

\* The stop token's branch, and listener.close().
StopListening ==
  /\ listener = "accepting"
  /\ main = "joining"
  /\ listener' = "closed"
  /\ UNCHANGED <<socket, assocs, accepted, fd, task, stopped, handles, lock, awaited,
                 adding, main, sending>>

-----------------------------------------------------------------------------
(* SctpTnlaPool::graceful_shutdown, run once by main and once by the       *)
(* listener.  It keeps the mutex while it joins the tasks one by one.      *)

LockTasks(d) ==
  /\ lock = "free"
  /\ \/ /\ d = "main" /\ main = "locking"
        /\ main' = "draining" /\ UNCHANGED listener
     \/ /\ d = "listener" /\ listener = "closed"
        /\ listener' = "draining" /\ UNCHANGED main
  /\ lock' = d
  /\ UNCHANGED <<socket, assocs, accepted, fd, task, stopped, handles, awaited, adding, sending>>

\* ShutdownHandle::graceful_shutdown of the next handle: drop the stop source.
StopNext(d) ==
  /\ lock = d
  /\ awaited[d] = NoTask
  /\ handles # <<>>
  /\ awaited' = [awaited EXCEPT ![d] = Head(handles)]
  /\ stopped' = stopped \cup {Head(handles)}
  /\ handles' = Tail(handles)
  /\ UNCHANGED <<socket, assocs, accepted, fd, task, lock, listener, adding, main, sending>>

\* self.handle.await returns.
Join(d) ==
  /\ lock = d
  /\ awaited[d] # NoTask
  /\ task[awaited[d]] = "ended"
  /\ awaited' = [awaited EXCEPT ![d] = NoTask]
  /\ UNCHANGED <<socket, assocs, accepted, fd, task, stopped, handles, lock, listener,
                 adding, main, sending>>

\* The list is empty: release it.  main goes on to the listener's handle.
Drained(d) ==
  /\ lock = d
  /\ awaited[d] = NoTask
  /\ handles = <<>>
  /\ lock' = "free"
  /\ main' = IF d = "main" THEN "joining" ELSE main
  /\ listener' = IF d = "listener" THEN "exited" ELSE listener
  /\ UNCHANGED <<socket, assocs, accepted, fd, task, stopped, handles, awaited, adding, sending>>

-----------------------------------------------------------------------------
(* QCore::graceful_shutdown, after a signal.                               *)

Signal ==
  /\ main = "running"
  /\ main' = "locking"
  /\ UNCHANGED <<socket, assocs, accepted, fd, task, stopped, handles, lock, awaited,
                 listener, adding, sending>>

JoinListener ==
  /\ main = "joining"
  /\ listener = "exited"
  /\ main' = "done"
  /\ UNCHANGED <<socket, assocs, accepted, fd, task, stopped, handles, lock, awaited,
                 listener, adding, sending>>

-----------------------------------------------------------------------------
(* handle_assoc                                                            *)

Becomes(n, state) ==
  /\ task' = [task EXCEPT ![n] = state]
  /\ UNCHANGED <<accepted, fd, stopped, handles, lock, awaited, listener, adding, main, sending>>

\* The Established event.
Established(n) ==
  /\ task[n] = "spawned"
  /\ Becomes(n, "recv")
  /\ UNCHANGED <<socket, assocs>>

\* A message arrives; take_until looks at the stop token first.
HandleMessage(n) ==
  /\ task[n] = "recv"
  /\ n \notin stopped
  /\ socket[fd[n]] = "up"
  /\ Becomes(n, "handling")
  /\ UNCHANGED <<socket, assocs>>

Handled(n) ==
  /\ task[n] = "handling"
  /\ Becomes(n, "recv")
  /\ UNCHANGED <<socket, assocs>>

\* Mutant: only the peer's end of the association ends the loop.
TerminatedByPeerOnly(n) ==
  /\ task[n] = "recv"
  /\ socket[fd[n]] = "down"
  /\ Becomes(n, "terminated")
  /\ UNCHANGED <<socket, assocs>>

\* Mutant: an error from the socket is taken for the end of one message.
TerminatedByStopOnly(n) ==
  /\ task[n] = "recv"
  /\ n \in stopped
  /\ Becomes(n, "terminated")
  /\ UNCHANGED <<socket, assocs>>

\* Local shutdown or an error: the Terminated event, and out of the loop.
Terminated(n) ==
  /\ task[n] = "recv"
  /\ n \in stopped \/ socket[fd[n]] = "down"
  /\ Becomes(n, "terminated")
  /\ UNCHANGED <<socket, assocs>>

\* Mutant: the map entry is forgotten.
RemoveNothing(n) ==
  /\ task[n] = "terminated"
  /\ Becomes(n, "removed")
  /\ UNCHANGED <<socket, assocs>>

\* self.assocs.remove(&assoc_id).
Remove(n) ==
  /\ task[n] = "terminated"
  /\ assocs' = [assocs EXCEPT ![fd[n]] = NoTask]
  /\ Becomes(n, "removed")
  /\ UNCHANGED socket

\* Mutant: the task closes the socket itself.
EndCloses(n) ==
  /\ task[n] = "removed"
  /\ Becomes(n, "ended")
  /\ socket' = [socket EXCEPT ![fd[n]] = "free"]
  /\ UNCHANGED assocs

\* The task's reference is dropped: the socket closes unless a sender has one.
End(n) ==
  /\ task[n] = "removed"
  /\ Becomes(n, "ended")
  /\ socket' = IF sending = n THEN socket ELSE [socket EXCEPT ![fd[n]] = "free"]
  /\ UNCHANGED assocs

-----------------------------------------------------------------------------
(* send_message: looks an association up and keeps a reference to it while *)
(* it sends.                                                               *)

PickAssoc(f) ==
  /\ sending = NoTask
  /\ assocs[f] # NoTask
  /\ sending' = assocs[f]
  /\ UNCHANGED <<socket, assocs, accepted, fd, task, stopped, handles, lock, awaited,
                 listener, adding, main>>

Sent ==
  /\ sending # NoTask
  /\ socket' = IF task[sending] = "ended" THEN [socket EXCEPT ![fd[sending]] = "free"] ELSE socket
  /\ sending' = NoTask
  /\ UNCHANGED <<assocs, accepted, fd, task, stopped, handles, lock, awaited, listener,
                 adding, main>>

\* The peer shuts down, aborts, or misses its heartbeats.
PeerGone(f) ==
  /\ socket[f] = "up"
  /\ socket' = [socket EXCEPT ![f] = "down"]
  /\ UNCHANGED <<assocs, accepted, fd, task, stopped, handles, lock, awaited, listener,
                 adding, main, sending>>

-----------------------------------------------------------------------------
TaskStep(n) == Established(n) \/ Handled(n) \/ Terminated(n) \/ Remove(n) \/ End(n)
DrainStep(d) == LockTasks(d) \/ StopNext(d) \/ Join(d) \/ Drained(d)

PoolNext ==
  \/ \E f \in Fds : Accept(f) \/ PickAssoc(f) \/ PeerGone(f)
  \/ PushHandle \/ StopListening \/ Signal \/ JoinListener \/ Sent
  \/ \E d \in Drainers : DrainStep(d)
  \/ \E n \in Numbers : TaskStep(n) \/ HandleMessage(n)

PoolSpec == PoolInit /\ [][PoolNext]_poolVars

\* The executor runs every task that is ready; peers need not send.  A mutex
\* is handed over in the order of waiting, and select! chooses at random
\* among ready branches: neither passes anyone over for ever.
PoolFairness ==
  /\ \A n \in Numbers : WF_poolVars(TaskStep(n))
  /\ \A d \in Drainers : WF_poolVars(StopNext(d) \/ Join(d) \/ Drained(d))
                         /\ SF_poolVars(LockTasks(d))
  /\ SF_poolVars(PushHandle) /\ SF_poolVars(StopListening)
  /\ WF_poolVars(JoinListener) /\ WF_poolVars(Sent)

FairPoolSpec == PoolSpec /\ PoolFairness

-----------------------------------------------------------------------------
(* An association is in the map exactly as long as its own task is between *)
(* add_and_handle and assocs.remove, its Terminated event included: remove *)
(* never takes out, and accept never overwrites, the entry of another      *)
(* association that was given the same descriptor (sctp_tnla_pool.rs:93-102,*)
(* 127-156).                                                               *)
MapMatchesTasks ==
  /\ \A f \in Fds : assocs[f] # NoTask => task[assocs[f]] \in InPool /\ fd[assocs[f]] = f
  /\ \A n \in Numbers : task[n] \in InPool => assocs[fd[n]] = n

(* A socket is not closed, nor its descriptor given out again, while a     *)
(* task reads from it or a sender writes to it (sctp_association.rs:32-36).*)
OpenWhileUsed ==
  \A n \in Numbers : task[n] \in Unended \/ sending = n => socket[fd[n]] # "free"

(* When graceful_shutdown returns, nothing is left of the associations,    *)
(* those accepted while it was running included: the listener has exited,  *)
(* every task has ended and the map is empty (qcore.rs:83-89).             *)
ShutdownLeavesNothing ==
  main = "done" =>
     /\ listener = "exited" /\ handles = <<>>
     /\ \A n \in Numbers : task[n] \notin Unended
     /\ \A f \in Fds : assocs[f] = NoTask

(* graceful_shutdown returns: neither the mutex main keeps while it joins  *)
(* tasks, nor the listener waiting for it with an association in its hands,*)
(* nor a peer that stays connected, holds it up.                           *)
ShutdownReturns == main = "locking" ~> main = "done"

(* An association whose peer has gone leaves the map, whatever else is     *)
(* going on (sctp_tnla_pool.rs:143-156).                                   *)
DeadAssociationLeaves ==
  \A n \in Numbers :
     (task[n] \in InPool /\ socket[fd[n]] = "down") ~> (task[n] \notin InPool)
=============================================================================
