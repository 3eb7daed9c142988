------------------------------- MODULE Stack -------------------------------
(***************************************************************************)
(* The transaction layer of the ??AP interfaces (5g-libs/xxap/src/net):    *)
(* Stack::request registers a request in pending_requests, sends it over   *)
(* an SCTP association (TNLA) and waits for the response; one task per     *)
(* association reads messages and routes each one either to a pending      *)
(* request or to a newly spawned procedure task.                           *)
(*                                                                         *)
(* An entry of pending_requests is a pair (match function, sender).  The   *)
(* match function only looks at the procedure code of a message, so an     *)
(* entry is modelled by the caller that holds the receiving end, and what  *)
(* it matches by that caller's current code.  A caller (a UE task) makes   *)
(* one request at a time and ends when a request fails.                    *)
(*                                                                         *)
(* The peer (the gNB-DU) and the kernel's SCTP socket are the environment. *)
(***************************************************************************)
EXTENDS Integers, Sequences, Functions

CONSTANTS Callers,   \* tasks that call Stack::request
          Assocs,    \* association ids (file descriptors)
          Codes,     \* procedure codes P::CODE of requests
          Inits,     \* initiating messages the peer may send, once each
          Scenarios  \* which of them occur together in a behaviour

Scenario == [assocs : SUBSET Assocs, codes : SUBSET Codes, inits : SUBSET Inits]

ASSUME StackAssumption == Codes # {} /\ Assocs # {} /\ Scenarios \subseteq Scenario

VARIABLES call,      \* call[c]: how far caller c is in Stack::request
          code,      \* code[c]: P::CODE of c's current request
          via,       \* via[c]: the association c's current request was sent on
          reply,     \* reply[c]: content of c's response channel, bounded(1)
          pending,   \* pending_requests, a Vec
          assocs,    \* SctpTnlaPool::assocs
          task,      \* task[a]: how far handle_assoc of association a is
          stopped,   \* associations whose stop token has fired: local shutdown
          link,      \* link[a]: state of a's socket
          inbox,     \* inbox[a]: messages a's socket holds for reading
          heldMsg,   \* heldMsg[a]: the message between the two locks, or none
          heldIdx,   \* heldIdx[a]: the position found under the first lock
          peerReqs,  \* requests the peer has received and not answered
          unsent,    \* initiating messages the peer has not sent yet
          panicked,  \* a task panicked: exit_on_panic ends the process
          scenario,  \* the scenario of this behaviour
          crossed    \* history: two associations have been read at one time

callVars == <<call, code, via, reply, pending>>
poolVars == <<assocs, task, stopped, link, heldMsg, heldIdx, crossed>>
peerVars == <<inbox, peerReqs, unsent>>
vars == <<callVars, poolVars, peerVars, panicked, scenario>>

-----------------------------------------------------------------------------
(* Messages.  "for" is the caller whose request a response answers (its UE *)
(* F1AP ids); nothing in this layer reads it.                              *)

Response == [kind : {"response"}, for : Callers, code : Codes]
Initiating == [kind : {"initiating"}, body : Inits]
Message == Response \cup Initiating

PeerRequest == [for : Callers, code : Codes, assoc : Assocs]

CallState == {"idle", "pushed", "waiting", "failed"}
TaskState == {"none", "recv", "matched", "terminated"}

\* The task is in its read loop.
Reading(a) == task[a] \in {"recv", "matched"}

\* What code and via hold of a caller that has no request.
AnyCode == CHOOSE k \in Codes : TRUE
AnyAssoc == CHOOSE a \in Assocs : TRUE

TypeOK ==
    /\ call \in [Callers -> CallState]
    /\ code \in [Callers -> Codes]
    /\ via \in [Callers -> Assocs]
    /\ reply \in [Callers -> Seq(Message)]
    /\ pending \in Seq(Callers)
    /\ assocs \subseteq Assocs
    /\ task \in [Assocs -> TaskState]
    /\ stopped \subseteq Assocs
    /\ link \in [Assocs -> {"none", "up", "down"}]
    /\ inbox \in [Assocs -> Seq(Message)]
    /\ heldMsg \in [Assocs -> Seq(Message)]
    /\ heldIdx \in [Assocs -> Nat]
    /\ peerReqs \subseteq PeerRequest
    /\ unsent \subseteq Inits
    /\ panicked \in BOOLEAN
    /\ scenario \in Scenarios
    /\ crossed \in BOOLEAN

Init ==
    /\ call = [c \in Callers |-> "idle"]
    /\ code = [c \in Callers |-> AnyCode]
    /\ via = [c \in Callers |-> AnyAssoc]
    /\ reply = [c \in Callers |-> <<>>]
    /\ pending = <<>>
    /\ assocs = {}
    /\ task = [a \in Assocs |-> "none"]
    /\ stopped = {}
    /\ link = [a \in Assocs |-> "none"]
    /\ inbox = [a \in Assocs |-> <<>>]
    /\ heldMsg = [a \in Assocs |-> <<>>]
    /\ heldIdx = [a \in Assocs |-> 0]
    /\ peerReqs = {}
    /\ scenario \in Scenarios
    /\ unsent = scenario.inits
    /\ panicked = FALSE
    /\ crossed = FALSE

-----------------------------------------------------------------------------
(* Stack::request.                                                         *)

\* Mutant: any outcome matches, whatever its procedure.
MatchesAnyOutcome(c, m) == m.kind = "response"

\* The match function of a pending entry: an outcome with the entry's code.
\* It indexes octets 0 and 1: messages are F1AP PDUs, which have both.
Matches(c, m) == m.kind = "response" /\ m.code = code[c]

\* Vec::swap_remove(i): the last element takes the place of the i-th.
SwapRemove(s, i) ==
    [j \in 1 .. Len(s) - 1 |-> IF j = i THEN s[Len(s)] ELSE s[j]]

\* A new channel, and an entry with its sending end under the lock.
Push(c, k) ==
    /\ call[c] = "idle"
    /\ call' = [call EXCEPT ![c] = "pushed"]
    /\ code' = [code EXCEPT ![c] = k]
    /\ reply' = [reply EXCEPT ![c] = <<>>]
    /\ pending' = Append(pending, c)
    /\ UNCHANGED <<via, poolVars, peerVars, panicked>>

\* send_message(bytes, None) takes whichever association the map yields
\* first; sendmsg succeeds only while the socket is connected.
SendOk(c, a) ==
    /\ call[c] = "pushed"
    /\ a \in assocs
    /\ link[a] = "up"
    /\ call' = [call EXCEPT ![c] = "waiting"]
    /\ via' = [via EXCEPT ![c] = a]
    /\ peerReqs' = peerReqs \cup {[for |-> c, code |-> code[c], assoc |-> a]}
    /\ UNCHANGED <<code, reply, pending, poolVars, inbox, unsent, panicked>>

\* Mutant: the failed request takes its entry out of the list.
SendFailRetracts(c) ==
    /\ call[c] = "pushed"
    /\ call' = [call EXCEPT ![c] = "failed"]
    /\ reply' = [reply EXCEPT ![c] = <<>>]
    /\ pending' = SelectSeq(pending, LAMBDA d : d # c)
    /\ UNCHANGED <<code, via, poolVars, peerVars, panicked>>

\* No association found, or sendmsg fails: not connected any more, or the
\* socket buffer is full (MSG_DONTWAIT).  The entry stays in pending.
SendFail(c) ==
    /\ call[c] = "pushed"
    /\ call' = [call EXCEPT ![c] = "failed"]
    /\ reply' = [reply EXCEPT ![c] = <<>>]
    /\ UNCHANGED <<code, via, pending, poolVars, peerVars, panicked>>

\* receiver.recv() yields a message.  decode_response fails on a message of
\* another procedure and reports an unsuccessful outcome as an error.
RecvReply(c) ==
    /\ call[c] = "waiting"
    /\ reply[c] # <<>>
    /\ reply' = [reply EXCEPT ![c] = <<>>]
    /\ code' = [code EXCEPT ![c] = AnyCode]
    /\ via' = [via EXCEPT ![c] = AnyAssoc]
    /\ \/ /\ Head(reply[c]).code = code[c]
          /\ call' = [call EXCEPT ![c] = "idle"]
       \/ call' = [call EXCEPT ![c] = "failed"]
    /\ UNCHANGED <<pending, poolVars, peerVars, panicked>>

\* receiver.recv() fails: the channel is empty and its sender was dropped.
RecvClosed(c) ==
    /\ call[c] = "waiting"
    /\ reply[c] = <<>>
    /\ c \notin Range(pending)
    /\ call' = [call EXCEPT ![c] = "failed"]
    /\ code' = [code EXCEPT ![c] = AnyCode]
    /\ via' = [via EXCEPT ![c] = AnyAssoc]
    /\ UNCHANGED <<reply, pending, poolVars, peerVars, panicked>>

-----------------------------------------------------------------------------
(* SctpTnlaPool and StackReceiver: one handle_assoc task per association.  *)

\* add_and_handle for an accepted association; the task starts receiving.
Accept(a) ==
    /\ task[a] = "none"
    /\ assocs' = assocs \cup {a}
    /\ task' = [task EXCEPT ![a] = "recv"]
    /\ stopped' = stopped \ {a}
    /\ link' = [link EXCEPT ![a] = "up"]
    /\ crossed' = (crossed \/ \E b \in Assocs : Reading(b))
    /\ UNCHANGED <<callVars, heldMsg, heldIdx, peerVars, panicked>>

\* graceful_shutdown drops the stop source of the association's task.
Stop(a) ==
    /\ Reading(a)
    /\ stopped' = stopped \cup {a}
    /\ UNCHANGED <<callVars, assocs, task, link, heldMsg, heldIdx, crossed, peerVars,
                   panicked>>

\* message_stream.next() yields a message: take_until looks at the stop token
\* before it looks at the socket.
Receives(a) == task[a] = "recv" /\ a \notin stopped /\ inbox[a] # <<>>

\* message_stream.next() yields None, or an error once the socket's data has
\* been read.
StreamEnds(a) == task[a] = "recv" /\ (a \in stopped \/ (link[a] = "down" /\ inbox[a] = <<>>))

\* handle_message, first lock: the position of the first entry that matches.
Position(a, i) ==
    /\ Receives(a)
    /\ LET m == Head(inbox[a]) IN
        /\ i \in 1 .. Len(pending)
        /\ Matches(pending[i], m)
        /\ \A j \in 1 .. i - 1 : ~Matches(pending[j], m)
        /\ heldMsg' = [heldMsg EXCEPT ![a] = <<m>>]
        /\ heldIdx' = [heldIdx EXCEPT ![a] = i]
    /\ task' = [task EXCEPT ![a] = "matched"]
    /\ inbox' = [inbox EXCEPT ![a] = Tail(@)]
    /\ UNCHANGED <<callVars, assocs, stopped, link, crossed, peerReqs, unsent, panicked>>

\* handle_message, no entry matches: spawn_procedure_task.  The task runs the
\* application's handler; a response it returns goes out with send_message and
\* is of no consequence here.
Spawn(a) ==
    /\ Receives(a)
    /\ \A i \in 1 .. Len(pending) : ~Matches(pending[i], Head(inbox[a]))
    /\ inbox' = [inbox EXCEPT ![a] = Tail(@)]
    /\ UNCHANGED <<callVars, poolVars, peerReqs, unsent, panicked>>

\* The receiving end of the channel lives until request() returns.
Listening(c) == call[c] \in {"pushed", "waiting"}

\* Mutant: the response is sent and the entry stays.
RouteKeepsEntry(a) ==
    /\ task[a] = "matched"
    /\ heldIdx[a] \in 1 .. Len(pending)
    /\ reply' = [reply EXCEPT ![pending[heldIdx[a]]] = heldMsg[a]]
    /\ task' = [task EXCEPT ![a] = "recv"]
    /\ heldMsg' = [heldMsg EXCEPT ![a] = <<>>]
    /\ heldIdx' = [heldIdx EXCEPT ![a] = 0]
    /\ UNCHANGED <<call, code, via, pending, assocs, stopped, link, crossed, peerVars,
                   panicked>>

\* handle_message, second lock: swap_remove(index), which panics out of
\* range, then the send on the response channel of the entry removed.  The
\* send waits for a free place in the channel, and fails at once when the
\* receiving end is gone.
Route(a) ==
    /\ task[a] = "matched"
    /\ heldIdx[a] \in 1 .. Len(pending)
    /\ LET c == pending[heldIdx[a]] IN
        \/ /\ Listening(c)
           /\ reply[c] = <<>>
           /\ reply' = [reply EXCEPT ![c] = heldMsg[a]]
        \/ /\ ~Listening(c)
           /\ UNCHANGED reply
    /\ pending' = SwapRemove(pending, heldIdx[a])
    /\ task' = [task EXCEPT ![a] = "recv"]
    /\ heldMsg' = [heldMsg EXCEPT ![a] = <<>>]
    /\ heldIdx' = [heldIdx EXCEPT ![a] = 0]
    /\ UNCHANGED <<call, code, via, assocs, stopped, link, crossed, peerVars, panicked>>

RoutePanics(a) ==
    /\ task[a] = "matched"
    /\ heldIdx[a] \notin 1 .. Len(pending)
    /\ panicked' = TRUE
    /\ UNCHANGED <<callVars, poolVars, peerVars>>

\* Mutants: no request is dropped; requests are dropped only with the last
\* association.
TerminatedKeepsRequests(a) ==
    /\ StreamEnds(a)
    /\ task' = [task EXCEPT ![a] = "terminated"]
    /\ UNCHANGED <<callVars, assocs, stopped, link, heldMsg, heldIdx, crossed, peerVars,
                   panicked>>

TerminatedLastOnly(a) ==
    /\ StreamEnds(a)
    /\ pending' = IF assocs = {a} THEN <<>> ELSE pending
    /\ task' = [task EXCEPT ![a] = "terminated"]
    /\ UNCHANGED <<call, code, via, reply, assocs, stopped, link, heldMsg, heldIdx, crossed,
                   peerVars, panicked>>

\* Local shutdown or the peer's end of the association: handle_event(Terminated)
\* drains pending_requests.
Terminated(a) ==
    /\ StreamEnds(a)
    /\ pending' = <<>>
    /\ task' = [task EXCEPT ![a] = "terminated"]
    /\ UNCHANGED <<call, code, via, reply, assocs, stopped, link, heldMsg, heldIdx, crossed,
                   peerVars, panicked>>

\* assocs.remove; the last reference to the association closes the socket, and
\* what it still held in either direction is gone.
Remove(a) ==
    /\ task[a] = "terminated"
    /\ assocs' = assocs \ {a}
    /\ task' = [task EXCEPT ![a] = "none"]
    /\ link' = [link EXCEPT ![a] = "none"]
    /\ inbox' = [inbox EXCEPT ![a] = <<>>]
    /\ peerReqs' = {q \in peerReqs : q.assoc # a}
    /\ UNCHANGED <<callVars, stopped, heldMsg, heldIdx, crossed, unsent, panicked>>

-----------------------------------------------------------------------------
(* The peer.  It answers in any order, over the association the request    *)
(* came on.                                                                *)

Respond(q) ==
    /\ q \in peerReqs
    /\ link[q.assoc] = "up"
    /\ peerReqs' = peerReqs \ {q}
    /\ inbox' = [inbox EXCEPT ![q.assoc] =
                    Append(@, [kind |-> "response", for |-> q.for, code |-> q.code])]
    /\ UNCHANGED <<callVars, poolVars, unsent, panicked>>

Initiate(a, b) ==
    /\ b \in unsent
    /\ link[a] = "up"
    /\ unsent' = unsent \ {b}
    /\ inbox' = [inbox EXCEPT ![a] = Append(@, [kind |-> "initiating", body |-> b])]
    /\ UNCHANGED <<callVars, poolVars, peerReqs, panicked>>

\* A shutdown lets the data already received be read, an abort discards it.
PeerClose(a) ==
    /\ link[a] = "up"
    /\ link' = [link EXCEPT ![a] = "down"]
    /\ inbox' \in {inbox, [inbox EXCEPT ![a] = <<>>]}
    /\ peerReqs' = {q \in peerReqs : q.assoc # a}
    /\ UNCHANGED <<callVars, assocs, task, stopped, heldMsg, heldIdx, crossed, unsent,
                   panicked>>

-----------------------------------------------------------------------------
CallerStep(c) ==
    \/ \E k \in scenario.codes : Push(c, k)
    \/ \E a \in Assocs : SendOk(c, a)
    \/ SendFail(c)
    \/ RecvReply(c)
    \/ RecvClosed(c)

AssocStep(a) ==
    \/ \E i \in 1 .. Len(pending) : Position(a, i)
    \/ Spawn(a)
    \/ Route(a)
    \/ RoutePanics(a)
    \/ Terminated(a)
    \/ Remove(a)

PeerStep ==
    \/ \E a \in scenario.assocs : Accept(a)
    \/ \E a \in Assocs : PeerClose(a)
    \/ \E q \in peerReqs : Respond(q)
    \/ \E a \in Assocs, b \in unsent : Initiate(a, b)

Next ==
    /\ ~panicked
    /\ UNCHANGED scenario
    /\ \/ \E c \in Callers : CallerStep(c)
       \/ \E a \in Assocs : AssocStep(a) \/ Stop(a)
       \/ PeerStep

Spec == Init /\ [][Next]_vars

\* The executor runs every task that is ready: a caller inside request() and
\* an association's task go on.  Nothing is assumed of the peer.
CallerProgress(c) ==
    /\ ~panicked /\ UNCHANGED scenario
    /\ SendFail(c) \/ (\E a \in Assocs : SendOk(c, a)) \/ RecvReply(c) \/ RecvClosed(c)
AssocProgress(a) == ~panicked /\ UNCHANGED scenario /\ AssocStep(a)

Fairness ==
    /\ \A c \in Callers : WF_vars(CallerProgress(c))
    /\ \A a \in Assocs : WF_vars(AssocProgress(a))

FairSpec == Spec /\ Fairness

-----------------------------------------------------------------------------
(* Properties.                                                             *)

\* While no two associations are read at one time, the index found under the
\* first lock of handle_message is still inside the list under the second
\* one: swap_remove does not panic (stack.rs:183-193).
NoPanicAlone == panicked => crossed

\* While no two associations are read at one time, a message put on a caller's
\* response channel is an outcome of the procedure the caller asked for, so
\* decode_response never sees another procedure's message (stack.rs:98,
\* 188-195).
ReplyHasRequestedCode ==
    \A c \in Callers :
        ~crossed /\ reply[c] # <<>> =>
            Head(reply[c]).kind = "response" /\ Head(reply[c]).code = code[c]

\* A request that waits and is registered was sent over an association whose
\* task still reads it, unless that task was stopped by a local shutdown: its
\* socket stays connected between the drain and assocs.remove, and a request
\* sent there in between waits with no reader (stack.rs:99-109, 159-165,
\* sctp_tnla_pool.rs:125-156).
WaitingHasReader ==
    \A c \in Callers :
        call[c] = "waiting" /\ c \in Range(pending) => Reading(via[c]) \/ via[c] \in stopped

\* A registered caller's response channel is empty, so the task that routes
\* a response never waits for room in the bounded(1) channel and the
\* association keeps being read (stack.rs:97, 194-197).
ResponseChannelFree ==
    \A c \in Callers : c \in Range(pending) => reply[c] = <<>>

\* A waiting request ends, with a reply that was on its way or with an error,
\* when the association being read for it goes down or is shut down, and when
\* the termination of another association has dropped its entry (stack.rs:160:
\* "Drop all pending requests - which will fail all the procedures in
\* progress").
RequestEndsWithAssociation ==
    \A c \in Callers :
        (/\ call[c] = "waiting"
         /\ \/ c \notin Range(pending)
            \/ Reading(via[c]) /\ (link[via[c]] = "down" \/ via[c] \in stopped))
            ~> (call[c] # "waiting" \/ panicked)

\* swap_remove never panics, whatever the associations (stack.rs:181: "If it
\* matches a pending request, route it back over the response channel").
NoPanic == ~panicked

\* A caller receives the response to its own request (stack.rs:192: "send it
\* to the existing task that is waiting for it").
ReplyIsForCaller ==
    \A c \in Callers : reply[c] # <<>> => Head(reply[c]).for = c

\* The entry chosen for a response belongs to a task that still waits for it
\* (stack.rs:192, the same comment).
ChosenEntryIsWaiting ==
    \A a \in Assocs :
        task[a] = "matched" /\ heldIdx[a] \in 1 .. Len(pending) =>
            Listening(pending[heldIdx[a]])
=============================================================================
