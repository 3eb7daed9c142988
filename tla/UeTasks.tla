------------------------------ MODULE UeTasks ------------------------------
(***************************************************************************)
(* The UE message handlers (qcore/src/procedures): one task per UE, which  *)
(* receives the UE's F1AP messages over a channel and runs its procedures  *)
(* one after the other, and the map ue_tasks of the channels' senders.     *)
(*                                                                         *)
(* The transaction layer runs one task per message it receives, so the     *)
(* messages of a UE are dispatched in any order.  An F1AP request (UE      *)
(* context setup or release) ends with the DU's answer or with the loss of *)
(* the association; it has no timeout.  Nothing is assumed of the DU and   *)
(* the UE behind it.                                                       *)
(***************************************************************************)
EXTENDS Integers, Sequences, FiniteSets

CONSTANTS Ues,          \* UE ids: spawn_ue_message_handler draws an unused one
          MaxSessions,  \* bound of the model: session requests per UE
          MaxSpont,     \* bound of the model: unsolicited messages per UE
          Unsolicited   \* messages sent unasked, answers out of turn included

VARIABLES ueTasks,   \* keys of ue_tasks, the map of senders
          intake,    \* intake[u]: how far the handler of u's first message is
          chan,      \* chan[u]: content of u's channel
          pc,        \* pc[u]: what u's task waits for or does
          lost,      \* UEs whose F1AP request was failed by the transaction layer
          count,     \* count[u]: session reservations made for u
          sessions,  \* sessions in the pdu_sessions of the UE contexts
          ulRules,   \* sessions with an uplink rule
          dlRules,   \* sessions with a downlink rule
          authed,    \* UEs whose authentication response was accepted
          assocUp,   \* the association with the DU is up
          prompts,   \* prompts[u]: downlink RRC messages the UE has not answered
          net,       \* net[u]: messages of u in tasks of the transaction layer
          spont      \* spont[u]: unsolicited messages sent for u

taskVars == <<chan, pc, lost, count, sessions, ulRules, dlRules, authed, prompts>>
vars == <<ueTasks, intake, taskVars, assocUp, net, spont>>

-----------------------------------------------------------------------------
(* Messages are told apart by what the handlers match on.  An answer has   *)
(* the name of the step that waits for it.                                 *)

RrcAnswer == {"rrcSetup", "rrcSmc", "reconf"}  \* an RRC message of its own
NasAnswer == {"auth", "nasSmc", "regAccept"}   \* NAS in UlInformationTransfer
Answer == RrcAnswer \cup NasAnswer
Pdu == {"initial", "pdu", "dereg", "release", "junk"} \cup Answer

ASSUME UeTasksAssumption ==
    MaxSessions \in Nat /\ MaxSpont \in Nat /\ Unsolicited \subseteq Pdu \ {"initial"}

\* Steps of InitialAccessProcedure::run, each ended by an answer.
StepAfter ==
    [rrcSetup |-> "auth", auth |-> "nasSmc", nasSmc |-> "rrcSmc", rrcSmc |-> "regAccept",
     regAccept |-> "idle", reconf |-> "idle"]

TaskState ==
    {"none", "first", "idle", "ctxSetup", "ctxRelease", "destroy", "exited"} \cup Answer

Session == [ue : Ues, n : 1 .. MaxSessions]

TypeOK ==
    /\ ueTasks \subseteq Ues
    /\ intake \in [Ues -> {"none", "spawned", "inserted"}]
    /\ chan \in [Ues -> Seq(Pdu)]
    /\ pc \in [Ues -> TaskState]
    /\ lost \subseteq Ues
    /\ count \in [Ues -> 0 .. MaxSessions]
    /\ sessions \subseteq Session /\ ulRules \subseteq Session /\ dlRules \subseteq Session
    /\ authed \subseteq Ues
    /\ assocUp \in BOOLEAN
    /\ prompts \in [Ues -> SUBSET Answer]
    /\ net \in [Ues -> SUBSET Pdu]
    /\ spont \in [Ues -> 0 .. MaxSpont]

Init ==
    /\ ueTasks = {}
    /\ intake = [u \in Ues |-> "none"]
    /\ chan = [u \in Ues |-> <<>>]
    /\ pc = [u \in Ues |-> "none"]
    /\ lost = {}
    /\ count = [u \in Ues |-> 0]
    /\ sessions = {} /\ ulRules = {} /\ dlRules = {}
    /\ authed = {}
    /\ assocUp = TRUE
    /\ prompts = [u \in Ues |-> {}]
    /\ net = [u \in Ues |-> {}]
    /\ spont = [u \in Ues |-> 0]

-----------------------------------------------------------------------------
(* F1apHandler and ue_tasks.                                               *)

\* InitialUlRrcMessageTransfer: spawn the task, insert its sender, dispatch
\* the message.
Spawn(u) ==
    /\ assocUp
    /\ intake[u] = "none"
    /\ intake' = [intake EXCEPT ![u] = "spawned"]
    /\ pc' = [pc EXCEPT ![u] = "first"]
    /\ UNCHANGED <<ueTasks, chan, lost, count, sessions, ulRules, dlRules, authed, prompts,
                   assocUp, net, spont>>

Insert(u) ==
    /\ intake[u] = "spawned"
    /\ intake' = [intake EXCEPT ![u] = "inserted"]
    /\ ueTasks' = ueTasks \cup {u}
    /\ net' = [net EXCEPT ![u] = @ \cup {"initial"}]
    /\ UNCHANGED <<taskVars, assocUp, spont>>

\* dispatch_ue_message: without a sender in the map the message is dropped.
Dispatch(u, m) ==
    /\ m \in net[u]
    /\ net' = [net EXCEPT ![u] = @ \ {m}]
    /\ chan' = IF u \in ueTasks THEN [chan EXCEPT ![u] = Append(@, m)] ELSE chan
    /\ UNCHANGED <<ueTasks, intake, pc, lost, count, sessions, ulRules, dlRules, authed, prompts,
                   assocUp, spont>>

\* F1RemovalProcedure::run: delete_ue_channels drops every sender.
F1Removal ==
    /\ assocUp
    /\ ueTasks # {}
    /\ ueTasks' = {}
    /\ UNCHANGED <<intake, taskVars, assocUp, net, spont>>

-----------------------------------------------------------------------------
(* The UE task.                                                            *)

\* receiver.recv() fails: the channel is empty and its sender is gone.
Closed(u) == chan[u] = <<>> /\ u \notin ueTasks /\ intake[u] # "spawned"

Goto(u, s) == pc' = [pc EXCEPT ![u] = s]

\* rrc_request sends the downlink message, which is lost without an
\* association (the error of an indication is only logged), and waits.
Ask(u, s) ==
    /\ Goto(u, s)
    /\ prompts' = IF assocUp /\ s \in Answer THEN [prompts EXCEPT ![u] = @ \cup {s}] ELSE prompts

Take(u) == chan' = [chan EXCEPT ![u] = Tail(@)]

\* f1ap_request: without an association it fails at once.
AskDu(u, s) ==
    /\ Goto(u, s)
    /\ lost' = IF assocUp THEN lost ELSE lost \cup {u}

\* UeMessageHandler::run, first message.  check_initial_transfer may fail.
\* No other message comes first: the DU learns u from the first answer.
RecvInitial(u) ==
    /\ pc[u] = "first"
    /\ chan[u] # <<>>
    /\ Take(u)
    /\ Ask(u, "rrcSetup") \/ (Goto(u, "destroy") /\ UNCHANGED prompts)
    /\ UNCHANGED <<ueTasks, intake, lost, count, sessions, ulRules, dlRules, authed,
                   assocUp, net, spont>>

\* No first message: the task ends without destroy.
FirstClosed(u) ==
    /\ pc[u] = "first"
    /\ Closed(u)
    /\ Goto(u, "exited")
    /\ UNCHANGED <<ueTasks, intake, chan, lost, count, sessions, ulRules, dlRules, authed,
                   prompts, assocUp, net, spont>>

\* The answer the step waits for; its contents may be refused (unknown IMSI,
\* wrong PLMN, wrong authentication response).
RecvAnswer(u) ==
    /\ pc[u] \in Answer \ {"rrcSmc"}
    /\ chan[u] # <<>>
    /\ Head(chan[u]) = pc[u]
    /\ Take(u)
    /\ \/ /\ Ask(u, StepAfter[pc[u]])
          /\ authed' = IF pc[u] = "auth" THEN authed \cup {u} ELSE authed
       \/ /\ Goto(u, "destroy")
          /\ UNCHANGED <<prompts, authed>>
    /\ UNCHANGED <<ueTasks, intake, lost, count, sessions, ulRules, dlRules, assocUp, net, spont>>

\* Mutant of RecvWrong: a message that is not the answer is skipped.
RecvWrongSkips(u) ==
    /\ pc[u] \in Answer \ {"rrcSmc"}
    /\ \/ /\ chan[u] # <<>>
          /\ Head(chan[u]) # pc[u]
          /\ Take(u)
          /\ UNCHANGED pc
       \/ /\ Closed(u)
          /\ UNCHANGED chan
          /\ Goto(u, "destroy")
    /\ UNCHANGED <<ueTasks, intake, lost, count, sessions, ulRules, dlRules, authed, prompts,
                   assocUp, net, spont>>

\* Mutant of RecvWrong: the result of the step is ignored, as in
\* activate_rrc_security.
RecvWrongGoesOn(u) ==
    /\ pc[u] \in Answer \ {"rrcSmc"}
    /\ \/ /\ chan[u] # <<>>
          /\ Head(chan[u]) # pc[u]
          /\ Take(u)
       \/ /\ Closed(u)
          /\ UNCHANGED chan
    /\ Ask(u, StepAfter[pc[u]])
    /\ UNCHANGED <<ueTasks, intake, lost, count, sessions, ulRules, dlRules, authed,
                   assocUp, net, spont>>

\* Any other message, or the end of the channel, is an error: the handler
\* goes on to destroy.
RecvWrong(u) ==
    /\ pc[u] \in Answer \ {"rrcSmc"}
    /\ \/ /\ chan[u] # <<>>
          /\ Head(chan[u]) # pc[u]
          /\ Take(u)
       \/ /\ Closed(u)
          /\ UNCHANGED chan
    /\ Goto(u, "destroy")
    /\ UNCHANGED <<ueTasks, intake, lost, count, sessions, ulRules, dlRules, authed, prompts,
                   assocUp, net, spont>>

\* activate_rrc_security ignores the result of rrc_request: whatever arrives,
\* and the end of the channel too, ends the step.
RecvRrcSmc(u) ==
    /\ pc[u] = "rrcSmc"
    /\ \/ /\ chan[u] # <<>>
          /\ Take(u)
       \/ /\ Closed(u)
          /\ UNCHANGED chan
    /\ Ask(u, "regAccept")
    /\ UNCHANGED <<ueTasks, intake, lost, count, sessions, ulRules, dlRules, authed,
                   assocUp, net, spont>>

\* The idle loop, a PDU session establishment request: reserve a session,
\* whose uplink rule is set at once, and ask the DU to set up the context.
IdlePdu(u) ==
    /\ pc[u] = "idle"
    /\ chan[u] # <<>>
    /\ Head(chan[u]) = "pdu"
    /\ Take(u)
    /\ \/ /\ count[u] < MaxSessions
          /\ count' = [count EXCEPT ![u] = @ + 1]
          /\ ulRules' = ulRules \cup {[ue |-> u, n |-> count[u] + 1]}
          /\ AskDu(u, "ctxSetup")
       \/ /\ Goto(u, "destroy")     \* no more slots available
          /\ UNCHANGED <<count, ulRules, lost>>
    /\ UNCHANGED <<ueTasks, intake, sessions, dlRules, authed, prompts, assocUp, net, spont>>

\* Deregistration request or UE context release request.
IdleRelease(u) ==
    /\ pc[u] = "idle"
    /\ chan[u] # <<>>
    /\ Head(chan[u]) \in {"dereg", "release"}
    /\ Take(u)
    /\ AskDu(u, "ctxRelease")
    /\ UNCHANGED <<ueTasks, intake, count, sessions, ulRules, dlRules, authed, prompts,
                   assocUp, net, spont>>

\* A NAS message that is not handled is only logged.
IdleIgnore(u) ==
    /\ pc[u] = "idle"
    /\ chan[u] # <<>>
    /\ Head(chan[u]) \in NasAnswer
    /\ Take(u)
    /\ UNCHANGED <<ueTasks, intake, pc, lost, count, sessions, ulRules, dlRules, authed,
                   prompts, assocUp, net, spont>>

\* Mutant of IdleEnd: the loop goes on when the channel is closed.
IdleEndNotWhenClosed(u) ==
    /\ pc[u] = "idle"
    /\ chan[u] # <<>>
    /\ Head(chan[u]) \in RrcAnswer \cup {"junk"}
    /\ Take(u)
    /\ Goto(u, "destroy")
    /\ UNCHANGED <<ueTasks, intake, lost, count, sessions, ulRules, dlRules, authed, prompts,
                   assocUp, net, spont>>

\* An unsupported message, or the end of the channel, ends the loop.
IdleEnd(u) ==
    /\ pc[u] = "idle"
    /\ \/ /\ chan[u] # <<>>
          /\ Head(chan[u]) \in RrcAnswer \cup {"junk"}
          /\ Take(u)
       \/ /\ Closed(u)
          /\ UNCHANGED chan
    /\ Goto(u, "destroy")
    /\ UNCHANGED <<ueTasks, intake, lost, count, sessions, ulRules, dlRules, authed, prompts,
                   assocUp, net, spont>>

\* Mutant of SetupAnswer: the session is committed but not yet kept in the UE
\* context when the UE is reconfigured.
SetupAnswerCommitsOnly(u) ==
    /\ pc[u] = "ctxSetup"
    /\ assocUp
    /\ u \notin lost
    /\ dlRules' = dlRules \cup {[ue |-> u, n |-> count[u]]}
    /\ Ask(u, "reconf")
    /\ UNCHANGED <<ueTasks, intake, chan, lost, count, sessions, ulRules, authed, assocUp,
                   net, spont>>

\* The DU's answer to the context setup: commit the session and keep it in
\* the UE context, then reconfigure the UE.  A failure, or an answer without
\* the expected information, is an error.
SetupAnswer(u) ==
    /\ pc[u] = "ctxSetup"
    /\ assocUp
    /\ u \notin lost
    /\ LET s == [ue |-> u, n |-> count[u]]
       IN \/ /\ dlRules' = dlRules \cup {s}
             /\ sessions' = sessions \cup {s}
             /\ Ask(u, "reconf")
          \/ /\ Goto(u, "destroy")
             /\ UNCHANGED <<dlRules, sessions, prompts>>
    /\ UNCHANGED <<ueTasks, intake, chan, lost, count, ulRules, authed, assocUp, net, spont>>

\* The answer to the context release: deregistration and release both end
\* the handler, and so does a failure.
ReleaseAnswer(u) ==
    /\ pc[u] = "ctxRelease"
    /\ assocUp
    /\ u \notin lost
    /\ Goto(u, "destroy")
    /\ UNCHANGED <<ueTasks, intake, chan, lost, count, sessions, ulRules, dlRules, authed,
                   prompts, assocUp, net, spont>>

\* f1ap_request returns an error: the association was lost.
RequestLost(u) ==
    /\ u \in lost
    /\ lost' = lost \ {u}
    /\ Goto(u, "destroy")
    /\ UNCHANGED <<ueTasks, intake, chan, count, sessions, ulRules, dlRules, authed, prompts,
                   assocUp, net, spont>>

\* destroy: delete the sessions of the UE context one by one ...
DestroySession(u) ==
    /\ pc[u] = "destroy"
    /\ \E s \in sessions :
          /\ s.ue = u
          /\ sessions' = sessions \ {s}
          /\ dlRules' = dlRules \ {s}
          /\ ulRules' = ulRules \ {s}
    /\ UNCHANGED <<ueTasks, intake, chan, pc, lost, count, authed, prompts, assocUp, net, spont>>

\* ... then remove the channel.  The receiver is dropped with its content.
DestroyChannel(u) ==
    /\ pc[u] = "destroy"
    /\ \A s \in sessions : s.ue # u
    /\ ueTasks' = ueTasks \ {u}
    /\ chan' = [chan EXCEPT ![u] = <<>>]
    /\ Goto(u, "exited")
    /\ UNCHANGED <<intake, lost, count, sessions, ulRules, dlRules, authed, prompts,
                   assocUp, net, spont>>

-----------------------------------------------------------------------------
(* The DU, the UE and the association.                                     *)

\* The UE answers a downlink message.
UeAnswers(u, m) ==
    /\ assocUp
    /\ m \in prompts[u] \ net[u]
    /\ prompts' = [prompts EXCEPT ![u] = @ \ {m}]
    /\ net' = [net EXCEPT ![u] = @ \cup {m}]
    /\ UNCHANGED <<ueTasks, intake, chan, pc, lost, count, sessions, ulRules, dlRules, authed,
                   assocUp, spont>>

\* A message nobody asked for, once the DU has heard of the UE.
UeSends(u, m) ==
    /\ assocUp
    /\ pc[u] \notin {"none", "first", "exited"}
    /\ spont[u] < MaxSpont
    /\ m \in Unsolicited \ net[u]
    /\ spont' = [spont EXCEPT ![u] = @ + 1]
    /\ net' = [net EXCEPT ![u] = @ \cup {m}]
    /\ UNCHANGED <<ueTasks, intake, taskVars, assocUp>>

\* The association goes down: the pending requests are dropped.
AssocDown ==
    /\ assocUp
    /\ assocUp' = FALSE
    /\ lost' = lost \cup {u \in Ues : pc[u] \in {"ctxSetup", "ctxRelease"}}
    /\ UNCHANGED <<ueTasks, intake, chan, pc, count, sessions, ulRules, dlRules, authed,
                   prompts, net, spont>>

AssocUp ==
    /\ ~assocUp
    /\ assocUp' = TRUE
    /\ UNCHANGED <<ueTasks, intake, taskVars, net, spont>>

-----------------------------------------------------------------------------
TaskStep(u) ==
    \/ RecvInitial(u) \/ FirstClosed(u)
    \/ RecvAnswer(u) \/ RecvWrong(u) \/ RecvRrcSmc(u)
    \/ IdlePdu(u) \/ IdleRelease(u) \/ IdleIgnore(u) \/ IdleEnd(u)
    \/ RequestLost(u)
    \/ DestroySession(u) \/ DestroyChannel(u)

HandlerStep(u) == Insert(u) \/ \E m \in Pdu : Dispatch(u, m)

DuStep(u) == SetupAnswer(u) \/ ReleaseAnswer(u)

PeerStep(u) ==
    \/ Spawn(u)
    \/ \E m \in Answer : UeAnswers(u, m)
    \/ \E m \in Unsolicited : UeSends(u, m)

Next ==
    \/ \E u \in Ues : TaskStep(u) \/ HandlerStep(u) \/ DuStep(u) \/ PeerStep(u)
    \/ F1Removal \/ AssocDown \/ AssocUp

Spec == Init /\ [][Next]_vars

\* Tasks that can run are run; nothing is assumed of the DU, the UE or the
\* association.
FairSpec ==
    /\ Spec
    /\ \A u \in Ues : WF_vars(TaskStep(u)) /\ WF_vars(HandlerStep(u))

-----------------------------------------------------------------------------
(* Properties.                                                             *)

\* When a UE's task has ended, whatever ended it (a failed step, a removal of
\* the F1 interface between any two of its steps, a lost association), its
\* sender is not in ue_tasks, no downlink rule of its sessions is left, and of
\* the uplink rules at most that of the last session it reserved.
ExitFreesResources ==
    \A u \in Ues : pc[u] = "exited" =>
        /\ u \notin ueTasks
        /\ \A s \in dlRules : s.ue # u
        /\ \A s \in ulRules : s.ue = u => s.n = count[u]

\* Forwarding rules are set up only for UEs whose authentication response was
\* accepted, in whatever order their messages were dispatched.
RulesOnlyForAuthenticated ==
    \A s \in ulRules \cup dlRules : s.ue \in authed

WaitsForDu(u) == pc[u] \in {"ctxSetup", "ctxRelease"}

\* A task whose sender was dropped (by F1RemovalProcedure, at any moment of its
\* procedures) ends, unless it waits forever for the DU's answer to an F1AP
\* request.
RemovedEnds ==
    \A u \in Ues :
        (intake[u] = "inserted" /\ u \notin ueTasks) ~> (pc[u] = "exited" \/ []WaitsForDu(u))

\* A UE context release request that reaches the channel of a UE that got
\* through RRC security activation ends its handler, whatever procedure reads
\* it, unless that waits forever for the DU's answer.
ReleaseEnds ==
    \A u \in Ues :
        (/\ \E i \in 1 .. Len(chan[u]) : chan[u][i] = "release"
         /\ pc[u] \in {"regAccept", "idle", "ctxSetup", "reconf"})
            ~> (pc[u] = "exited" \/ []WaitsForDu(u))

\* What F1RemovalProcedure and DeregistrationProcedure say of the end of the
\* handler: it frees the user plane sessions.  False: a session reserved for a
\* context setup that then failed is not in the UE context.
ExitFreesSessions ==
    \A u \in Ues : pc[u] = "exited" => \A s \in ulRules \cup dlRules : s.ue # u

\* What the attach design shows: the registration is accepted after the UE's
\* RRC security mode complete.  False: activate_rrc_security takes any message,
\* and the end of the channel, for it.
AcceptAfterSecurityMode ==
    [][\A u \in Ues :
        pc[u] = "rrcSmc" /\ pc'[u] = "regAccept" => chan[u] # <<>> /\ Head(chan[u]) = "rrcSmc"]_vars

=============================================================================
