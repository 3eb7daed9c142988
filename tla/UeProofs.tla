----------------------------- MODULE UeProofs -------------------------------
(***************************************************************************)
(* Proofs about UeTasks, for any set of UEs and any bounds, and about the  *)
(* security contexts UeSecurity lays over it, for any width of the NAS     *)
(* COUNT that has room for a UE's sessions.                                *)
(***************************************************************************)
EXTENDS UeSecurity, TLAPS

-----------------------------------------------------------------------------
(* The inductive invariant.                                                *)

\* A sender is in the map, and messages are in the channel, only after the
\* insertion; the task does not get past its first receive before it.
Started ==
    \A u \in Ues :
        /\ intake[u] = "none" => pc[u] = "none"
        /\ intake[u] = "spawned" => pc[u] = "first"
        /\ u \in ueTasks => intake[u] = "inserted"
        /\ intake[u] # "inserted" => chan[u] = <<>>

\* A session whose downlink rule is set is in its UE context; an uplink rule
\* that has no such session is that of the last reservation, and the task was
\* setting it up or is beyond.
Accounted ==
    /\ dlRules = sessions
    /\ \A s \in ulRules :
          \/ s \in sessions
          \/ s.n = count[s.ue] /\ pc[s.ue] \in {"ctxSetup", "destroy", "exited"}

\* A session being set up has its uplink rule.
Reserved ==
    \A u \in Ues : pc[u] = "ctxSetup" => [ue |-> u, n |-> count[u]] \in ulRules

\* A task that has not started or has ended has no session and, once it has
\* ended, no sender.
EndsAreClean ==
    \A u \in Ues :
        /\ pc[u] \in {"none", "first", "exited"} => \A s \in sessions : s.ue # u
        /\ pc[u] = "exited" => u \notin ueTasks

\* Only a task that waits for the DU has a failed request.
LostWaits == \A u \in lost : WaitsForDu(u)

\* Every step after the authentication is that of an authenticated UE.
AuthedSteps ==
    \A u \in Ues :
        pc[u] \in {"nasSmc", "rrcSmc", "regAccept", "idle", "ctxSetup", "reconf", "ctxRelease"}
            => u \in authed

Inv ==
    /\ Started
    /\ Accounted
    /\ Reserved
    /\ EndsAreClean
    /\ LostWaits
    /\ AuthedSteps
    /\ RulesOnlyForAuthenticated

IInv == TypeOK /\ Inv

-----------------------------------------------------------------------------
(* Type correctness.                                                       *)

\* The initial state is well typed.
LEMMA TypeInit == Init => TypeOK
BY UeTasksAssumption DEF Init, TypeOK, TaskState

\* Taking the first message keeps the channels well typed.
LEMMA TakeType ==
    ASSUME TypeOK, NEW u \in Ues, chan[u] # <<>>, Take(u)
    PROVE  chan' \in [Ues -> Seq(Pdu)]
<1>1. chan \in [Ues -> Seq(Pdu)]
    BY Zenon DEF TypeOK
<1>2. Tail(chan[u]) \in Seq(Pdu)
    BY <1>1
<1> QED
    BY Zenon, <1>1, <1>2 DEF Take

\* A task enters the state it goes to.
LEMMA GotoType ==
    ASSUME TypeOK, NEW u \in Ues, NEW s \in TaskState, Goto(u, s)
    PROVE  pc' \in [Ues -> TaskState]
BY Zenon DEF TypeOK, Goto

\* Asking the UE keeps the types.
LEMMA AskType ==
    ASSUME TypeOK, NEW u \in Ues, NEW s \in TaskState, Ask(u, s)
    PROVE  pc' \in [Ues -> TaskState] /\ prompts' \in [Ues -> SUBSET Answer]
<1>1. pc' \in [Ues -> TaskState]
    BY Zenon, GotoType DEF Ask
<1>2. CASE assocUp /\ s \in Answer
    BY Zenon, <1>1, <1>2 DEF Ask, TypeOK
<1>3. CASE ~(assocUp /\ s \in Answer)
    BY Zenon, <1>1, <1>3 DEF Ask, TypeOK
<1> QED
    BY Zenon, <1>2, <1>3

\* The steps of the initial access and of the reconfiguration keep the types.
LEMMA TypeReceive ==
    ASSUME TypeOK, NEW u \in Ues,
           \/ RecvInitial(u) \/ FirstClosed(u)
           \/ RecvAnswer(u) \/ RecvWrong(u) \/ RecvRrcSmc(u)
    PROVE  TypeOK'
<1>0. {"rrcSetup", "destroy", "exited", "regAccept"} \subseteq TaskState
    BY Zenon DEF TaskState, Answer, RrcAnswer, NasAnswer
<1>1. CASE RecvInitial(u)
    <2>1. chan' \in [Ues -> Seq(Pdu)]
        BY Zenon, <1>1, TakeType DEF RecvInitial
    <2>2. pc' \in [Ues -> TaskState] /\ prompts' \in [Ues -> SUBSET Answer]
        <3>1. CASE Ask(u, "rrcSetup")
            BY Zenon, <1>0, <3>1, AskType
        <3>2. CASE Goto(u, "destroy") /\ UNCHANGED prompts
            BY Zenon, <1>0, <3>2, GotoType DEF TypeOK
        <3> QED
            BY Zenon, <1>1, <3>1, <3>2 DEF RecvInitial
    <2> QED
        BY Zenon, <1>1, <2>1, <2>2 DEF RecvInitial, TypeOK
<1>2. CASE FirstClosed(u)
    <2>1. pc' \in [Ues -> TaskState]
        BY Zenon, <1>0, <1>2, GotoType DEF FirstClosed
    <2> QED
        BY Zenon, <1>2, <2>1 DEF FirstClosed, TypeOK
<1>3. CASE RecvAnswer(u)
    <2>1. chan' \in [Ues -> Seq(Pdu)]
        BY Zenon, <1>3, TakeType DEF RecvAnswer
    <2>2. StepAfter[pc[u]] \in TaskState
        BY <1>3 DEF RecvAnswer, StepAfter, TaskState, Answer, RrcAnswer, NasAnswer
    <2>3. pc' \in [Ues -> TaskState] /\ prompts' \in [Ues -> SUBSET Answer] /\ authed' \subseteq Ues
        <3>1. CASE /\ Ask(u, StepAfter[pc[u]])
                   /\ authed' = IF pc[u] = "auth" THEN authed \cup {u} ELSE authed
            <4>1. pc' \in [Ues -> TaskState] /\ prompts' \in [Ues -> SUBSET Answer]
                BY Zenon, <2>2, <3>1, AskType
            <4> QED
                BY Zenon, <3>1, <4>1 DEF TypeOK
        <3>2. CASE Goto(u, "destroy") /\ UNCHANGED <<prompts, authed>>
            BY Zenon, <1>0, <3>2, GotoType DEF TypeOK
        <3> QED
            BY Zenon, <1>3, <3>1, <3>2 DEF RecvAnswer
    <2> QED
        BY Zenon, <1>3, <2>1, <2>3 DEF RecvAnswer, TypeOK
<1>4. CASE RecvWrong(u)
    <2>1. chan' \in [Ues -> Seq(Pdu)]
        BY Zenon, <1>4, TakeType DEF RecvWrong, TypeOK
    <2>2. pc' \in [Ues -> TaskState]
        BY Zenon, <1>0, <1>4, GotoType DEF RecvWrong
    <2> QED
        BY Zenon, <1>4, <2>1, <2>2 DEF RecvWrong, TypeOK
<1>5. CASE RecvRrcSmc(u)
    <2>1. chan' \in [Ues -> Seq(Pdu)]
        BY Zenon, <1>5, TakeType DEF RecvRrcSmc, TypeOK
    <2>2. pc' \in [Ues -> TaskState] /\ prompts' \in [Ues -> SUBSET Answer]
        BY Zenon, <1>0, <1>5, AskType DEF RecvRrcSmc
    <2> QED
        BY Zenon, <1>5, <2>1, <2>2 DEF RecvRrcSmc, TypeOK
<1> QED
    BY Zenon, <1>1, <1>2, <1>3, <1>4, <1>5

\* The idle loop, the F1AP requests and destroy keep the types.
LEMMA TypeProcedures ==
    ASSUME TypeOK, Reserved, NEW u \in Ues,
           \/ IdlePdu(u) \/ IdleRelease(u) \/ IdleIgnore(u) \/ IdleEnd(u)
           \/ SetupAnswer(u) \/ ReleaseAnswer(u) \/ RequestLost(u)
           \/ DestroySession(u) \/ DestroyChannel(u)
    PROVE  TypeOK'
<1>0. {"ctxSetup", "ctxRelease", "reconf", "destroy", "exited"} \subseteq TaskState
    BY Zenon DEF TaskState, Answer, RrcAnswer, NasAnswer
<1>1. CASE IdlePdu(u)
    <2>1. chan' \in [Ues -> Seq(Pdu)]
        BY Zenon, <1>1, TakeType DEF IdlePdu
    <2>2. CASE /\ count[u] < MaxSessions
               /\ count' = [count EXCEPT ![u] = @ + 1]
               /\ ulRules' = ulRules \cup {[ue |-> u, n |-> count[u] + 1]}
               /\ AskDu(u, "ctxSetup")
        <3>1. count[u] + 1 \in 0 .. MaxSessions /\ count[u] + 1 \in 1 .. MaxSessions
            BY <2>2, UeTasksAssumption DEF TypeOK
        <3>2. count' \in [Ues -> 0 .. MaxSessions] /\ ulRules' \subseteq Session
            BY <2>2, <3>1 DEF TypeOK, Session
        <3>3. pc' \in [Ues -> TaskState] /\ lost' \subseteq Ues
            BY Zenon, <1>0, <2>2, GotoType DEF AskDu, TypeOK
        <3> QED
            BY Zenon, <1>1, <2>1, <3>2, <3>3 DEF IdlePdu, TypeOK
    <2>3. CASE Goto(u, "destroy") /\ UNCHANGED <<count, ulRules, lost>>
        <3>1. pc' \in [Ues -> TaskState]
            BY Zenon, <1>0, <2>3, GotoType
        <3> QED
            BY Zenon, <1>1, <2>1, <2>3, <3>1 DEF IdlePdu, TypeOK
    <2> QED
        BY Zenon, <1>1, <2>2, <2>3 DEF IdlePdu
<1>2. CASE IdleRelease(u)
    <2>1. chan' \in [Ues -> Seq(Pdu)]
        BY Zenon, <1>2, TakeType DEF IdleRelease
    <2>2. pc' \in [Ues -> TaskState] /\ lost' \subseteq Ues
        BY Zenon, <1>0, <1>2, GotoType DEF IdleRelease, AskDu, TypeOK
    <2> QED
        BY Zenon, <1>2, <2>1, <2>2 DEF IdleRelease, TypeOK
<1>3. CASE IdleIgnore(u)
    <2>1. chan' \in [Ues -> Seq(Pdu)]
        BY Zenon, <1>3, TakeType DEF IdleIgnore
    <2> QED
        BY Zenon, <1>3, <2>1 DEF IdleIgnore, TypeOK
<1>4. CASE IdleEnd(u)
    <2>1. chan' \in [Ues -> Seq(Pdu)]
        BY Zenon, <1>4, TakeType DEF IdleEnd, TypeOK
    <2>2. pc' \in [Ues -> TaskState]
        BY Zenon, <1>0, <1>4, GotoType DEF IdleEnd
    <2> QED
        BY Zenon, <1>4, <2>1, <2>2 DEF IdleEnd, TypeOK
<1>5. CASE SetupAnswer(u)
    <2>1. CASE /\ dlRules' = dlRules \cup {[ue |-> u, n |-> count[u]]}
               /\ sessions' = sessions \cup {[ue |-> u, n |-> count[u]]}
               /\ Ask(u, "reconf")
        <3>1. pc' \in [Ues -> TaskState] /\ prompts' \in [Ues -> SUBSET Answer]
            BY Zenon, <1>0, <2>1, AskType
        <3>2. [ue |-> u, n |-> count[u]] \in Session
            BY Zenon, <1>5 DEF SetupAnswer, Reserved, TypeOK
        <3> QED
            BY Zenon, <1>5, <2>1, <3>1, <3>2 DEF SetupAnswer, TypeOK
    <2>2. CASE Goto(u, "destroy") /\ UNCHANGED <<dlRules, sessions, prompts>>
        <3>1. pc' \in [Ues -> TaskState]
            BY Zenon, <1>0, <2>2, GotoType
        <3> QED
            BY Zenon, <1>5, <2>2, <3>1 DEF SetupAnswer, TypeOK
    <2> QED
        BY Zenon, <1>5, <2>1, <2>2 DEF SetupAnswer
<1>6. CASE ReleaseAnswer(u)
    <2>1. pc' \in [Ues -> TaskState]
        BY Zenon, <1>0, <1>6, GotoType DEF ReleaseAnswer
    <2> QED
        BY Zenon, <1>6, <2>1 DEF ReleaseAnswer, TypeOK
<1>7. CASE RequestLost(u)
    <2>1. pc' \in [Ues -> TaskState]
        BY Zenon, <1>0, <1>7, GotoType DEF RequestLost
    <2> QED
        BY Zenon, <1>7, <2>1 DEF RequestLost, TypeOK
<1>8. CASE DestroySession(u)
    BY Zenon, <1>8 DEF DestroySession, TypeOK
<1>9. CASE DestroyChannel(u)
    <2>1. pc' \in [Ues -> TaskState]
        BY Zenon, <1>0, <1>9, GotoType DEF DestroyChannel
    <2>2. <<>> \in Seq(Pdu)
        OBVIOUS
    <2> QED
        BY ZenonT(30), <1>9, <2>1, <2>2 DEF DestroyChannel, TypeOK
<1> QED
    BY Zenon, <1>1, <1>2, <1>3, <1>4, <1>5, <1>6, <1>7, <1>8, <1>9

\* The F1AP handlers, the peers and the association keep the types.
LEMMA TypeOthers ==
    ASSUME TypeOK,
           \/ \E u \in Ues : HandlerStep(u) \/ PeerStep(u)
           \/ F1Removal \/ AssocDown \/ AssocUp
    PROVE  TypeOK'
<1>1. ASSUME NEW u \in Ues, Insert(u)
      PROVE  TypeOK'
    BY Zenon, <1>1 DEF Insert, taskVars, TypeOK, Pdu
<1>2. ASSUME NEW u \in Ues, NEW m \in Pdu, Dispatch(u, m)
      PROVE  TypeOK'
    <2>1. chan' \in [Ues -> Seq(Pdu)]
        BY <1>2 DEF Dispatch, TypeOK
    <2> QED
        BY Zenon, <1>2, <2>1 DEF Dispatch, TypeOK
<1>3. ASSUME NEW u \in Ues, Spawn(u)
      PROVE  TypeOK'
    BY Zenon, <1>3 DEF Spawn, TypeOK, TaskState
<1>4. ASSUME NEW u \in Ues, NEW m \in Answer, UeAnswers(u, m)
      PROVE  TypeOK'
    BY Zenon, <1>4 DEF UeAnswers, TypeOK, Pdu
<1>5. ASSUME NEW u \in Ues, NEW m \in Unsolicited, UeSends(u, m)
      PROVE  TypeOK'
    <2>1. m \in Pdu
        BY Zenon, <1>5, UeTasksAssumption
    <2> QED
        BY <1>5, <2>1, UeTasksAssumption DEF UeSends, taskVars, TypeOK
<1>6. CASE F1Removal
    BY Zenon, <1>6 DEF F1Removal, taskVars, TypeOK
<1>7. CASE AssocDown
    BY Zenon, <1>7 DEF AssocDown, TypeOK
<1>8. CASE AssocUp
    BY Zenon, <1>8 DEF AssocUp, taskVars, TypeOK
<1> QED
    BY Zenon, <1>1, <1>2, <1>3, <1>4, <1>5, <1>6, <1>7, <1>8 DEF HandlerStep, PeerStep

-----------------------------------------------------------------------------
(* The invariant is inductive.                                             *)

\* A step of the initial access or of the reconfiguration.
LEMMA InvReceive ==
    ASSUME TypeOK, Inv, NEW u \in Ues,
           \/ RecvInitial(u) \/ FirstClosed(u)
           \/ RecvAnswer(u) \/ RecvWrong(u) \/ RecvRrcSmc(u)
    PROVE  Inv'
<1> USE DEF Inv, Goto
<1>0. /\ pc \in [Ues -> TaskState] /\ chan \in [Ues -> Seq(Pdu)]
      /\ sessions \subseteq Session /\ ulRules \subseteq Session
    BY Zenon DEF TypeOK
<1>a. UNCHANGED <<ueTasks, intake, lost, count, sessions, ulRules, dlRules>>
    BY Zenon DEF RecvInitial, FirstClosed, RecvAnswer, RecvWrong, RecvRrcSmc
<1>b. \A s \in ulRules \cup sessions : s.ue \in Ues
    BY Zenon, <1>0 DEF Session
<1>c. PICK t \in TaskState : pc' = [pc EXCEPT ![u] = t]
    BY <1>0
       DEF RecvInitial, FirstClosed, RecvAnswer, RecvWrong, RecvRrcSmc, Ask, StepAfter,
         TaskState, Answer, RrcAnswer, NasAnswer
<1>d. /\ pc[u] \in {"first"} \cup Answer
      /\ pc'[u] \in {"exited", "destroy", "idle"} \cup Answer
      /\ pc'[u] = "exited" => pc[u] = "first" /\ Closed(u)
    BY <1>0
       DEF RecvInitial, FirstClosed, RecvAnswer, RecvWrong, RecvRrcSmc, Ask, StepAfter,
         Answer, RrcAnswer, NasAnswer
<1>e. intake[u] = "inserted"
    BY Zenon, <1>0, <1>d
       DEF Started, RecvInitial, FirstClosed, RecvAnswer, RecvWrong, RecvRrcSmc,
         Closed, Answer, RrcAnswer, NasAnswer, TypeOK
<1>1. Started'
    <2>1. \A v \in Ues : v # u => chan'[v] = chan[v]
        BY Zenon, <1>0 DEF RecvInitial, FirstClosed, RecvAnswer, RecvWrong, RecvRrcSmc, Take
    <2> QED
        BY Zenon, <1>0, <1>a, <1>c, <1>e, <2>1 DEF Started
<1>2. Accounted'
    BY Zenon, <1>0, <1>a, <1>b, <1>c, <1>d DEF Accounted, Answer, RrcAnswer, NasAnswer
<1>3. Reserved'
    BY Zenon, <1>0, <1>a, <1>c, <1>d DEF Reserved, Answer, RrcAnswer, NasAnswer
<1>4. EndsAreClean'
    BY Zenon, <1>0, <1>a, <1>c, <1>d DEF EndsAreClean, Closed, Answer, RrcAnswer, NasAnswer
<1>5. LostWaits'
    <2>1. u \notin lost
        BY Zenon, <1>d DEF LostWaits, WaitsForDu, Answer, RrcAnswer, NasAnswer
    <2> QED
        BY Zenon, <1>0, <1>a, <1>c, <2>1 DEF LostWaits, WaitsForDu, TypeOK
<1>6. AuthedSteps'
    BY <1>0, <1>c, <1>d
       DEF AuthedSteps, RecvInitial, FirstClosed, RecvAnswer, RecvWrong, RecvRrcSmc,
         Ask, StepAfter, Answer, RrcAnswer, NasAnswer
<1>7. RulesOnlyForAuthenticated'
    BY Zenon, <1>a
       DEF RulesOnlyForAuthenticated, RecvInitial, FirstClosed, RecvAnswer, RecvWrong, RecvRrcSmc
<1> QED
    BY Zenon, <1>1, <1>2, <1>3, <1>4, <1>5, <1>6, <1>7

\* A step of the idle loop.
LEMMA InvIdle ==
    ASSUME TypeOK, Inv, NEW u \in Ues,
           \/ IdlePdu(u) \/ IdleRelease(u) \/ IdleIgnore(u) \/ IdleEnd(u)
    PROVE  Inv'
<1> USE DEF Inv, Goto
<1>0. /\ pc \in [Ues -> TaskState] /\ chan \in [Ues -> Seq(Pdu)] /\ lost \subseteq Ues
      /\ count \in [Ues -> 0 .. MaxSessions]
      /\ sessions \subseteq Session /\ ulRules \subseteq Session
    BY Zenon DEF TypeOK
<1>b. \A s \in ulRules \cup sessions : s.ue \in Ues
    BY Zenon, <1>0 DEF Session
<1>a. /\ pc[u] = "idle" /\ u \in authed
      /\ UNCHANGED <<ueTasks, intake, sessions, dlRules, authed, assocUp>>
      /\ pc'[u] \in {"idle", "ctxSetup", "ctxRelease", "destroy"}
      /\ \A v \in Ues : v # u => pc'[v] = pc[v] /\ chan'[v] = chan[v]
    BY Zenon, <1>0 DEF IdlePdu, IdleRelease, IdleIgnore, IdleEnd, AskDu, Take, AuthedSteps
<1>c. \/ /\ pc'[u] # "ctxSetup"
         /\ UNCHANGED <<count, ulRules>>
      \/ /\ pc'[u] = "ctxSetup"
         /\ count' = [count EXCEPT ![u] = @ + 1]
         /\ ulRules' = ulRules \cup {[ue |-> u, n |-> count[u] + 1]}
    BY Zenon, <1>0 DEF IdlePdu, IdleRelease, IdleIgnore, IdleEnd, AskDu
<1>1. Started'
    <2>1. intake[u] = "inserted"
        BY ZenonT(30), <1>a DEF Started, TypeOK
    <2> QED
        BY Zenon, <1>a, <2>1 DEF Started
<1>2. Accounted'
    <2>1. \A s \in ulRules : s.ue = u => s \in sessions
        BY Zenon, <1>a DEF Accounted
    <2>2. \A s \in ulRules' : s \in ulRules \/ (s.ue = u /\ s.n = count'[u] /\ pc'[u] = "ctxSetup")
        BY <1>0, <1>c
    <2>3. \A v \in Ues : v # u => count'[v] = count[v]
        BY Zenon, <1>0, <1>c
    <2> QED
        BY Zenon, <1>a, <1>b, <2>1, <2>2, <2>3 DEF Accounted
<1>3. Reserved'
    BY Zenon, <1>0, <1>a, <1>c DEF Reserved
<1>4. EndsAreClean'
    BY Zenon, <1>a DEF EndsAreClean
<1>5. LostWaits'
    <2>1. u \notin lost
        BY Zenon, <1>a DEF LostWaits, WaitsForDu
    <2>2. lost' \subseteq lost \cup {u} /\ (u \in lost' => pc'[u] \in {"ctxSetup", "ctxRelease"})
        BY Zenon, <1>0, <2>1 DEF IdlePdu, IdleRelease, IdleIgnore, IdleEnd, AskDu
    <2> QED
        BY Zenon, <1>0, <1>a, <2>2 DEF LostWaits, WaitsForDu
<1>6. AuthedSteps'
    BY Zenon, <1>a DEF AuthedSteps
<1>7. RulesOnlyForAuthenticated'
    BY <1>a, <1>c DEF RulesOnlyForAuthenticated
<1> QED
    BY Zenon, <1>1, <1>2, <1>3, <1>4, <1>5, <1>6, <1>7

\* The end of an F1AP request.
LEMMA InvRequest ==
    ASSUME TypeOK, Inv, NEW u \in Ues,
           SetupAnswer(u) \/ ReleaseAnswer(u) \/ RequestLost(u)
    PROVE  Inv'
<1> USE DEF Inv, Goto
<1>0. /\ pc \in [Ues -> TaskState] /\ chan \in [Ues -> Seq(Pdu)] /\ lost \subseteq Ues
      /\ count \in [Ues -> 0 .. MaxSessions]
      /\ sessions \subseteq Session /\ ulRules \subseteq Session
    BY Zenon DEF TypeOK
<1>b. \A s \in ulRules \cup sessions : s.ue \in Ues
    BY Zenon, <1>0 DEF Session
<1>a. /\ pc[u] \in {"ctxSetup", "ctxRelease"} /\ u \in authed
      /\ UNCHANGED <<ueTasks, intake, chan, count, ulRules, authed>>
      /\ pc'[u] \in {"reconf", "destroy"}
      /\ \A v \in Ues : v # u => pc'[v] = pc[v]
      /\ lost' \subseteq lost \ {u}
    BY Zenon, <1>0
       DEF SetupAnswer, ReleaseAnswer, RequestLost, Ask, AuthedSteps, LostWaits, WaitsForDu
<1>c. \/ /\ pc'[u] = "destroy"
         /\ UNCHANGED <<dlRules, sessions>>
      \/ /\ pc[u] = "ctxSetup"
         /\ dlRules' = dlRules \cup {[ue |-> u, n |-> count[u]]}
         /\ sessions' = sessions \cup {[ue |-> u, n |-> count[u]]}
    BY Zenon, <1>0 DEF SetupAnswer, ReleaseAnswer, RequestLost
<1>1. Started'
    BY Zenon, <1>0, <1>a DEF Started
<1>2. Accounted'
    <2>1. CASE pc'[u] = "destroy"
        BY ZenonT(30), <1>a, <1>b, <1>c, <2>1 DEF Accounted
    <2>2. CASE pc'[u] = "reconf"
        <3>1. \A s \in ulRules : s.ue = u /\ s.n = count[u] => s = [ue |-> u, n |-> count[u]]
            BY <1>0 DEF Session
        <3> QED
            BY ZenonT(30), <1>a, <1>b, <1>c, <2>2, <3>1 DEF Accounted
    <2> QED
        BY Zenon, <1>a, <2>1, <2>2
<1>3. Reserved'
    BY ZenonT(30), <1>a DEF Reserved
<1>4. EndsAreClean'
    <2>1. \A v \in Ues : pc'[v] \in {"none", "first", "exited"} => v # u /\ pc'[v] = pc[v]
        BY Zenon, <1>a
    <2>2. \A s \in sessions' : s \in sessions \/ s.ue = u
        BY <1>c
    <2> QED
        BY Zenon, <1>a, <2>1, <2>2 DEF EndsAreClean
<1>5. LostWaits'
    BY Zenon, <1>0, <1>a DEF LostWaits, WaitsForDu
<1>6. AuthedSteps'
    BY Zenon, <1>a DEF AuthedSteps
<1>7. RulesOnlyForAuthenticated'
    BY <1>a, <1>c DEF RulesOnlyForAuthenticated
<1> QED
    BY Zenon, <1>1, <1>2, <1>3, <1>4, <1>5, <1>6, <1>7

\* A step of destroy.
LEMMA InvDestroy ==
    ASSUME TypeOK, Inv, NEW u \in Ues, DestroySession(u) \/ DestroyChannel(u)
    PROVE  Inv'
<1> USE DEF Inv, Goto
<1>0. /\ pc \in [Ues -> TaskState] /\ chan \in [Ues -> Seq(Pdu)] /\ lost \subseteq Ues
      /\ count \in [Ues -> 0 .. MaxSessions]
      /\ sessions \subseteq Session /\ ulRules \subseteq Session
    BY Zenon DEF TypeOK
<1>b. \A s \in ulRules \cup sessions : s.ue \in Ues
    BY Zenon, <1>0 DEF Session
<1>1. CASE DestroySession(u)
    <2>1. PICK s \in sessions :
              /\ s.ue = u
              /\ sessions' = sessions \ {s} /\ dlRules' = dlRules \ {s} /\ ulRules' = ulRules \ {s}
        BY Zenon, <1>1 DEF DestroySession
    <2>2. UNCHANGED <<ueTasks, intake, chan, pc, lost, count, authed>> /\ pc[u] = "destroy"
        BY Zenon, <1>1 DEF DestroySession
    <2>3. Started' /\ EndsAreClean' /\ LostWaits' /\ AuthedSteps' /\ RulesOnlyForAuthenticated'
        BY Zenon, <2>1, <2>2 DEF Started, EndsAreClean, LostWaits, WaitsForDu, AuthedSteps,
             RulesOnlyForAuthenticated
    <2>4. Accounted'
        BY Zenon, <2>1, <2>2 DEF Accounted
    <2>5. Reserved'
        <3>1. \A v \in Ues : pc[v] = "ctxSetup" => [ue |-> v, n |-> count[v]] # s
            BY <2>1, <2>2
        <3> QED
            BY Zenon, <2>1, <2>2, <3>1 DEF Reserved
    <2> QED
        BY Zenon, <2>3, <2>4, <2>5
<1>2. CASE DestroyChannel(u)
    <2>1. /\ pc[u] = "destroy" /\ pc'[u] = "exited"
          /\ ueTasks' = ueTasks \ {u}
          /\ \A s \in sessions : s.ue # u
          /\ \A v \in Ues : v # u => pc'[v] = pc[v] /\ chan'[v] = chan[v]
          /\ chan'[u] = <<>>
          /\ UNCHANGED <<intake, lost, count, sessions, ulRules, dlRules, authed>>
        BY Zenon, <1>0, <1>2 DEF DestroyChannel
    <2>2. Started'
        BY Zenon, <2>1 DEF Started
    <2>3. Accounted'
        BY Zenon, <1>b, <2>1 DEF Accounted
    <2>4. Reserved' /\ EndsAreClean' /\ AuthedSteps' /\ RulesOnlyForAuthenticated'
        BY Zenon, <2>1 DEF Reserved, EndsAreClean, AuthedSteps, RulesOnlyForAuthenticated
    <2>5. LostWaits'
        BY Zenon, <1>0, <2>1 DEF LostWaits, WaitsForDu
    <2> QED
        BY Zenon, <2>2, <2>3, <2>4, <2>5
<1> QED
    BY Zenon, <1>1, <1>2

\* A step of the F1AP handlers, of the peers or of the association.
LEMMA InvOthers ==
    ASSUME TypeOK, Inv,
           \/ \E u \in Ues : HandlerStep(u) \/ PeerStep(u)
           \/ F1Removal \/ AssocDown \/ AssocUp
    PROVE  Inv'
<1> USE DEF Inv, Goto
<1>0. /\ pc \in [Ues -> TaskState] /\ chan \in [Ues -> Seq(Pdu)] /\ lost \subseteq Ues
      /\ count \in [Ues -> 0 .. MaxSessions]
      /\ sessions \subseteq Session /\ ulRules \subseteq Session
    BY Zenon DEF TypeOK
<1>b. \A s \in ulRules \cup sessions : s.ue \in Ues
    BY Zenon, <1>0 DEF Session
<1> USE DEF taskVars
<1>1. ASSUME NEW u \in Ues, Insert(u)
      PROVE  Inv'
    <2>1. /\ Accounted' /\ Reserved' /\ LostWaits' /\ AuthedSteps' /\ RulesOnlyForAuthenticated'
        BY Zenon, <1>1 DEF Insert, Accounted, Reserved, LostWaits, WaitsForDu, AuthedSteps,
             RulesOnlyForAuthenticated
    <2>2. Started' /\ EndsAreClean'
        BY Zenon, <1>1 DEF Insert, Started, EndsAreClean, TypeOK
    <2> QED
        BY Zenon, <2>1, <2>2
<1>2. ASSUME NEW u \in Ues, NEW m \in Pdu, Dispatch(u, m)
      PROVE  Inv'
    <2>1. /\ Accounted' /\ Reserved' /\ LostWaits' /\ AuthedSteps' /\ RulesOnlyForAuthenticated'
          /\ EndsAreClean'
        BY Zenon, <1>2 DEF Dispatch, Accounted, Reserved, LostWaits, WaitsForDu, AuthedSteps,
             RulesOnlyForAuthenticated, EndsAreClean
    <2>2. Started'
        BY Zenon, <1>0, <1>2 DEF Dispatch, Started
    <2> QED
        BY Zenon, <2>1, <2>2
<1>3. ASSUME NEW u \in Ues, Spawn(u)
      PROVE  Inv'
    <2>1. /\ pc[u] = "none" /\ pc'[u] = "first"
          /\ intake[u] = "none" /\ intake'[u] = "spawned"
          /\ \A v \in Ues : v # u => pc'[v] = pc[v] /\ intake'[v] = intake[v]
          /\ UNCHANGED <<ueTasks, chan, lost, count, sessions, ulRules, dlRules, authed>>
        BY Zenon, <1>0, <1>3 DEF Spawn, Started, TypeOK
    <2>2. Started'
        BY Zenon, <2>1 DEF Started
    <2>3. Accounted'
        BY Zenon, <1>b, <2>1 DEF Accounted
    <2>4. Reserved' /\ EndsAreClean' /\ AuthedSteps' /\ RulesOnlyForAuthenticated'
        BY Zenon, <2>1 DEF Reserved, EndsAreClean, AuthedSteps, RulesOnlyForAuthenticated
    <2>5. LostWaits'
        BY Zenon, <1>0, <2>1 DEF LostWaits, WaitsForDu
    <2> QED
        BY Zenon, <2>2, <2>3, <2>4, <2>5
<1>4. ASSUME NEW u \in Ues,
             \/ \E m \in Answer : UeAnswers(u, m)
             \/ \E m \in Unsolicited : UeSends(u, m)
      PROVE  Inv'
    BY ZenonT(30), <1>4
       DEF UeAnswers, UeSends, Started, Accounted, Reserved, EndsAreClean, LostWaits,
         WaitsForDu, AuthedSteps, RulesOnlyForAuthenticated
<1>5. CASE F1Removal
    BY Zenon, <1>5 DEF F1Removal, Started, Accounted, Reserved, EndsAreClean, LostWaits, WaitsForDu,
         AuthedSteps, RulesOnlyForAuthenticated
<1>6. CASE AssocDown \/ AssocUp
    BY <1>6 DEF AssocDown, AssocUp, Started, Accounted, Reserved, EndsAreClean, LostWaits,
         WaitsForDu, AuthedSteps, RulesOnlyForAuthenticated
<1> QED
    BY Zenon, <1>1, <1>2, <1>3, <1>4, <1>5, <1>6 DEF HandlerStep, PeerStep

-----------------------------------------------------------------------------
(* Theorems.                                                               *)

\* The initial state satisfies the invariant.
LEMMA InvInit == Init => IInv
<1> SUFFICES ASSUME Init PROVE Inv
    BY Zenon, TypeInit DEF IInv
<1> QED
    BY Zenon DEF Init, Inv, Started, Accounted, Reserved, EndsAreClean, LostWaits, AuthedSteps,
         RulesOnlyForAuthenticated

\* Every step preserves the invariant.
LEMMA InvNext == IInv /\ [Next]_vars => IInv'
<1> SUFFICES ASSUME TypeOK, Inv, [Next]_vars PROVE TypeOK' /\ Inv'
    BY Zenon DEF IInv
<1>0. Reserved
    BY Zenon DEF Inv
<1>1. ASSUME NEW u \in Ues, TaskStep(u) \/ DuStep(u)
      PROVE  TypeOK' /\ Inv'
    BY Zenon, <1>0, <1>1, TypeReceive, TypeProcedures, InvReceive, InvIdle, InvRequest, InvDestroy
       DEF TaskStep, DuStep
<1>2. CASE \/ \E u \in Ues : HandlerStep(u) \/ PeerStep(u)
           \/ F1Removal \/ AssocDown \/ AssocUp
    BY Zenon, <1>2, TypeOthers, InvOthers
<1>3. CASE UNCHANGED vars
    <2>1. TypeOK'
        BY Zenon, <1>3 DEF vars, taskVars, TypeOK
    <2>2. Inv'
        BY Zenon, <1>3 DEF vars, taskVars, Inv, Started, Accounted, Reserved, EndsAreClean,
           LostWaits,
             WaitsForDu, AuthedSteps, RulesOnlyForAuthenticated
    <2> QED
        BY Zenon, <2>1, <2>2
<1> QED
    BY Zenon, <1>1, <1>2, <1>3 DEF Next

\* The inductive invariant holds in every state of every behaviour.
THEOREM Invariance == Spec => []IInv
BY InvInit, InvNext, PTL DEF Spec

\* Type correctness.
THEOREM TypeCorrect == Spec => []TypeOK
<1>1. IInv => TypeOK
    BY Zenon DEF IInv
<1> QED
    BY <1>1, Invariance, PTL

\* The end of a UE task leaves neither its sender nor a rule of a session it
\* had committed, and at most the uplink rule of its last reservation.
THEOREM ExitFreesResourcesAlways == Spec => []ExitFreesResources
<1>1. IInv => ExitFreesResources
    BY Zenon DEF IInv, Inv, EndsAreClean, Accounted, ExitFreesResources
<1> QED
    BY <1>1, Invariance, PTL

\* Forwarding rules exist only for UEs that answered the authentication.
THEOREM RulesOnlyForAuthenticatedAlways == Spec => []RulesOnlyForAuthenticated
<1>1. IInv => RulesOnlyForAuthenticated
    BY Zenon DEF IInv, Inv
<1> QED
    BY <1>1, Invariance, PTL

-----------------------------------------------------------------------------
(* The security contexts.                                                  *)

\* The security contexts leave the UE tasks as they are.
THEOREM SecImplementsUeTasks == SecSpec => Spec
<1>1. SecInit => Init
    BY Zenon DEF SecInit
<1>2. [SecNext]_secVars => [Next]_vars
    BY Zenon DEF SecNext, secVars
<1> QED
    BY <1>1, <1>2, PTL DEF SecSpec, Spec

-----------------------------------------------------------------------------
(* How a step moves one task on.                                           *)

\* The one change of u's progress a step makes, and the reservations it adds.
Moves(u) ==
    \/ pc'[u] = pc[u] /\ count'[u] = count[u]
    \/ pc'[u] \in {"destroy", "exited"}
    \/ pc[u] = "none" /\ pc'[u] = "first"
    \/ pc[u] = "first" /\ pc'[u] = "rrcSetup"
    \/ pc[u] \in Answer /\ pc'[u] = StepAfter[pc[u]] /\ count'[u] = count[u]
    \/ pc[u] = "idle" /\ pc'[u] = "ctxSetup" /\ count'[u] = count[u] + 1
    \/ pc[u] = "idle" /\ pc'[u] = "ctxRelease" /\ count'[u] = count[u]
    \/ pc[u] = "ctxSetup" /\ pc'[u] = "reconf" /\ count'[u] = count[u]

Still(v) == pc'[v] = pc[v] /\ count'[v] = count[v]

\* Receiving moves one task.
LEMMA MovesReceive ==
    ASSUME TypeOK, NEW u \in Ues,
           \/ RecvInitial(u) \/ FirstClosed(u)
           \/ RecvAnswer(u) \/ RecvWrong(u) \/ RecvRrcSmc(u)
    PROVE  Moves(u) /\ \A v \in Ues \ {u} : Still(v)
<1>1. pc \in [Ues -> TaskState]
    BY Zenon DEF TypeOK
<1>2. CASE RecvInitial(u)
    BY Zenon, <1>1, <1>2 DEF RecvInitial, Ask, Goto, Moves, Still
<1>3. CASE FirstClosed(u)
    BY Zenon, <1>1, <1>3 DEF FirstClosed, Goto, Moves, Still
<1>4. CASE RecvAnswer(u)
    BY Zenon, <1>1, <1>4 DEF RecvAnswer, Ask, Goto, Moves, Still
<1>5. CASE RecvWrong(u)
    BY Zenon, <1>1, <1>5 DEF RecvWrong, Goto, Moves, Still
<1>6. CASE RecvRrcSmc(u)
    <2>1. pc[u] \in Answer /\ StepAfter[pc[u]] = "regAccept"
        BY <1>6 DEF RecvRrcSmc, Answer, RrcAnswer, StepAfter
    <2> QED
        BY Zenon, <1>1, <1>6, <2>1 DEF RecvRrcSmc, Ask, Goto, Moves, Still
<1> QED
    BY Zenon, <1>2, <1>3, <1>4, <1>5, <1>6

\* So do the procedures of the idle loop, and its end.
LEMMA MovesProcedures ==
    ASSUME TypeOK, NEW u \in Ues,
           \/ IdlePdu(u) \/ IdleRelease(u) \/ IdleIgnore(u) \/ IdleEnd(u)
           \/ SetupAnswer(u) \/ ReleaseAnswer(u) \/ RequestLost(u)
           \/ DestroySession(u) \/ DestroyChannel(u)
    PROVE  Moves(u) /\ \A v \in Ues \ {u} : Still(v)
<1>1. pc \in [Ues -> TaskState] /\ count \in [Ues -> 0 .. MaxSessions]
    BY Zenon DEF TypeOK
<1>2. CASE IdlePdu(u)
    BY Zenon, <1>1, <1>2 DEF IdlePdu, AskDu, Goto, Moves, Still
<1>3. CASE IdleRelease(u)
    BY Zenon, <1>1, <1>3 DEF IdleRelease, AskDu, Goto, Moves, Still
<1>4. CASE IdleIgnore(u) \/ DestroySession(u)
    BY Zenon, <1>4 DEF IdleIgnore, DestroySession, Moves, Still
<1>5. CASE IdleEnd(u)
    BY Zenon, <1>1, <1>5 DEF IdleEnd, Goto, Moves, Still
<1>6. CASE SetupAnswer(u)
    BY Zenon, <1>1, <1>6 DEF SetupAnswer, Ask, Goto, Moves, Still
<1>7. CASE ReleaseAnswer(u)
    BY Zenon, <1>1, <1>7 DEF ReleaseAnswer, Goto, Moves, Still
<1>8. CASE RequestLost(u)
    BY Zenon, <1>1, <1>8 DEF RequestLost, Goto, Moves, Still
<1>9. CASE DestroyChannel(u)
    BY Zenon, <1>1, <1>9 DEF DestroyChannel, Goto, Moves, Still
<1> QED
    BY Zenon, <1>2, <1>3, <1>4, <1>5, <1>6, <1>7, <1>8, <1>9

\* A step moves at most one task.
LEMMA NextMoves ==
    ASSUME TypeOK, Inv, Next
    PROVE  \/ \A v \in Ues : Still(v)
           \/ \E u \in Ues : Moves(u) /\ \A v \in Ues \ {u} : Still(v)
<1>1. ASSUME NEW u \in Ues, TaskStep(u) \/ DuStep(u)
      PROVE  Moves(u) /\ \A v \in Ues \ {u} : Still(v)
    BY Zenon, <1>1, MovesReceive, MovesProcedures DEF TaskStep, DuStep
<1>2. ASSUME NEW u \in Ues, Spawn(u)
      PROVE  Moves(u) /\ \A v \in Ues \ {u} : Still(v)
    BY Zenon, <1>2 DEF TypeOK, Inv, Started, Spawn, Moves, Still
<1>3. ASSUME NEW u \in Ues, HandlerStep(u) PROVE \A v \in Ues : Still(v)
    BY Zenon, <1>3 DEF HandlerStep, Insert, Dispatch, taskVars, Still
<1>4. ASSUME NEW u \in Ues, \/ \E m \in Answer : UeAnswers(u, m)
                            \/ \E m \in Unsolicited : UeSends(u, m)
      PROVE  \A v \in Ues : Still(v)
    BY Zenon, <1>4 DEF UeAnswers, UeSends, taskVars, Still
<1>5. CASE F1Removal \/ AssocDown \/ AssocUp
    BY Zenon, <1>5 DEF F1Removal, AssocDown, AssocUp, taskVars, Still
<1> QED
    BY Zenon, <1>1, <1>2, <1>3, <1>4, <1>5 DEF Next, PeerStep

-----------------------------------------------------------------------------
(* The inductive invariant.                                                *)

\* What the contexts are at each step of u's task; after its end they are gone.
ContextAt(u) ==
    /\ pc[u] \in {"none", "first"} =>
          dlCount[u] = NoContext /\ txNext[u] = 0 /\ dlSent[u] = <<>>
    /\ pc[u] \in {"rrcSetup", "auth"} => dlCount[u] = NoContext
    /\ pc[u] = "nasSmc" => dlCount[u] = 1
    /\ pc[u] = "rrcSmc" => dlCount[u] = 1 /\ u \in rrcKey
    /\ pc[u] = "regAccept" => dlCount[u] = 2 /\ u \in rrcKey
    /\ pc[u] \in {"idle", "ctxRelease", "reconf"} =>
          2 <= dlCount[u] /\ dlCount[u] <= 2 + count[u] /\ u \in rrcKey
    /\ pc[u] = "ctxSetup" =>
          2 <= dlCount[u] /\ dlCount[u] <= 1 + count[u] /\ u \in rrcKey

\* The COUNTs of the messages sent are below the next ones.
Behind(u) ==
    \A i \in 1 .. Len(dlSent[u]) :
        /\ dlSent[u][i].nas # NoCount => dlSent[u][i].nas < dlCount[u]
        /\ dlSent[u][i].pdcp < txNext[u]

Fresh(u) ==
    \A i, j \in 1 .. Len(dlSent[u]) :
        i < j => /\ dlSent[u][j].nas # NoCount => dlSent[u][i].nas # dlSent[u][j].nas
                 /\ dlSent[u][i].pdcp < dlSent[u][j].pdcp

Fit(m) ==
    /\ m.step \in {"regAccept", "reconf"} => m.header = "protected" /\ m.mac = "keyed"
    /\ m.header = "newContext" <=> m.step = "nasSmc"

SecInv ==
    /\ SecTypeOK
    /\ \A u \in Ues : ContextAt(u) /\ Behind(u) /\ Fresh(u)
                      /\ \A i \in 1 .. Len(dlSent[u]) : Fit(dlSent[u][i])

-----------------------------------------------------------------------------
\* The contexts stay right when nothing is sent.
LEMMA SilentStep ==
    ASSUME TypeOK, SecInv, NEW u \in Ues, Moves(u), ~Asks(u), UNCHANGED securityVars
    PROVE  ContextAt(u)'
<1>1. count[u] \in Nat
    BY UeTasksAssumption DEF TypeOK
<1>2. ContextAt(u) /\ UNCHANGED <<dlCount, rrcKey, txNext, dlSent>>
    BY Zenon DEF SecInv, securityVars
<1>3. pc[u] \in Answer => pc[u] \in {"rrcSetup", "rrcSmc", "reconf", "auth", "nasSmc", "regAccept"}
    BY Zenon DEF Answer, RrcAnswer, NasAnswer
<1>4. CASE pc[u] \in Answer /\ pc'[u] = StepAfter[pc[u]] /\ count'[u] = count[u]
    <2>1. pc[u] \in {"regAccept", "reconf"} /\ pc'[u] = "idle"
        BY <1>3, <1>4 DEF Asks, StepAfter, Answer, RrcAnswer, NasAnswer
    <2> QED
        BY <1>1, <1>2, <1>4, <2>1 DEF ContextAt
<1>5. CASE \/ pc[u] = "first" /\ pc'[u] = "rrcSetup"
           \/ pc[u] = "ctxSetup" /\ pc'[u] = "reconf" /\ count'[u] = count[u]
    BY Zenon, <1>5 DEF Asks, Answer, RrcAnswer
<1> QED
    BY <1>1, <1>2, <1>4, <1>5 DEF Moves, ContextAt

\* The step that sends finds the context that its message needs.
LEMMA SendingContext ==
    ASSUME TypeOK, SecInv, NEW u \in Ues, Moves(u), Asks(u), NEW s, s = pc'[u]
    PROVE  \/ s = "rrcSetup" /\ pc[u] = "first"
           \/ s = "auth" /\ dlCount[u] = NoContext /\ count'[u] = count[u]
           \/ s = "nasSmc" /\ dlCount[u] = NoContext /\ count'[u] = count[u]
           \/ s = "rrcSmc" /\ dlCount[u] = 1 /\ count'[u] = count[u]
           \/ s = "regAccept" /\ dlCount[u] = 1 /\ u \in rrcKey /\ count'[u] = count[u]
           \/ /\ s = "reconf" /\ 2 <= dlCount[u] /\ dlCount[u] <= 1 + count[u]
              /\ u \in rrcKey /\ count'[u] = count[u]
<1>1. ContextAt(u)
    BY Zenon DEF SecInv
<1>2. s \in {"rrcSetup", "rrcSmc", "reconf", "auth", "nasSmc", "regAccept"} /\ s # pc[u]
    BY Zenon DEF Asks, Answer, RrcAnswer, NasAnswer
<1>3. CASE pc[u] \in Answer /\ pc'[u] = StepAfter[pc[u]] /\ count'[u] = count[u]
    <2>1. pc[u] \in {"rrcSetup", "rrcSmc", "reconf", "auth", "nasSmc", "regAccept"}
        BY Zenon, <1>3 DEF Answer, RrcAnswer, NasAnswer
    <2>2. \/ pc[u] = "rrcSetup" /\ s = "auth"
          \/ pc[u] = "auth" /\ s = "nasSmc"
          \/ pc[u] = "nasSmc" /\ s = "rrcSmc"
          \/ pc[u] = "rrcSmc" /\ s = "regAccept"
        BY <1>2, <1>3, <2>1 DEF StepAfter
    <2> QED
        BY Zenon, <1>1, <1>3, <2>2 DEF ContextAt
<1> QED
    BY Zenon, <1>1, <1>2, <1>3 DEF Moves, ContextAt

\* What is sent, by step.
LEMMA EncodedFits ==
    ASSUME TypeOK, SecInv, NEW u \in Ues, Moves(u), Asks(u), NEW s, s = pc'[u]
    PROVE  /\ Encoded(u, s) \in DlMessage
           /\ Fit(Encoded(u, s))
           /\ NextDlCount(u, s) \in (0 .. NasCounts - 1) \cup {NoContext}
           /\ Encoded(u, s).nas # NoCount =>
                 Encoded(u, s).nas < NextDlCount(u, s) /\ dlCount[u] <= Encoded(u, s).nas
           /\ dlCount[u] <= NextDlCount(u, s)
<1>1. /\ dlCount[u] \in (0 .. NasCounts - 1) \cup {NoContext} /\ txNext[u] \in Nat
      /\ count[u] \in 0 .. MaxSessions
    BY Zenon DEF SecInv, SecTypeOK, TypeOK
<1>2. NasCounts \in Nat /\ MaxSessions \in Nat /\ MaxSessions + 2 < NasCounts
    BY Zenon, UeSecurityAssumption, UeTasksAssumption
<1>3. s \in Answer
    BY Zenon DEF Asks
<1> USE DEF NoCount, NoContext
<1>4. CASE s = "rrcSetup" \/ (s = "auth" /\ dlCount[u] = NoContext)
    BY <1>1, <1>2, <1>3, <1>4
       DEF Encoded, NasHeader, NasCount, NasContext, NextDlCount, RrcKey, CarriesNas, OnSrb1,
           DlMessage, Fit
<1>5. CASE s = "nasSmc" /\ dlCount[u] = NoContext
    <2>1. NextDlCount(u, s) = 1
        BY <1>2, <1>5 DEF NextDlCount, NasContext, CarriesNas
    <2> QED
        BY <1>1, <1>2, <1>3, <1>5, <2>1
           DEF Encoded, NasHeader, NasCount, NasContext, RrcKey, CarriesNas, OnSrb1, DlMessage, Fit
<1>6. CASE s = "rrcSmc"
    BY <1>1, <1>2, <1>3, <1>6
       DEF Encoded, NasHeader, NasCount, NasContext, NextDlCount, RrcKey, CarriesNas, OnSrb1,
           DlMessage, Fit
<1>7. CASE /\ s \in {"regAccept", "reconf"} /\ 1 <= dlCount[u] /\ dlCount[u] <= 1 + count[u]
           /\ u \in rrcKey
    <2>1. NextDlCount(u, s) = dlCount[u] + 1 /\ dlCount[u] + 1 \in 0 .. NasCounts - 1
        BY <1>1, <1>2, <1>7 DEF NextDlCount, NasContext, CarriesNas
    <2>2. s \in OnSrb1 /\ s \in CarriesNas /\ s # "nasSmc" /\ s # "rrcSmc"
        BY Zenon, <1>3, <1>7 DEF OnSrb1, CarriesNas
    <2> QED
        BY <1>1, <1>2, <1>3, <1>7, <2>1, <2>2
           DEF Encoded, NasHeader, NasCount, NasContext, RrcKey, DlMessage, Fit
<1>8. \/ s = "rrcSetup" \/ (s = "auth" /\ dlCount[u] = NoContext)
      \/ s = "nasSmc" /\ dlCount[u] = NoContext
      \/ s = "rrcSmc"
      \/ /\ s \in {"regAccept", "reconf"} /\ 1 <= dlCount[u] /\ dlCount[u] <= 1 + count[u]
         /\ u \in rrcKey
    <2>1. \/ s = "rrcSetup" \/ (s = "auth" /\ dlCount[u] = NoContext)
          \/ s = "nasSmc" /\ dlCount[u] = NoContext
          \/ s = "rrcSmc"
          \/ s = "regAccept" /\ dlCount[u] = 1 /\ u \in rrcKey
          \/ s = "reconf" /\ 2 <= dlCount[u] /\ dlCount[u] <= 1 + count[u] /\ u \in rrcKey
        BY Zenon, SendingContext
    <2>2. dlCount[u] = 1 => 1 <= dlCount[u] /\ dlCount[u] <= 1 + count[u]
        BY <1>1, <1>2
    <2>3. 2 <= dlCount[u] => 1 <= dlCount[u]
        BY <1>1, <1>2
    <2> QED
        BY ONLY Zenon, <2>1, <2>2, <2>3
<1> QED
    BY ONLY Zenon, <1>4, <1>5, <1>6, <1>7, <1>8

\* Sending keeps the context of the task right.
LEMMA SendContext ==
    ASSUME TypeOK, SecInv, NEW u \in Ues, Moves(u), Asks(u), Send(u, pc'[u])
    PROVE  ContextAt(u)'
<1> DEFINE s == pc'[u]
<1>1. /\ dlCount \in [Ues -> (0 .. NasCounts - 1) \cup {NoContext}]
      /\ count[u] \in 0 .. MaxSessions
    BY Zenon DEF SecInv, SecTypeOK, TypeOK
<1>2. NasCounts \in Nat /\ MaxSessions \in Nat /\ MaxSessions + 2 < NasCounts
    BY Zenon, UeSecurityAssumption, UeTasksAssumption
<1>3. dlCount'[u] = NextDlCount(u, s) /\ rrcKey' = RrcKey(u, s)
    BY Zenon, <1>1 DEF Send
<1>4. s = pc'[u]
    BY Zenon
<1> HIDE DEF s
<1>5. CASE s = "rrcSetup" /\ pc[u] = "first"
    <2>1. dlCount[u] = NoContext
        BY Zenon, <1>5 DEF SecInv, ContextAt
    <2> QED
        BY Zenon, <1>3, <1>4, <1>5, <2>1 DEF NextDlCount, CarriesNas, ContextAt
<1>6. CASE s = "auth" /\ dlCount[u] = NoContext
    BY Zenon, <1>3, <1>4, <1>6 DEF NextDlCount, NasContext, ContextAt
<1>7. CASE s = "nasSmc"
    BY <1>2, <1>3, <1>4, <1>7 DEF NextDlCount, NasContext, NoContext, CarriesNas, ContextAt
<1>8. CASE s = "rrcSmc" /\ dlCount[u] = 1
    BY Zenon, <1>3, <1>4, <1>8 DEF NextDlCount, CarriesNas, RrcKey, ContextAt
<1>9. CASE /\ s \in {"regAccept", "reconf"} /\ 1 <= dlCount[u] /\ dlCount[u] <= 1 + count[u]
           /\ u \in rrcKey /\ count'[u] = count[u]
           /\ s = "regAccept" => dlCount[u] = 1
           /\ s = "reconf" => 2 <= dlCount[u]
    <2>1. NextDlCount(u, s) = dlCount[u] + 1
        BY <1>1, <1>2, <1>9 DEF NextDlCount, NasContext, NoContext, CarriesNas
    <2> QED
        BY <1>1, <1>2, <1>3, <1>4, <1>9, <2>1 DEF RrcKey, ContextAt, NoContext
<1>10. dlCount[u] \in Int /\ count[u] \in Nat
    BY <1>1, <1>2 DEF NoContext
<1> QED
    BY <1>4, <1>5, <1>6, <1>7, <1>8, <1>9, <1>10, SendingContext

\* Sending keeps the messages in order and their COUNTs fresh.
LEMMA SendFresh ==
    ASSUME TypeOK, SecInv, NEW u \in Ues, Moves(u), Asks(u), Send(u, pc'[u])
    PROVE  /\ SecTypeOK'
           /\ Behind(u)' /\ Fresh(u)' /\ \A i \in 1 .. Len(dlSent'[u]) : Fit(dlSent'[u][i])
<1> DEFINE s == pc'[u]
           m == Encoded(u, s)
           L == dlSent[u]
<1>1. /\ m \in DlMessage /\ Fit(m) /\ NextDlCount(u, s) \in (0 .. NasCounts - 1) \cup {NoContext}
      /\ m.nas # NoCount => m.nas < NextDlCount(u, s) /\ dlCount[u] <= m.nas
      /\ dlCount[u] <= NextDlCount(u, s)
    BY Zenon, EncodedFits
<1>2. /\ dlCount \in [Ues -> (0 .. NasCounts - 1) \cup {NoContext}] /\ txNext \in [Ues -> Nat]
      /\ dlSent \in [Ues -> Seq(DlMessage)] /\ rrcKey \subseteq Ues /\ NasCounts \in Nat
    BY Zenon, UeSecurityAssumption DEF SecInv, SecTypeOK
<1>3. L \in Seq(DlMessage)
    BY Zenon, <1>2
<1>4. /\ dlSent' = [dlSent EXCEPT ![u] = Append(L, m)]
      /\ dlCount' = [dlCount EXCEPT ![u] = NextDlCount(u, s)] /\ rrcKey' = RrcKey(u, s)
      /\ txNext' = IF s \in OnSrb1 THEN [txNext EXCEPT ![u] = @ + 1] ELSE txNext
    BY Zenon DEF Send
<1>5. m.pdcp = IF s \in OnSrb1 THEN txNext[u] ELSE NoCount
    BY Zenon DEF Encoded
<1>6. s \notin OnSrb1 => L = <<>> /\ txNext[u] = 0
    BY Zenon, SendingContext DEF SecInv, ContextAt, OnSrb1, Asks
<1>7. s = pc'[u]
    BY Zenon
<1> HIDE DEF s, m, L
<1>8. Append(L, m) \in Seq(DlMessage)
    BY <1>1, <1>3
<1>9. SecTypeOK'
    <2>1. rrcKey' \subseteq Ues
        BY Zenon, <1>2, <1>4 DEF RrcKey
    <2>2. txNext' \in [Ues -> Nat]
        BY <1>2, <1>4
    <2> QED
        BY Zenon, <1>1, <1>2, <1>4, <1>8, <2>1, <2>2 DEF SecTypeOK
<1>10. /\ dlSent'[u] = Append(L, m) /\ dlCount'[u] = NextDlCount(u, s)
       /\ txNext'[u] = IF s \in OnSrb1 THEN txNext[u] + 1 ELSE txNext[u]
    BY Zenon, <1>2, <1>4
<1>11. Len(L) \in Nat /\ Len(dlSent'[u]) = Len(L) + 1
    BY <1>1, <1>3, <1>10
<1>12. /\ \A i \in 1 .. Len(L) : dlSent'[u][i] = L[i] /\ L[i] \in DlMessage
       /\ dlSent'[u][Len(L) + 1] = m
    BY <1>1, <1>3, <1>10
<1>13. /\ \A i \in 1 .. Len(L) : /\ L[i].nas # NoCount => L[i].nas < dlCount[u]
                                 /\ L[i].pdcp < txNext[u]
                                 /\ Fit(L[i])
       /\ \A i, j \in 1 .. Len(L) :
             i < j => /\ L[j].nas # NoCount => L[i].nas # L[j].nas
                      /\ L[i].pdcp < L[j].pdcp
    BY Zenon DEF SecInv, Behind, Fresh, L
<1>14. ASSUME NEW i \in 1 .. Len(L) PROVE L[i].nas \in Int /\ L[i].pdcp \in Int
    <2>1. L[i] \in DlMessage
        BY Zenon, <1>12
    <2> QED
        BY <1>2, <2>1 DEF DlMessage, NoCount
<1>15. /\ m.nas \in Int /\ m.pdcp \in Int /\ txNext[u] \in Nat
       /\ dlCount[u] \in Int /\ NextDlCount(u, s) \in Int
    BY <1>1, <1>2 DEF DlMessage, NoCount, NoContext
<1>16. s \notin OnSrb1 => Len(L) = 0
    BY Zenon, <1>6
<1>17. Behind(u)'
    <2> SUFFICES ASSUME NEW i \in 1 .. Len(dlSent'[u])
                 PROVE  /\ dlSent'[u][i].nas # NoCount => dlSent'[u][i].nas < dlCount'[u]
                        /\ dlSent'[u][i].pdcp < txNext'[u]
        BY Zenon DEF Behind, NoCount
    <2>1. CASE i = Len(L) + 1
        BY <1>1, <1>5, <1>6, <1>10, <1>12, <1>15, <2>1 DEF NoCount
    <2>2. CASE i \in 1 .. Len(L)
        BY SMTT(30), <1>1, <1>10, <1>12, <1>13, <1>14, <1>15, <2>2
    <2> QED
        BY <1>11, <2>1, <2>2
<1>18. Fresh(u)'
    <2> SUFFICES ASSUME NEW i \in 1 .. Len(dlSent'[u]), NEW j \in 1 .. Len(dlSent'[u]), i < j
                 PROVE  /\ dlSent'[u][j].nas # NoCount => dlSent'[u][i].nas # dlSent'[u][j].nas
                        /\ dlSent'[u][i].pdcp < dlSent'[u][j].pdcp
        BY Zenon DEF Fresh, NoCount
    <2>1. i \in 1 .. Len(L)
        BY <1>11
    <2>2. CASE j = Len(L) + 1
        <3>1. dlSent'[u][i] = L[i] /\ dlSent'[u][j] = m
            BY Zenon, <1>12, <2>1, <2>2
        <3>2. L[i].pdcp < m.pdcp
            BY <1>5, <1>11, <1>13, <1>16, <2>1
        <3>3. m.nas # NoCount => L[i].nas # m.nas
            BY <1>1, <1>13, <1>14, <1>15, <2>1
        <3> QED
            BY Zenon, <3>1, <3>2, <3>3
    <2>3. CASE j \in 1 .. Len(L)
        BY <1>12, <1>13, <2>1, <2>3
    <2> QED
        BY <1>11, <2>2, <2>3
<1>19. \A i \in 1 .. Len(dlSent'[u]) : Fit(dlSent'[u][i])
    BY <1>1, <1>11, <1>12, <1>13
<1> QED
    BY Zenon, <1>9, <1>17, <1>18, <1>19

\* The contexts of other UEs are not touched.
LEMMA OthersKept ==
    ASSUME TypeOK, SecInv, NEW u \in Ues, Send(u, pc'[u]), NEW v \in Ues \ {u}, Still(v)
    PROVE  /\ ContextAt(v)' /\ Behind(v)' /\ Fresh(v)'
           /\ \A i \in 1 .. Len(dlSent'[v]) : Fit(dlSent'[v][i])
<1>1. /\ dlCount'[v] = dlCount[v] /\ txNext'[v] = txNext[v] /\ dlSent'[v] = dlSent[v]
      /\ v \in rrcKey' <=> v \in rrcKey
    BY Zenon DEF Send, RrcKey, SecInv, SecTypeOK
<1>2. /\ ContextAt(v) /\ Behind(v) /\ Fresh(v)
      /\ \A i \in 1 .. Len(dlSent[v]) : Fit(dlSent[v][i])
    BY Zenon DEF SecInv
<1>3. ContextAt(v)'
    BY Zenon, <1>1, <1>2 DEF ContextAt, Still
<1> QED
    BY <1>1, <1>2, <1>3 DEF Behind, Fresh

\* The invariant is inductive.
LEMMA SecInvNext == TypeOK /\ Inv /\ SecInv /\ [SecNext]_secVars => SecInv'
<1> SUFFICES ASSUME TypeOK, Inv, SecInv, [SecNext]_secVars PROVE SecInv'
    BY Zenon
<1>1. CASE UNCHANGED secVars
    <2>1. pc' = pc /\ count' = count /\ UNCHANGED <<dlCount, rrcKey, txNext, dlSent>>
        BY Zenon, <1>1 DEF secVars, vars, taskVars, securityVars
    <2>2. SecTypeOK'
        BY Zenon, <2>1 DEF SecInv, SecTypeOK
    <2>3. ASSUME NEW u \in Ues
          PROVE  ContextAt(u)' /\ Behind(u)' /\ Fresh(u)'
        BY <2>1 DEF SecInv, ContextAt, Behind, Fresh
    <2> QED
        BY Zenon, <2>1, <2>2, <2>3 DEF SecInv
<1>2. CASE SecNext
    <2>0. Next /\ SecStep
        BY Zenon, <1>2 DEF SecNext
    <2>1. \A v \in Ues : Moves(v)
        BY <2>0, NextMoves DEF Still, Moves
    <2>2. \A u \in Ues : Asks(u) => \A v \in Ues \ {u} : Still(v)
        BY Zenon, <2>0, NextMoves DEF Still, Asks
    <2>3. CASE \E u \in Ues : Asks(u) /\ Send(u, pc'[u])
        <3>1. PICK u \in Ues : Asks(u) /\ Send(u, pc'[u])
            BY Zenon, <2>3
        <3>2. Moves(u) /\ \A v \in Ues \ {u} : Still(v)
            BY Zenon, <2>1, <2>2, <3>1
        <3>3. ContextAt(u)'
            BY Zenon, <3>1, <3>2, SendContext
        <3>4. /\ SecTypeOK'
              /\ Behind(u)' /\ Fresh(u)' /\ \A i \in 1 .. Len(dlSent'[u]) : Fit(dlSent'[u][i])
            BY Zenon, <3>1, <3>2, SendFresh
        <3>5. \A v \in Ues \ {u} : /\ ContextAt(v)' /\ Behind(v)' /\ Fresh(v)'
                                   /\ \A i \in 1 .. Len(dlSent'[v]) : Fit(dlSent'[v][i])
            BY Zenon, <3>1, <3>2, OthersKept
        <3> QED
            BY Zenon, <3>3, <3>4, <3>5 DEF SecInv
    <2>4. CASE (\A u \in Ues : ~Asks(u)) /\ UNCHANGED securityVars
        <3>1. \A u \in Ues : ContextAt(u)'
            BY Zenon, <2>1, <2>4, SilentStep
        <3> QED
            BY <2>4, <3>1 DEF SecInv, SecTypeOK, Behind, Fresh, securityVars
    <2> QED
        BY Zenon, <2>0, <2>3, <2>4 DEF SecStep
<1> QED
    BY Zenon, <1>1, <1>2

\* It holds initially, hence always.
LEMMA SecInvAlways == SecSpec => []SecInv
<1>1. SecInit => SecInv
    <2> SUFFICES ASSUME SecInit PROVE SecInv
        BY Zenon
    <2>1. <<>> \in Seq(DlMessage)
        OBVIOUS
    <2>2. SecTypeOK
        BY Zenon, <2>1 DEF SecInit, SecTypeOK
    <2>3. ASSUME NEW u \in Ues PROVE Len(dlSent[u]) = 0 /\ ContextAt(u)
        BY Zenon DEF SecInit, Init, ContextAt
    <2> QED
        BY <2>2, <2>3 DEF SecInv, Behind, Fresh
<1>2. IInv => TypeOK /\ Inv
    BY Zenon DEF IInv
<1> QED
    BY <1>1, <1>2, SecInvNext, SecImplementsUeTasks, Invariance, PTL DEF SecSpec

\* No NAS or PDCP COUNT is used twice with a key.
THEOREM CountsFreshAlways == SecSpec => []CountsFresh
<1>1. SecInv => CountsFresh
    BY Zenon DEF SecInv, Fresh, CountsFresh
<1> QED
    BY <1>1, SecInvAlways, PTL

\* Registration and session accepts are protected in NAS and in PDCP, and the
\* header of a new context is that of the NAS security mode command only.
THEOREM AcceptsProtectedAlways == SecSpec => []AcceptsProtected
<1>1. SecInv => AcceptsProtected
    BY Zenon DEF SecInv, Fit, AcceptsProtected
<1> QED
    BY <1>1, SecInvAlways, PTL
=============================================================================
