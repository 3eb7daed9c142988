---------------------------- MODULE StackProofs ----------------------------
(***************************************************************************)
(* Proofs about Stack, for any sets of callers, associations, codes,       *)
(* initiating messages and scenarios.                                      *)
(***************************************************************************)
EXTENDS Stack, SequenceTheorems, TLAPS

\* A caller has at most one entry in the list of pending requests.
Distinct == \A i, j \in 1 .. Len(pending) : pending[i] = pending[j] => i = j

\* The owner of an entry is inside request(), or left it with an error.
EntryOwner ==
    \A c \in Range(pending) : call[c] \in {"pushed", "waiting", "failed"}

\* The socket of an association is connected only while its task reads it or
\* after its task was stopped by a local shutdown.
LinkHasReader == \A a \in Assocs : link[a] = "up" => Reading(a) \/ a \in stopped

\* The inductive invariant.
IInv ==
    /\ TypeOK
    /\ Distinct
    /\ EntryOwner
    /\ ResponseChannelFree
    /\ LinkHasReader
    /\ WaitingHasReader

-----------------------------------------------------------------------------
\* What swap_remove leaves: a list one shorter, of elements of the old list,
\* without the element removed when the elements were distinct.
LEMMA SwapRemoveProperties ==
    ASSUME NEW S, NEW s \in Seq(S), NEW i \in 1 .. Len(s)
    PROVE  /\ SwapRemove(s, i) \in Seq(S)
           /\ Len(SwapRemove(s, i)) = Len(s) - 1
           /\ \A j \in 1 .. Len(s) - 1 :
                SwapRemove(s, i)[j] = IF j = i THEN s[Len(s)] ELSE s[j]
<1>1. Len(s) \in Nat /\ Len(s) >= 1
    OBVIOUS
<1>2. \A j \in 1 .. Len(s) - 1 : (IF j = i THEN s[Len(s)] ELSE s[j]) \in S
    BY <1>1
<1>3. SwapRemove(s, i) \in [1 .. Len(s) - 1 -> S]
    BY Zenon, <1>2 DEF SwapRemove
<1>4. SwapRemove(s, i) \in Seq(S) /\ Len(SwapRemove(s, i)) = Len(s) - 1
    BY <1>1, <1>3
<1> QED
    BY Zenon, <1>4 DEF SwapRemove

\* An empty channel or inbox.
LEMMA EmptyIsSeq == <<>> \in Seq(Message)
OBVIOUS

\* Pushing an entry or a message keeps a list's type.
LEMMA AppendIsSeq ==
    ASSUME NEW T, NEW s \in Seq(T), NEW e \in T
    PROVE  Append(s, e) \in Seq(T)
OBVIOUS

\* The elements of a list are the values at its positions.
LEMMA InRange ==
    ASSUME NEW S, NEW s \in Seq(S)
    PROVE  \A x : x \in Range(s) <=> \E i \in 1 .. Len(s) : s[i] = x
<1>1. DOMAIN s = 1 .. Len(s)
    OBVIOUS
<1> QED
    BY Zenon, <1>1 DEF Range

\* Pushing a request adds exactly its caller to the entries.
LEMMA RangeAppend ==
    ASSUME NEW S, NEW s \in Seq(S), NEW e \in S
    PROVE  Range(Append(s, e)) = Range(s) \cup {e}
<1>1. Append(s, e) \in Seq(S) /\ Len(Append(s, e)) = Len(s) + 1
    OBVIOUS
<1>2. \A i \in 1 .. Len(s) + 1 : Append(s, e)[i] = IF i = Len(s) + 1 THEN e ELSE s[i]
    OBVIOUS
<1>3. \A x : x \in Range(Append(s, e)) <=> \E i \in 1 .. Len(s) + 1 : Append(s, e)[i] = x
    BY <1>1, InRange, Zenon
<1>4. \A x : x \in Range(s) <=> \E i \in 1 .. Len(s) : s[i] = x
    BY InRange, Zenon
<1> QED
    BY <1>2, <1>3, <1>4

\* From a list without repetitions, swap_remove takes exactly one element.
LEMMA SwapRemoveDistinct ==
    ASSUME NEW S, NEW s \in Seq(S), NEW i \in 1 .. Len(s),
           \A j, k \in 1 .. Len(s) : s[j] = s[k] => j = k
    PROVE  /\ Range(SwapRemove(s, i)) = Range(s) \ {s[i]}
           /\ \A j, k \in 1 .. Len(SwapRemove(s, i)) :
                SwapRemove(s, i)[j] = SwapRemove(s, i)[k] => j = k
<1> DEFINE t == SwapRemove(s, i)
<1>1. /\ t \in Seq(S)
      /\ Len(t) = Len(s) - 1
      /\ \A j \in 1 .. Len(s) - 1 : t[j] = IF j = i THEN s[Len(s)] ELSE s[j]
    BY ZenonT(30), SwapRemoveProperties
<1> HIDE DEF t
<1>2. \A x : x \in Range(t) <=> \E j \in 1 .. Len(t) : t[j] = x
    BY <1>1, InRange, Zenon
<1>3. \A x : x \in Range(s) <=> \E j \in 1 .. Len(s) : s[j] = x
    BY InRange, Zenon
<1>4. ASSUME NEW x \in Range(t) PROVE x \in Range(s) \ {s[i]}
    BY <1>1, <1>2, <1>3
<1>5. ASSUME NEW x \in Range(s) \ {s[i]} PROVE x \in Range(t)
    <2>1. PICK j \in 1 .. Len(s) : s[j] = x /\ j # i
        BY Zenon, <1>3, <1>5
    <2>2. CASE j = Len(s)
        <3>1. i \in 1 .. Len(s) - 1 /\ t[i] = x
            BY <1>1, <2>1, <2>2
        <3> QED
            BY Zenon, <1>1, <1>2, <3>1
    <2>3. CASE j # Len(s)
        <3>1. j \in 1 .. Len(s) - 1 /\ t[j] = x
            BY <1>1, <2>1, <2>3
        <3> QED
            BY Zenon, <1>1, <1>2, <3>1
    <2> QED
        BY Zenon, <2>2, <2>3
<1>6. ASSUME NEW j \in 1 .. Len(t), NEW k \in 1 .. Len(t), t[j] = t[k] PROVE j = k
    <2>1. j \in 1 .. Len(s) - 1 /\ k \in 1 .. Len(s) - 1
        BY Zenon, <1>1
    <2>2. Len(s) \in 1 .. Len(s) /\ j \in 1 .. Len(s) /\ k \in 1 .. Len(s) /\ Len(s) # j /\ Len(s) # k
        BY <2>1
    <2>3. /\ t[j] = IF j = i THEN s[Len(s)] ELSE s[j]
          /\ t[k] = IF k = i THEN s[Len(s)] ELSE s[k]
        BY Zenon, <1>1, <2>1
    <2> QED
        BY Zenon, <1>6, <2>2, <2>3
<1> QED
    BY Zenon, <1>4, <1>5, <1>6 DEF t

-----------------------------------------------------------------------------
(* Type correctness.                                                       *)

\* The values of code and via of a caller without a request.
LEMMA AnyInSet == AnyCode \in Codes /\ AnyAssoc \in Assocs
BY Zenon, StackAssumption DEF AnyCode, AnyAssoc

\* A scenario consists of what there is.
LEMMA ScenarioParts ==
    ASSUME NEW S \in Scenarios
    PROVE  S.assocs \subseteq Assocs /\ S.codes \subseteq Codes /\ S.inits \subseteq Inits
<1>1. S \in Scenario
    BY Zenon, StackAssumption
<1> QED
    BY <1>1 DEF Scenario

\* The initial state is well typed.
LEMMA TypeInit == Init => TypeOK
<1> SUFFICES ASSUME Init PROVE TypeOK
    BY Zenon
<1>1. AnyCode \in Codes /\ AnyAssoc \in Assocs
    BY Zenon, AnyInSet
<1>2. code \in [Callers -> Codes] /\ via \in [Callers -> Assocs]
    BY Zenon, <1>1 DEF Init
<1>3. /\ reply \in [Callers -> Seq(Message)]
      /\ inbox \in [Assocs -> Seq(Message)]
      /\ heldMsg \in [Assocs -> Seq(Message)]
    BY Zenon, EmptyIsSeq DEF Init
<1>4. pending \in Seq(Callers) /\ heldIdx \in [Assocs -> Nat]
    BY DEF Init
<1>5. scenario \in Scenarios /\ unsent \subseteq Inits
    BY Zenon, ScenarioParts DEF Init
<1> QED
    BY Zenon, <1>2, <1>3, <1>4, <1>5 DEF Init, TypeOK, CallState, TaskState

\* A step of Stack::request keeps the types.
LEMMA TypeCaller ==
    ASSUME TypeOK, UNCHANGED scenario, NEW c \in Callers, CallerStep(c)
    PROVE  TypeOK'
<1> USE DEF TypeOK, CallState, callVars, poolVars, peerVars
<1>1. CASE \E k \in scenario.codes : Push(c, k)
    <2>1. PICK k \in Codes : Push(c, k)
        BY Zenon, <1>1, ScenarioParts
    <2> QED
        BY Zenon, <2>1, EmptyIsSeq, AppendIsSeq DEF Push
<1>2. CASE \E a \in Assocs : SendOk(c, a)
    <2>1. PICK a \in Assocs : SendOk(c, a)
        BY Zenon, <1>2
    <2>2. [for |-> c, code |-> code[c], assoc |-> a] \in PeerRequest
        BY Zenon DEF PeerRequest
    <2> QED
        BY Zenon, <2>1, <2>2 DEF SendOk
<1>3. CASE SendFail(c)
    BY Zenon, <1>3, EmptyIsSeq DEF SendFail
<1>4. CASE RecvReply(c)
    BY Zenon, <1>4, EmptyIsSeq, AnyInSet DEF RecvReply
<1>5. CASE RecvClosed(c)
    BY Zenon, <1>5, AnyInSet DEF RecvClosed
<1> QED
    BY Zenon, <1>1, <1>2, <1>3, <1>4, <1>5 DEF CallerStep

\* A step of an association's task keeps the types.
LEMMA TypeAssoc ==
    ASSUME TypeOK, UNCHANGED scenario, NEW a \in Assocs, AssocStep(a) \/ Stop(a)
    PROVE  TypeOK'
<1> USE DEF TypeOK, TaskState, callVars, poolVars, peerVars
<1>0. inbox[a] # <<>> => Head(inbox[a]) \in Message /\ Tail(inbox[a]) \in Seq(Message)
    OBVIOUS
<1>1. CASE \E i \in 1 .. Len(pending) : Position(a, i)
    <2>1. PICK i \in 1 .. Len(pending) : Position(a, i)
        BY Zenon, <1>1
    <2>2. i \in Nat /\ <<Head(inbox[a])>> \in Seq(Message)
        BY <1>0, <2>1 DEF Position, Receives
    <2> QED
        BY Zenon, <1>0, <2>1, <2>2 DEF Position, Receives
<1>2. CASE Spawn(a)
    BY Zenon, <1>0, <1>2 DEF Spawn, Receives
<1>3. CASE Route(a)
    <2>1. pending' \in Seq(Callers)
        BY Zenon, <1>3, SwapRemoveProperties DEF Route
    <2>2. reply' \in [Callers -> Seq(Message)]
        BY Zenon, <1>3 DEF Route
    <2> QED
        BY Zenon, <1>3, <2>1, <2>2, EmptyIsSeq DEF Route
<1>4. CASE RoutePanics(a)
    BY Zenon, <1>4 DEF RoutePanics
<1>5. CASE Terminated(a)
    BY <1>5 DEF Terminated
<1>6. CASE Remove(a)
    BY Zenon, <1>6, EmptyIsSeq DEF Remove
<1>7. CASE Stop(a)
    BY Zenon, <1>7 DEF Stop
<1> QED
    BY Zenon, <1>1, <1>2, <1>3, <1>4, <1>5, <1>6, <1>7 DEF AssocStep

\* A step of the peer keeps the types.
LEMMA TypePeer ==
    ASSUME TypeOK, UNCHANGED scenario, PeerStep
    PROVE  TypeOK'
<1> USE DEF TypeOK, TaskState, callVars, poolVars, peerVars
<1>1. ASSUME NEW a \in scenario.assocs, Accept(a)
      PROVE  TypeOK'
    <2>1. crossed' \in BOOLEAN
        BY Zenon, <1>1 DEF Accept
    <2>2. a \in Assocs
        BY Zenon, ScenarioParts
    <2> QED
        BY Zenon, <1>1, <2>1, <2>2 DEF Accept
<1>2. ASSUME NEW a \in Assocs, PeerClose(a)
      PROVE  TypeOK'
    <2>1. inbox' = inbox \/ inbox' = [inbox EXCEPT ![a] = <<>>]
        BY Zenon, <1>2 DEF PeerClose
    <2>2. inbox' \in [Assocs -> Seq(Message)]
        BY Zenon, <2>1, EmptyIsSeq
    <2> QED
        BY Zenon, <1>2, <2>2 DEF PeerClose
<1>3. ASSUME NEW q \in peerReqs, Respond(q)
      PROVE  TypeOK'
    <2>1. q.for \in Callers /\ q.code \in Codes /\ q.assoc \in Assocs
        BY Zenon DEF PeerRequest
    <2>2. [kind |-> "response", for |-> q.for, code |-> q.code] \in Message
        BY Zenon, <2>1 DEF Message, Response
    <2> QED
        BY Zenon, <1>3, <2>1, <2>2, AppendIsSeq DEF Respond
<1>4. ASSUME NEW a \in Assocs, NEW b \in unsent, Initiate(a, b)
      PROVE  TypeOK'
    <2>1. [kind |-> "initiating", body |-> b] \in Message
        BY Zenon DEF Message, Initiating
    <2> QED
        BY Zenon, <1>4, <2>1, AppendIsSeq DEF Initiate
<1> QED
    BY Zenon, <1>1, <1>2, <1>3, <1>4 DEF PeerStep

\* Every step keeps the types.
LEMMA TypeNext == TypeOK /\ [Next]_vars => TypeOK'
<1> SUFFICES ASSUME TypeOK, [Next]_vars PROVE TypeOK'
    BY Zenon
<1>1. CASE UNCHANGED vars
    BY Zenon, <1>1 DEF TypeOK, vars, callVars, poolVars, peerVars
<1> QED
    BY Zenon, <1>1, TypeCaller, TypeAssoc, TypePeer DEF Next

\* Every variable of the transaction layer keeps its type, in particular
\* pending_requests stays a list of callers under swap_remove.
THEOREM TypeCorrect == Spec => []TypeOK
BY TypeInit, TypeNext, PTL DEF Spec

-----------------------------------------------------------------------------
(* The list of pending requests, the response channels and the tasks.      *)

\* The initial state satisfies the inductive invariant.
LEMMA InvInit == Init => IInv
<1> SUFFICES ASSUME Init PROVE IInv
    BY Zenon
<1>1. TypeOK
    BY Zenon, TypeInit
<1>2. Len(pending) = 0 /\ Range(pending) = {}
    BY DEF Init, Range
<1> QED
    BY <1>1, <1>2 DEF Init, IInv, Distinct, EntryOwner, ResponseChannelFree, LinkHasReader,
                      WaitingHasReader

\* A step of Stack::request preserves the inductive invariant.
LEMMA InvCaller ==
    ASSUME IInv, UNCHANGED scenario, NEW c \in Callers, CallerStep(c)
    PROVE  IInv'
<1> USE DEF IInv, Reading, callVars, poolVars, peerVars
<1>0. TypeOK'
    BY Zenon, TypeCaller
<1>1. ASSUME NEW k \in Codes, Push(c, k)
      PROVE  IInv'
    <2>1. c \notin Range(pending)
        BY Zenon, <1>1 DEF Push, EntryOwner
    <2>2. Range(pending') = Range(pending) \cup {c}
        BY <1>1, RangeAppend DEF Push, TypeOK
    <2>3. Distinct'
        <3>1. pending \in Seq(Callers)
            BY Zenon DEF TypeOK
        <3>2. \A x : x \in Range(pending) <=> \E i \in 1 .. Len(pending) : pending[i] = x
            BY <3>1, InRange, Zenon
        <3>3. \A i \in 1 .. Len(pending) : pending[i] # c
            BY Zenon, <2>1, <3>2
        <3>4. pending' = Append(pending, c)
            BY Zenon, <1>1 DEF Push
        <3>5. /\ Len(pending') = Len(pending) + 1
              /\ \A i \in 1 .. Len(pending) + 1 :
                    pending'[i] = IF i = Len(pending) + 1 THEN c ELSE pending[i]
            BY <3>1, <3>4
        <3> QED
            BY <3>1, <3>3, <3>5 DEF Distinct
    <2>4. EntryOwner' /\ ResponseChannelFree' /\ LinkHasReader' /\ WaitingHasReader'
        BY <1>1, <2>2 DEF Push, TypeOK, EntryOwner, ResponseChannelFree, LinkHasReader,
                          WaitingHasReader
    <2> QED
        BY Zenon, <1>0, <2>3, <2>4
<1>2. ASSUME NEW a \in Assocs, SendOk(c, a)
      PROVE  IInv'
    BY <1>0, <1>2 DEF SendOk, TypeOK, Distinct, EntryOwner, ResponseChannelFree, LinkHasReader,
                      WaitingHasReader
<1>3. CASE SendFail(c)
    BY <1>0, <1>3 DEF SendFail, TypeOK, Distinct, EntryOwner, ResponseChannelFree, LinkHasReader,
                      WaitingHasReader
<1>4. CASE RecvReply(c)
    <2>1. c \notin Range(pending)
        BY Zenon, <1>4 DEF RecvReply, ResponseChannelFree
    <2>2. \A d \in Callers \ {c} : call'[d] = call[d] /\ reply'[d] = reply[d] /\ via'[d] = via[d]
        BY Zenon, <1>4 DEF RecvReply, TypeOK
    <2>3. UNCHANGED <<pending, link, task, stopped>>
        BY Zenon, <1>4 DEF RecvReply
    <2>4. Range(pending) \subseteq Callers \ {c}
        BY Zenon, <2>1, RangeOfSeq DEF TypeOK
    <2> QED
        BY <1>0, <2>1, <2>2, <2>3, <2>4 DEF Distinct, EntryOwner, ResponseChannelFree,
                                            LinkHasReader, WaitingHasReader
<1>5. CASE RecvClosed(c)
    <2>1. c \notin Range(pending)
        BY Zenon, <1>5 DEF RecvClosed
    <2>2. \A d \in Callers \ {c} : call'[d] = call[d] /\ via'[d] = via[d]
        BY Zenon, <1>5 DEF RecvClosed, TypeOK
    <2>3. UNCHANGED <<pending, reply, link, task, stopped>>
        BY Zenon, <1>5 DEF RecvClosed
    <2>4. Range(pending) \subseteq Callers \ {c}
        BY Zenon, <2>1, RangeOfSeq DEF TypeOK
    <2> QED
        BY <1>0, <2>1, <2>2, <2>3, <2>4 DEF Distinct, EntryOwner, ResponseChannelFree,
                                            LinkHasReader, WaitingHasReader
<1>6. scenario.codes \subseteq Codes
    BY Zenon, ScenarioParts DEF TypeOK
<1> QED
    BY Zenon, <1>1, <1>2, <1>3, <1>4, <1>5, <1>6 DEF CallerStep

\* A step of an association's task preserves the inductive invariant: routing
\* frees the entry it used and Terminated drops all of them.
LEMMA InvAssoc ==
    ASSUME IInv, UNCHANGED scenario, NEW a \in Assocs, AssocStep(a) \/ Stop(a)
    PROVE  IInv'
<1> USE DEF IInv, Reading, callVars, poolVars, peerVars
<1>0. TypeOK'
    BY Zenon, TypeAssoc
<1>1. CASE \E i \in 1 .. Len(pending) : Position(a, i)
    <2>1. /\ UNCHANGED <<pending, call, reply, via, link, stopped>>
          /\ task' = [task EXCEPT ![a] = "matched"]
        BY Zenon, <1>1 DEF Position
    <2>2. task \in [Assocs -> TaskState]
        BY Zenon DEF TypeOK
    <2> QED
        BY <1>0, <2>1, <2>2 DEF Distinct, EntryOwner, ResponseChannelFree, LinkHasReader,
                                WaitingHasReader
<1>2. CASE Spawn(a)
    BY Zenon, <1>0, <1>2 DEF Spawn, Distinct, EntryOwner, ResponseChannelFree, LinkHasReader,
                      WaitingHasReader
<1>3. CASE Route(a)
    <2> DEFINE c == pending[heldIdx[a]]
    <2>1. pending' = SwapRemove(pending, heldIdx[a]) /\ heldIdx[a] \in 1 .. Len(pending)
        BY Zenon, <1>3 DEF Route
    <2>2. pending \in Seq(Callers) /\ c \in Callers
        BY <2>1 DEF TypeOK
    <2>3. Range(pending') = Range(pending) \ {c} /\ Distinct'
        BY <2>1, <2>2, SwapRemoveDistinct DEF Distinct
    <2>4. \A d \in Callers \ {c} : reply'[d] = reply[d]
        BY Zenon, <1>3, <2>2 DEF Route, TypeOK
    <2>5. UNCHANGED <<call, via, link, stopped>> /\ task' = [task EXCEPT ![a] = "recv"]
        BY Zenon, <1>3 DEF Route
    <2> HIDE DEF c
    <2>6. EntryOwner' /\ ResponseChannelFree' /\ LinkHasReader' /\ WaitingHasReader'
        BY Zenon, <2>2, <2>3, <2>4, <2>5 DEF TypeOK, EntryOwner, ResponseChannelFree, LinkHasReader,
                                      WaitingHasReader
    <2> QED
        BY Zenon, <1>0, <2>3, <2>6
<1>4. CASE RoutePanics(a)
    BY Zenon, <1>0, <1>4 DEF RoutePanics, Distinct, EntryOwner, ResponseChannelFree, LinkHasReader,
                      WaitingHasReader
<1>5. CASE Terminated(a)
    <2>1. Len(pending') = 0 /\ Range(pending') = {}
        BY <1>5 DEF Terminated, Range
    <2>2. LinkHasReader'
        BY Zenon, <1>5 DEF Terminated, StreamEnds, LinkHasReader, TypeOK
    <2> QED
        BY <1>0, <2>1, <2>2 DEF Distinct, EntryOwner, ResponseChannelFree, WaitingHasReader
<1>6. CASE Remove(a)
    <2>1. /\ UNCHANGED <<pending, call, reply, via, stopped>>
          /\ task[a] = "terminated" /\ task' = [task EXCEPT ![a] = "none"]
          /\ link' = [link EXCEPT ![a] = "none"]
        BY Zenon, <1>6 DEF Remove
    <2>2. /\ task \in [Assocs -> TaskState]
          /\ link \in [Assocs -> {"none", "up", "down"}]
          /\ via \in [Callers -> Assocs]
        BY Zenon DEF TypeOK
    <2>3. WaitingHasReader'
        BY Zenon, <2>1, <2>2 DEF WaitingHasReader
    <2> QED
        BY Zenon, <1>0, <2>1, <2>2, <2>3 DEF Distinct, EntryOwner, ResponseChannelFree,
           LinkHasReader
<1>7. CASE Stop(a)
    BY Zenon, <1>0, <1>7 DEF Stop, Distinct, EntryOwner, ResponseChannelFree, LinkHasReader,
                      WaitingHasReader
<1> QED
    BY Zenon, <1>1, <1>2, <1>3, <1>4, <1>5, <1>6, <1>7 DEF AssocStep

\* A step of the peer preserves the inductive invariant.
LEMMA InvPeer ==
    ASSUME IInv, UNCHANGED scenario, PeerStep
    PROVE  IInv'
<1> USE DEF IInv, Reading
<1>0. TypeOK'
    BY Zenon, TypePeer
<1>1. UNCHANGED <<pending, call, reply, via>>
    BY Zenon DEF PeerStep, Accept, PeerClose, Respond, Initiate, callVars
<1>2. Distinct' /\ EntryOwner' /\ ResponseChannelFree'
    BY Zenon, <1>1 DEF Distinct, EntryOwner, ResponseChannelFree
<1>3. /\ task \in [Assocs -> TaskState] /\ link \in [Assocs -> {"none", "up", "down"}]
      /\ via \in [Callers -> Assocs]
    BY Zenon DEF TypeOK
<1>4. CASE \E a \in scenario.assocs : Accept(a)
    <2>1. PICK a \in Assocs : /\ task' = [task EXCEPT ![a] = "recv"]
                              /\ link' = [link EXCEPT ![a] = "up"]
                              /\ stopped' = stopped \ {a}
        BY Zenon, <1>4, ScenarioParts DEF Accept, TypeOK
    <2> QED
        BY Zenon, <1>0, <1>1, <1>2, <1>3, <2>1 DEF LinkHasReader, WaitingHasReader
<1>5. CASE \E a \in Assocs : PeerClose(a)
    <2>1. PICK a \in Assocs : /\ UNCHANGED <<task, stopped>>
                              /\ link' = [link EXCEPT ![a] = "down"]
        BY Zenon, <1>5 DEF PeerClose
    <2> QED
        BY Zenon, <1>0, <1>1, <1>2, <1>3, <2>1 DEF LinkHasReader, WaitingHasReader
<1>6. CASE (\E q \in peerReqs : Respond(q)) \/ (\E a \in Assocs, b \in unsent : Initiate(a, b))
    <2>1. UNCHANGED <<task, link, stopped>>
        BY Zenon, <1>6 DEF Respond, Initiate, poolVars
    <2> QED
        BY Zenon, <1>0, <1>1, <1>2, <2>1 DEF LinkHasReader, WaitingHasReader
<1> QED
    BY Zenon, <1>4, <1>5, <1>6 DEF PeerStep

\* Every step preserves the inductive invariant.
LEMMA InvNext == IInv /\ [Next]_vars => IInv'
<1> SUFFICES ASSUME IInv, [Next]_vars PROVE IInv'
    BY Zenon
<1> USE DEF IInv, Reading, callVars, poolVars, peerVars
<1>0. TypeOK'
    BY Zenon, TypeNext
<1>1. CASE UNCHANGED vars
    BY <1>0, <1>1 DEF vars, Distinct, EntryOwner, ResponseChannelFree, LinkHasReader,
                      WaitingHasReader
<1> QED
    BY Zenon, <1>1, InvCaller, InvAssoc, InvPeer DEF Next

\* The inductive invariant holds in every state of every behaviour of the
\* transaction layer.
THEOREM Invariance == Spec => []IInv
BY InvInit, InvNext, PTL DEF Spec

\* Once the task of an association has left its read loop, a caller that sent
\* its request there is still registered only if the task was stopped by a
\* local shutdown, whatever the interleaving of registrations, sends,
\* shutdowns and terminations (stack.rs:99-106, 159-165,
\* sctp_tnla_pool.rs:125-156).
THEOREM WaitingHasReaderAlways == Spec => []WaitingHasReader
<1>1. IInv => WaitingHasReader
    BY Zenon DEF IInv
<1> QED
    BY <1>1, Invariance, PTL

\* The task that reads an association never waits for room in a response
\* channel (stack.rs:97, 194-197).
THEOREM ResponseChannelFreeAlways == Spec => []ResponseChannelFree
<1>1. IInv => ResponseChannelFree
    BY Zenon DEF IInv
<1> QED
    BY <1>1, Invariance, PTL

-----------------------------------------------------------------------------
(* One association read at a time.  handle_message looks its entry up      *)
(* under one lock and removes it under another; while no other association *)
(* is read, nothing but new entries can get in between.                    *)

\* Until two associations have been read at one time, at most one is.
AloneReads ==
    ~crossed => \A a, b \in Assocs : Reading(a) /\ Reading(b) => a = b

\* Until then, between the two locks the position still holds an entry that
\* matches.
HeldEntryMatches ==
    ~crossed =>
        \A a \in Assocs :
            task[a] = "matched" =>
                /\ heldIdx[a] \in 1 .. Len(pending)
                /\ heldMsg[a] # <<>>
                /\ Matches(pending[heldIdx[a]], Head(heldMsg[a]))

AloneInv ==
    /\ AloneReads
    /\ NoPanicAlone
    /\ HeldEntryMatches
    /\ ReplyHasRequestedCode

\* When a caller without an entry ends its request, the entry found under the
\* first lock still matches.
LEMMA EntriesKeepCode ==
    ASSUME IInv, HeldEntryMatches, NEW c \in Callers, c \notin Range(pending),
           UNCHANGED <<pending, heldIdx, heldMsg, task, crossed>>,
           code' = [code EXCEPT ![c] = AnyCode]
    PROVE  HeldEntryMatches'
<1>1. pending \in Seq(Callers) /\ code \in [Callers -> Codes]
    BY Zenon DEF IInv, TypeOK
<1>2. \A x : x \in Range(pending) <=> \E i \in 1 .. Len(pending) : pending[i] = x
    BY <1>1, InRange, Zenon
<1>3. \A i \in 1 .. Len(pending) : code'[pending[i]] = code[pending[i]]
    <2> TAKE i \in 1 .. Len(pending)
    <2>1. pending[i] # c
        BY Zenon, <1>2
    <2>2. pending[i] \in Callers
        BY <1>1
    <2> QED
        BY Zenon, <1>1, <2>1, <2>2
<1> QED
    BY Zenon, <1>3 DEF HeldEntryMatches, Matches

\* A step of Stack::request keeps the entry found under the first lock where
\* it was: requests are only appended.
LEMMA AloneCaller ==
    ASSUME IInv, AloneInv, UNCHANGED scenario, NEW c \in Callers, CallerStep(c)
    PROVE  AloneInv'
<1> USE DEF AloneInv, AloneReads, NoPanicAlone, Reading, callVars, poolVars, peerVars
<1>0. /\ pending \in Seq(Callers)
      /\ reply \in [Callers -> Seq(Message)]
      /\ code \in [Callers -> Codes]
    BY Zenon DEF IInv, TypeOK
<1>1. ASSUME NEW k \in Codes, Push(c, k)
      PROVE  AloneInv'
    <2>1. pending' = Append(pending, c) /\ code' = [code EXCEPT ![c] = k]
        BY Zenon, <1>1 DEF Push
    <2>2. /\ Len(pending') = Len(pending) + 1
          /\ \A i \in 1 .. Len(pending) : pending'[i] = pending[i]
        BY <1>0, <2>1
    <2>3. \A x : x \in Range(pending) <=> \E i \in 1 .. Len(pending) : pending[i] = x
        BY <1>0, InRange, Zenon
    <2>4. c \notin Range(pending)
        BY Zenon, <1>1 DEF Push, IInv, EntryOwner
    <2>5. \A i \in 1 .. Len(pending) : pending[i] \in Callers /\ code'[pending[i]] = code[pending[i]]
        BY SMTT(30), <1>0, <2>1, <2>3, <2>4
    <2>6. UNCHANGED <<heldIdx, heldMsg, task, crossed>>
        BY Zenon, <1>1 DEF Push
    <2>7. HeldEntryMatches'
        <3> SUFFICES ASSUME ~crossed, NEW a \in Assocs, task[a] = "matched"
                     PROVE  /\ heldIdx[a] \in 1 .. Len(pending')
                            /\ heldMsg[a] # <<>>
                            /\ Head(heldMsg[a]).kind = "response"
                            /\ Head(heldMsg[a]).code = code'[pending'[heldIdx[a]]]
            BY Zenon, <2>6 DEF HeldEntryMatches, Matches
        <3>1. /\ heldIdx[a] \in 1 .. Len(pending)
              /\ heldMsg[a] # <<>>
              /\ Head(heldMsg[a]).kind = "response"
              /\ Head(heldMsg[a]).code = code[pending[heldIdx[a]]]
            BY Zenon DEF HeldEntryMatches, Matches
        <3>2. heldIdx[a] \in 1 .. Len(pending')
            BY <1>0, <2>2, <3>1
        <3> QED
            BY Zenon, <2>2, <2>5, <3>1, <3>2
    <2>8. ReplyHasRequestedCode'
        BY Zenon, <1>0, <1>1 DEF Push, ReplyHasRequestedCode, Matches
    <2> QED
        BY Zenon, <1>1, <2>7, <2>8 DEF Push
<1>2. ASSUME NEW a \in Assocs, SendOk(c, a)
      PROVE  AloneInv'
    BY Zenon, <1>2 DEF SendOk, HeldEntryMatches, ReplyHasRequestedCode, Matches
<1>3. CASE SendFail(c)
    BY Zenon, <1>0, <1>3 DEF SendFail, HeldEntryMatches, ReplyHasRequestedCode, Matches
<1>4. CASE RecvReply(c)
    <2>1. c \notin Range(pending)
        BY Zenon, <1>4 DEF RecvReply, IInv, ResponseChannelFree
    <2>2. /\ UNCHANGED <<pending, heldIdx, heldMsg, task, crossed, panicked>>
          /\ code' = [code EXCEPT ![c] = AnyCode] /\ reply' = [reply EXCEPT ![c] = <<>>]
        BY Zenon, <1>4 DEF RecvReply
    <2>3. ReplyHasRequestedCode'
        BY Zenon, <1>0, <2>2 DEF ReplyHasRequestedCode
    <2> QED
        BY Zenon, <2>1, <2>2, <2>3, EntriesKeepCode
<1>5. CASE RecvClosed(c)
    <2>1. c \notin Range(pending) /\ reply[c] = <<>>
        BY Zenon, <1>5 DEF RecvClosed
    <2>2. /\ UNCHANGED <<pending, heldIdx, heldMsg, task, crossed, panicked, reply>>
          /\ code' = [code EXCEPT ![c] = AnyCode]
        BY Zenon, <1>5 DEF RecvClosed
    <2>3. ReplyHasRequestedCode'
        BY Zenon, <1>0, <2>1, <2>2 DEF ReplyHasRequestedCode
    <2> QED
        BY Zenon, <2>1, <2>2, <2>3, EntriesKeepCode
<1>6. scenario.codes \subseteq Codes
    BY Zenon, ScenarioParts DEF IInv, TypeOK
<1> QED
    BY Zenon, <1>1, <1>2, <1>3, <1>4, <1>5, <1>6 DEF CallerStep

\* While one association is read, the task that holds an index is the only one
\* that removes entries.
LEMMA AloneAssoc ==
    ASSUME IInv, AloneInv, UNCHANGED scenario, NEW a \in Assocs, AssocStep(a) \/ Stop(a)
    PROVE  AloneInv'
<1> USE DEF AloneInv, AloneReads, NoPanicAlone, Reading, callVars, poolVars, peerVars
<1>0. /\ pending \in Seq(Callers)
      /\ reply \in [Callers -> Seq(Message)]
      /\ task \in [Assocs -> TaskState]
      /\ heldMsg \in [Assocs -> Seq(Message)]
      /\ heldIdx \in [Assocs -> Nat]
      /\ inbox \in [Assocs -> Seq(Message)]
    BY Zenon DEF IInv, TypeOK
<1>1. ASSUME NEW i \in 1 .. Len(pending), Position(a, i)
      PROVE  AloneInv'
    <2>1. /\ heldIdx'[a] = i /\ heldMsg'[a] = <<Head(inbox[a])>>
          /\ Matches(pending[i], Head(inbox[a]))
          /\ UNCHANGED <<pending, code, reply, panicked, crossed>>
          /\ task[a] = "recv" /\ task' = [task EXCEPT ![a] = "matched"]
        BY Zenon, <1>0, <1>1 DEF Position, Receives
    <2>2. AloneReads'
        BY Zenon, <1>0, <2>1
    <2>3. HeldEntryMatches'
        <3>1. ~crossed' => \A b \in Assocs : task'[b] = "matched" => b = a
            BY Zenon, <1>0, <2>1, <2>2
        <3>2. Head(<<Head(inbox[a])>>) = Head(inbox[a]) /\ <<Head(inbox[a])>> # <<>>
            OBVIOUS
        <3> QED
            BY Zenon, <2>1, <3>1, <3>2 DEF HeldEntryMatches, Matches
    <2> QED
        BY Zenon, <2>1, <2>2, <2>3 DEF ReplyHasRequestedCode, Matches
<1>2. CASE Spawn(a)
    BY Zenon, <1>2 DEF Spawn, HeldEntryMatches, ReplyHasRequestedCode, Matches
<1>3. CASE Route(a)
    <2>1. HeldEntryMatches'
        BY Zenon, <1>0, <1>3 DEF Route, HeldEntryMatches
    <2>2. ReplyHasRequestedCode'
        <3> DEFINE d == pending[heldIdx[a]]
        <3>1. d \in Callers /\ (~crossed => Matches(d, Head(heldMsg[a])))
            BY <1>0, <1>3 DEF Route, HeldEntryMatches
        <3>2. UNCHANGED <<code, crossed>> /\ (reply' = [reply EXCEPT ![d] = heldMsg[a]] \/ UNCHANGED reply)
            BY Zenon, <1>3 DEF Route
        <3> QED
            BY Zenon, <1>0, <3>1, <3>2 DEF ReplyHasRequestedCode, Matches
    <2> QED
        BY Zenon, <1>0, <1>3, <2>1, <2>2 DEF Route
<1>4. CASE RoutePanics(a)
    BY Zenon, <1>4 DEF RoutePanics, HeldEntryMatches, ReplyHasRequestedCode, Matches
<1>5. CASE Terminated(a)
    <2>1. HeldEntryMatches'
        BY Zenon, <1>0, <1>5 DEF Terminated, StreamEnds, HeldEntryMatches
    <2> QED
        BY Zenon, <1>0, <1>5, <2>1 DEF Terminated, ReplyHasRequestedCode, Matches
<1>6. CASE Remove(a)
    <2>1. /\ task' = [task EXCEPT ![a] = "none"]
          /\ UNCHANGED <<pending, code, heldIdx, heldMsg, crossed>>
        BY Zenon, <1>6 DEF Remove
    <2>2. \A b \in Assocs : task'[b] = "matched" => task[b] = "matched"
        BY Zenon, <1>0, <2>1
    <2>3. HeldEntryMatches'
        BY Zenon, <2>1, <2>2 DEF HeldEntryMatches, Matches
    <2> QED
        BY Zenon, <1>0, <1>6, <2>3 DEF Remove, ReplyHasRequestedCode, Matches
<1>7. CASE Stop(a)
    BY Zenon, <1>7 DEF Stop, HeldEntryMatches, ReplyHasRequestedCode, Matches
<1> QED
    BY Zenon, <1>1, <1>2, <1>3, <1>4, <1>5, <1>6, <1>7 DEF AssocStep

\* Every step preserves the invariant on the held index: an association
\* accepted while another is read sets crossed.
LEMMA AloneNext == IInv /\ AloneInv /\ [Next]_vars => AloneInv'
<1> SUFFICES ASSUME IInv, AloneInv, [Next]_vars PROVE AloneInv'
    BY Zenon
<1> USE DEF AloneInv, AloneReads, NoPanicAlone, Reading, callVars, poolVars, peerVars,
            HeldEntryMatches, ReplyHasRequestedCode, Matches
<1>1. CASE UNCHANGED vars
    BY ZenonT(30), <1>1 DEF vars
<1>2. ASSUME NEW a \in Assocs, Accept(a) PROVE AloneInv'
    <2>1. task \in [Assocs -> TaskState]
        BY Zenon DEF IInv, TypeOK
    <2>2. /\ task' = [task EXCEPT ![a] = "recv"]
          /\ crossed' = (crossed \/ \E b \in Assocs : Reading(b))
          /\ UNCHANGED <<pending, code, reply, heldIdx, heldMsg, panicked>>
        BY Zenon, <1>2 DEF Accept
    <2>3. AloneReads'
        BY Zenon, <2>1, <2>2
    <2>4. HeldEntryMatches'
        BY Zenon, <2>1, <2>2
    <2> QED
        BY Zenon, <2>2, <2>3, <2>4
<1>3. ASSUME NEW a \in Assocs, PeerClose(a) PROVE AloneInv'
    BY Zenon, <1>3 DEF PeerClose
<1>4. ASSUME NEW q \in peerReqs, Respond(q) PROVE AloneInv'
    BY Zenon, <1>4 DEF Respond
<1>5. ASSUME NEW a \in Assocs, NEW b \in unsent, Initiate(a, b) PROVE AloneInv'
    BY Zenon, <1>5 DEF Initiate
<1>6. scenario.assocs \subseteq Assocs
    BY Zenon, ScenarioParts DEF IInv, TypeOK
<1>7. CASE PeerStep
    BY Zenon, <1>2, <1>3, <1>4, <1>5, <1>6, <1>7 DEF PeerStep
<1>8. ASSUME UNCHANGED scenario, NEW c \in Callers, CallerStep(c) PROVE AloneInv'
    BY Zenon, <1>8, AloneCaller
<1>9. ASSUME UNCHANGED scenario, NEW a \in Assocs, AssocStep(a) \/ Stop(a) PROVE AloneInv'
    BY Zenon, <1>9, AloneAssoc
<1> QED
    BY Zenon, <1>1, <1>7, <1>8, <1>9 DEF Next

\* The invariant on the held index holds in every state.
LEMMA AloneInvariance == Spec => []AloneInv
<1>1. Init => AloneInv
    BY Zenon DEF Init, AloneInv, AloneReads, Reading, NoPanicAlone, HeldEntryMatches,
                 ReplyHasRequestedCode
<1> QED
    BY <1>1, AloneNext, Invariance, PTL DEF Spec

\* Until two associations have been read at one time, the position
\* handle_message found is still valid when it removes the entry, so
\* swap_remove does not panic, whatever is registered, fails or is shut down
\* in between (stack.rs:183-193).
THEOREM NoPanicAloneAlways == Spec => []NoPanicAlone
<1>1. AloneInv => NoPanicAlone
    BY Zenon DEF AloneInv
<1> QED
    BY <1>1, AloneInvariance, PTL

\* Until then, every caller is handed an outcome of the procedure it requested
\* (stack.rs:98, 188-195).
THEOREM ReplyHasRequestedCodeAlways == Spec => []ReplyHasRequestedCode
<1>1. AloneInv => ReplyHasRequestedCode
    BY Zenon DEF AloneInv
<1> QED
    BY <1>1, AloneInvariance, PTL
=============================================================================
