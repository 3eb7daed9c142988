--------------------------- MODULE F1apProcedures ---------------------------
(***************************************************************************)
(* One F1AP procedure from the request to the procedure that takes the     *)
(* reply, over the tables of top_pdu.rs.                                   *)
(*                                                                         *)
(* A message on the wire is its outcome (the first octet), its procedure   *)
(* code (the second) and its contents.  Both ends run a Stack: the CU is   *)
(* this program, the DU the peer, which answers any request of the         *)
(* generated code with either of its outcomes.  Other tasks of both ends   *)
(* have requests of their own pending, sent before this one or after it.   *)
(***************************************************************************)
EXTENDS Naturals, Sequences

CONSTANTS
  Procedures,     \* name of a procedure |-> its code and messages, as in top_pdu.rs
  PduCodec,       \* the codec of F1apPdu
  OutcomeCodecs,  \* the codecs of its three outcomes
  OtherProcs,     \* procedures that other tasks request
  MaxPending      \* bound: pending requests of one end

VARIABLES
  running,      \* [proc, from]: the procedure, and the end that requests it
  outstanding,  \* end |-> the procedures in its pending_requests, in order
  message,      \* what is on the wire: [top, code, contents]
  stage,        \* how far the procedure has come
  meant,        \* the outcome its answerer chose: "success" or "failure"
  index,        \* where handle_message found the pending request a reply matches
  taken         \* [by, as]: the procedure that took the reply, and as what

procVars == <<running, outstanding, message, stage, meant, index, taken>>

Procs == DOMAIN Procedures
Proc(p) == Procedures[p]
Answerable == {p \in Procs : Proc(p).success # ""}
Ends == {"cu", "du"}

ASSUME OthersAnswerable == OtherProcs \subseteq Answerable /\ MaxPending \in Nat

Nothing == [top |-> 9, code |-> 0, contents |-> [kind |-> "nothing"]]
NotTaken == [by |-> "", as |-> ""]
Other(end) == IF end = "cu" THEN "du" ELSE "cu"
Peer == Other(running.from)

-----------------------------------------------------------------------------
(* F1apPdu::into_bytes and F1apPdu::from_bytes, down to the message.       *)

In(s) == {s[i] : i \in DOMAIN s}

IntoBytes(outcome, variant) ==
  LET pdu == CHOOSE a \in In(PduCodec.encode[1].arms) : a.variant = outcome
      arm == CHOOSE a \in In(OutcomeCodecs[outcome].encode[1].arms) : a.variant = variant
  IN  [top |-> pdu.idx, code |-> arm.idx, contents |-> arm.l]

\* The pairs <<outcome, variant>> the octets decode to: one, or none.
FromBytes(m) ==
  UNION {{<<alt.variant, e.f>> : e \in {x \in In(OutcomeCodecs[alt.variant].decode[1].ies) :
                                          x.id = m.code /\ x.l = m.contents}} :
           alt \in {a \in In(PduCodec.decode[1].alts) : a.idx = m.top /\ a.variant # ""}}

-----------------------------------------------------------------------------
(* Both ends' Stack                                                        *)

ProcInit ==
  /\ running \in [proc : Procs, from : Ends]
  /\ outstanding = [end \in Ends |-> <<>>]
  /\ message = Nothing /\ stage = "start" /\ meant = "" /\ index = 0
  /\ taken = NotTaken

\* encode_request, and an entry in pending_requests unless it is an indication.
Request ==
  /\ stage = "start"
  /\ message' = IntoBytes("InitiatingMessage", Proc(running.proc).request)
  /\ outstanding' = IF running.proc \notin Answerable THEN outstanding
                    ELSE [outstanding EXCEPT ![running.from] = Append(@, running.proc)]
  /\ stage' = "requested"
  /\ UNCHANGED <<running, meant, index, taken>>

\* Another task of either end pushes its request.  Of two requests of one
\* procedure the replies are not told apart (see Stack): it is not this one's.
OtherRequest ==
  /\ stage \in {"start", "requested", "routing", "replied", "matched"}
  /\ \E end \in Ends, q \in OtherProcs :
        /\ Len(outstanding[end]) < MaxPending
        /\ end = running.from => q # running.proc
        /\ outstanding' = [outstanding EXCEPT ![end] = Append(@, q)]
  /\ UNCHANGED <<running, message, stage, meant, index, taken>>

\* Mutant: any message with the procedure's code is a reply.
MatchFnCodeOnly(p, m) == m.code = Proc(p).code
MatchFn(p, m) == m.top # 0 /\ m.code = Proc(p).code
Matching(end) == {i \in DOMAIN outstanding[end] : MatchFn(outstanding[end][i], message)}
FirstMatch(end) == CHOOSE i \in Matching(end) : \A j \in Matching(end) : i <= j

\* handle_message of a request: no pending request of the receiver matches it.
HandleRequest ==
  /\ stage = "requested"
  /\ stage' = IF Matching(Peer) # {} THEN "mistaken for a reply"
              ELSE IF FromBytes(message) = {} THEN "decode failed" ELSE "routing"
  /\ UNCHANGED <<running, outstanding, message, meant, index, taken>>

\* The procedures F1apCu::route_request has an arm for, by their message.
CuRoutes ==
  [F1SetupRequest |-> "F1SetupProcedure", F1RemovalRequest |-> "F1RemovalProcedure",
   InitialUlRrcMessageTransfer |-> "InitialUlRrcMessageTransferProcedure",
   UlRrcMessageTransfer |-> "UlRrcMessageTransferProcedure",
   GnbDuConfigurationUpdate |-> "GnbDuConfigurationUpdateProcedure",
   UeContextReleaseRequest |-> "UeContextReleaseRequestProcedure"]

\* The RequestProviders an Application of the CU has to be.
CuProvides == {"F1SetupProcedure", "F1RemovalProcedure", "GnbDuConfigurationUpdateProcedure"}

\* Mutant: the configuration update is not routed.
RoutesNoUpdate(end, variant) ==
  IF end = "cu" THEN {CuRoutes[v] : v \in DOMAIN CuRoutes \cap ({variant} \ {"GnbDuConfigurationUpdate"})}
  ELSE {p \in Procs : Proc(p).request = variant}
\* External: the DU has an arm for every message.
Routes(end, variant) ==
  IF end = "cu" THEN {CuRoutes[v] : v \in DOMAIN CuRoutes \cap {variant}}
  ELSE {p \in Procs : Proc(p).request = variant}

\* The reply is encoded and sent.  Encoding it does not fail: its values are
\* constants, or fields that were decoded from the request.
Reply(outcome, variant, how) ==
  /\ message' = IntoBytes(outcome, variant)
  /\ stage' = "replied"
  /\ meant' = how
  /\ UNCHANGED <<running, outstanding, index, taken>>

\* route_request and call_provider.  The CU's three providers always succeed,
\* so call_provider's todo!() for an Err is not reached: the only ? in them is
\* over the encoding of a SIB2 that is a constant (f1_setup).
Answer ==
  /\ stage = "routing"
  /\ \E routed \in FromBytes(message), p \in Answerable :
        /\ routed[1] = "InitiatingMessage" /\ p \in Routes(Peer, routed[2])
        /\ Reply("SuccessfulOutcome", Proc(p).answer, "success")

\* External: the DU refuses.
Refuse ==
  /\ stage = "routing" /\ Peer = "du"
  /\ \E routed \in FromBytes(message), p \in Answerable :
        /\ routed[1] = "InitiatingMessage" /\ p \in Routes("du", routed[2])
        /\ Proc(p).failure # ""
        /\ Reply("UnsuccessfulOutcome", Proc(p).failure, "failure")

\* An indication, or a request the CU has no arm for: "Unhandled message".
NoAnswer ==
  /\ stage = "routing"
  /\ ~ \E routed \in FromBytes(message) : Routes(Peer, routed[2]) \cap Answerable # {}
  /\ stage' = "unanswered"
  /\ UNCHANGED <<running, outstanding, message, meant, index, taken>>

DecodeResponse(p, m) ==
  CASE <<"SuccessfulOutcome", Proc(p).success>> \in FromBytes(m) -> "success"
    [] <<"UnsuccessfulOutcome", Proc(p).failure>> \in FromBytes(m) -> "failure"
    [] OTHER -> "unexpected"

\* External: Vec::swap_remove(i), the last element takes the place of the i-th.
SwapRemove(s, i) == [j \in 1..(Len(s) - 1) |-> IF j = i THEN s[Len(s)] ELSE s[j]]

\* handle_message of a reply, first lock: the position of the first pending
\* request that matches it; without one it goes to route_request, which takes
\* no replies.
FindPending ==
  /\ stage = "replied"
  /\ IF Matching(running.from) = {} THEN stage' = "dropped" /\ UNCHANGED index
     ELSE stage' = "matched" /\ index' = FirstMatch(running.from)
  /\ UNCHANGED <<running, outstanding, message, meant, taken>>

\* Second lock: the entry at that position, and the reply through its channel.
\* Requests come in between; only another association's task would take
\* entries out (see Stack).
TakePending ==
  LET end == running.from
      by == outstanding[end][index]
  IN  /\ stage = "matched"
      /\ taken' = [by |-> by, as |-> DecodeResponse(by, message)]
      /\ outstanding' = [outstanding EXCEPT ![end] = SwapRemove(@, index)]
      /\ stage' = "taken"
      /\ UNCHANGED <<running, message, meant, index>>

ProcNext ==
  \/ Request \/ OtherRequest \/ HandleRequest \/ Answer \/ Refuse \/ NoAnswer
  \/ FindPending \/ TakePending

ProcSpec == ProcInit /\ [][ProcNext]_procVars

-----------------------------------------------------------------------------
(* What the tables have to agree on.  TLC evaluates these assumptions on   *)
(* every entry of top_pdu.rs.                                              *)

\* Every request of the tables decodes to itself, and is told from a reply.
ASSUME RequestsDecode ==
  \A p \in Procs :
     LET m == IntoBytes("InitiatingMessage", Proc(p).request)
     IN  m.top = 0 /\ FromBytes(m) = {<<"InitiatingMessage", Proc(p).request>>}

\* Both replies carry the CODE of their procedure, and decode as what it takes.
ASSUME RepliesDecode ==
  \A p \in Answerable :
     /\ LET m == IntoBytes("SuccessfulOutcome", Proc(p).answer)
        IN  /\ m.top # 0 /\ m.code = Proc(p).code
            /\ FromBytes(m) = {<<"SuccessfulOutcome", Proc(p).success>>}
     /\ Proc(p).failure # "" =>
           LET m == IntoBytes("UnsuccessfulOutcome", Proc(p).failure)
           IN  /\ m.top # 0 /\ m.code = Proc(p).code
               /\ FromBytes(m) = {<<"UnsuccessfulOutcome", Proc(p).failure>>}

\* No two procedures share a CODE or a request; the CU's arms are by request.
ASSUME ProceduresDistinct ==
  /\ \A p, q \in Procs : Proc(p).code = Proc(q).code \/ Proc(p).request = Proc(q).request => p = q
  /\ \A v \in DOMAIN CuRoutes : CuRoutes[v] \in Procs /\ Proc(CuRoutes[v]).request = v
  /\ \A p \in CuProvides : Proc(p).request \in DOMAIN CuRoutes /\ p \in Answerable

-----------------------------------------------------------------------------
(* The codes of a procedure are written in five places (CODE, and the four *)
(* tables of the outcomes' codecs): a request is never mistaken for a      *)
(* reply and always decodes; the reply to it is taken by that procedure,   *)
(* whatever other requests are outstanding or come in between the two      *)
(* locks, and for the outcome it is.                                       *)
ReplyReachesItsRequest ==
  /\ stage \notin {"mistaken for a reply", "decode failed", "dropped"}
  /\ stage = "taken" => taken = [by |-> running.proc, as |-> meant]

(* The CU answers every request of the procedures it is a RequestProvider *)
(* of; only an indication, or a request of another procedure, goes without *)
(* an answer.                                                              *)
ServedIsAnswered ==
  stage = "unanswered" =>
     \/ running.proc \notin Answerable
     \/ Peer = "cu" /\ running.proc \notin CuProvides
=============================================================================
