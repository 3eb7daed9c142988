----------------------------- MODULE UeSecurity -----------------------------
(***************************************************************************)
(* The security contexts of a UE (NasContext, SecurityContext and PdcpTx), *)
(* laid over the UE tasks of UeTasks: every downlink RRC message a task    *)
(* sends is encoded by the step that sends it, and the steps are those of  *)
(* UeTasks, unchanged.  The NAS message inside it takes the NAS COUNT and  *)
(* the PDCP packet around it the PDCP COUNT, whether or not the            *)
(* association is up to carry it.                                          *)
(***************************************************************************)
EXTENDS UeTasks

CONSTANT NasCounts   \* 2^24: the NAS COUNT is 24 bits wide

\* A UE needs a COUNT for the security mode command, the registration accept
\* and each session.
ASSUME UeSecurityAssumption ==
    NasCounts \in Nat /\ MaxSessions + 2 < NasCounts

VARIABLES dlCount,    \* dlCount[u]: SecurityContext.dl_count, or NoContext
          rrcKey,     \* UEs whose pdcp_integrity_key is set
          txNext,     \* txNext[u]: PdcpTx.tx_next
          dlSent      \* dlSent[u]: the downlink messages encoded for u, in order

securityVars == <<dlCount, rrcKey, txNext, dlSent>>
secVars == <<vars, securityVars>>

NoContext == -1
NoCount == -1

\* The NAS security header, the COUNT its MAC is computed with, the PDCP COUNT,
\* and whether the MAC of the PDCP packet is computed or left zero.
DlMessage ==
    [step : Answer, header : {"absent", "plain", "newContext", "protected"},
     nas : (0 .. NasCounts - 1) \cup {NoCount}, pdcp : Nat \cup {NoCount},
     mac : {"zero", "keyed"}]

SecTypeOK ==
    /\ dlCount \in [Ues -> (0 .. NasCounts - 1) \cup {NoContext}]
    /\ rrcKey \subseteq Ues
    /\ txNext \in [Ues -> Nat]
    /\ dlSent \in [Ues -> Seq(DlMessage)]

SecInit ==
    /\ Init
    /\ dlCount = [u \in Ues |-> NoContext]
    /\ rrcKey = {}
    /\ txNext = [u \in Ues |-> 0]
    /\ dlSent = [u \in Ues |-> <<>>]

-----------------------------------------------------------------------------
\* RRC messages with a NAS message inside, and those on SRB1.
CarriesNas == {"auth", "nasSmc", "regAccept", "reconf"}
OnSrb1 == Answer \ {"rrcSetup"}

\* Mutant: the context is set up when the command has been answered.
NasContextLate(u, s) == IF s = "regAccept" THEN 0 ELSE dlCount[u]

\* The context a message of step s is encoded in: configure_nas_security puts
\* a new one, with count 0, in place just before the security mode command.
NasContext(u, s) == IF s = "nasSmc" THEN 0 ELSE dlCount[u]

\* NasContext::encode and SecurityContext::encode_with_integrity.
NasHeader(u, s) ==
    CASE s \notin CarriesNas -> "absent"
      [] s \in CarriesNas /\ NasContext(u, s) = NoContext -> "plain"
      [] s \in CarriesNas /\ NasContext(u, s) = 0 -> "newContext"
      [] OTHER -> "protected"

NasCount(u, s) == IF s \in CarriesNas THEN NasContext(u, s) ELSE NoCount

\* Mutant: encoding a session establishment accept does not count.
NextDlCountStays(u, s) ==
    IF s \in {"nasSmc", "regAccept"} THEN (NasContext(u, s) + 1) % NasCounts ELSE dlCount[u]

\* self.dl_count = (self.dl_count + 1) & 0xffffff.
NextDlCount(u, s) ==
    IF s \in CarriesNas /\ NasContext(u, s) # NoContext
    THEN (NasContext(u, s) + 1) % NasCounts
    ELSE dlCount[u]

\* configure_rrc_security, just before the RRC security mode command.
RrcKey(u, s) == IF s = "rrcSmc" THEN rrcKey \cup {u} ELSE rrcKey

\* maybe_pdcp_encapsulate and PdcpTx::encode.
Encoded(u, s) ==
    [step |-> s, header |-> NasHeader(u, s), nas |-> NasCount(u, s),
     pdcp |-> IF s \in OnSrb1 THEN txNext[u] ELSE NoCount,
     mac |-> IF s \in OnSrb1 /\ u \in RrcKey(u, s) THEN "keyed" ELSE "zero"]

\* rrc_request, and nas_request through it: u's task sends the message of
\* step s.
Send(u, s) ==
    /\ dlSent' = [dlSent EXCEPT ![u] = Append(@, Encoded(u, s))]
    /\ dlCount' = [dlCount EXCEPT ![u] = NextDlCount(u, s)]
    /\ rrcKey' = RrcKey(u, s)
    /\ txNext' = IF s \in OnSrb1 THEN [txNext EXCEPT ![u] = @ + 1] ELSE txNext

\* A step of UeTasks sends u a message and asks for its answer.  (A session
\* establishment that fails after encoding its accept sends nothing more.)
Asks(u) == pc'[u] \in Answer /\ pc'[u] # pc[u]

SecStep ==
    \/ \E u \in Ues : Asks(u) /\ Send(u, pc'[u])
    \/ (\A u \in Ues : ~Asks(u)) /\ UNCHANGED securityVars

SecNext == Next /\ SecStep

SecSpec == SecInit /\ [][SecNext]_secVars

FairSecSpec ==
    /\ SecSpec
    /\ \A u \in Ues : WF_secVars(TaskStep(u) /\ SecStep) /\ WF_secVars(HandlerStep(u) /\ SecStep)

-----------------------------------------------------------------------------
(* Properties.                                                             *)

\* No COUNT is used twice with a key, whichever steps fail and whatever the
\* association does meanwhile: not the NAS COUNT of the UE's one context
\* (security_context.rs:41-50), nor the COUNT of SRB1, which goes on when the
\* key is set (pdcp/src/lib.rs:44-64).
CountsFresh ==
    \A u \in Ues : \A i, j \in 1 .. Len(dlSent[u]) :
        i < j => /\ dlSent[u][j].nas # NoCount => dlSent[u][i].nas # dlSent[u][j].nas
                 /\ dlSent[u][i].pdcp < dlSent[u][j].pdcp

\* What admits the UE to the network or gives it a session is protected twice,
\* in NAS and in PDCP, though the answer to the RRC security mode command is
\* not looked at; and the header of a new context is put on the NAS security
\* mode command and on nothing else (security_context.rs:18-22,
\* initial_access.rs:76-101, pdu_session_establishment.rs:45, 86).
AcceptsProtected ==
    \A u \in Ues : \A i \in 1 .. Len(dlSent[u]) :
        /\ dlSent[u][i].step \in {"regAccept", "reconf"} =>
              dlSent[u][i].header = "protected" /\ dlSent[u][i].mac = "keyed"
        /\ dlSent[u][i].header = "newContext" <=> dlSent[u][i].step = "nasSmc"
=============================================================================
