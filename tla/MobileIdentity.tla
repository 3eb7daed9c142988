--------------------------- MODULE MobileIdentity ---------------------------
(***************************************************************************)
(* The PLMN the operator configures (convert_mcc_mnc of main.rs) and the   *)
(* mobile identity a UE registers with (fgs_mobile_identity of             *)
(* nas/parse.rs, check_registration_request of initial_access.rs), as far  *)
(* as the IMSI that looks up the SIM.  Characters are numbers, the ten     *)
(* digits their own; strings are sequences of them.                        *)
(***************************************************************************)
EXTENDS Naturals, Sequences, FiniteSets

CONSTANTS
  CountryCodes, NetworkCodes,  \* --mcc and --mnc arguments
  PlmnOctets,                  \* octets a UE may send in its PLMN
  Msins                        \* digits of a UE's MSIN

Digits == 0..9

ASSUME IdentityInputs ==
  /\ CountryCodes \subseteq Seq(Nat) /\ NetworkCodes \subseteq Seq(Nat)
  /\ PlmnOctets \subseteq [1..3 -> 0..255]
  /\ Msins \subseteq Seq(Digits)

VARIABLES
  process,   \* "starting", "serving", "exited"
  mcc, mnc,  \* the arguments
  plmn,      \* config().plmn
  msin,      \* the registering UE's MSIN
  imsi,      \* what QCore takes its IMSI to be
  verdict    \* "", "looked up" or "refused"

identityVars == <<process, mcc, mnc, plmn, msin, imsi, verdict>>

Octet(low, high) == high * 16 + low
Low(octet) == octet % 16
High(octet) == octet \div 16
Filler == 15

-----------------------------------------------------------------------------
\* convert_mcc_mnc: the filler goes between the MCC and a two-digit MNC.
Convertible(c, n) ==
  Len(c) = 3 /\ Len(n) \in {2, 3} /\ c \in Seq(Digits) /\ n \in Seq(Digits)
\* Mutant: the filler of a two-digit MNC comes last.
ConvertMccMncFillerLast(c, n) ==
  LET digits == c \o n \o (IF Len(n) = 2 THEN <<Filler>> ELSE <<>>)
  IN  [i \in 1..3 |-> Octet(digits[2 * i - 1], digits[2 * i])]
ConvertMccMnc(c, n) ==
  LET digits == c \o (IF Len(n) = 2 THEN <<Filler>> ELSE <<>>) \o n
  IN  [i \in 1..3 |-> Octet(digits[2 * i - 1], digits[2 * i])]

\* External: the identity IE of a UE with a null-scheme SUPI; an odd last
\* digit is followed by a filler.
IdentityIe(octets, digits) ==
  LET even == IF Len(digits) % 2 = 0 THEN digits ELSE Append(digits, Filler)
  IN  <<1>> \o octets \o <<240, 255, 0, 0>>
        \o [i \in 1..(Len(even) \div 2) |-> Octet(even[2 * i - 1], even[2 * i])]

\* write!(s, "{b}"): a nibble above 9 becomes two characters.
Decimal(nibble) == IF nibble > 9 THEN <<1, nibble - 10>> ELSE <<nibble>>

\* The fold over the nibbles: each is written after the text so far.
WriteOut(nibbles) ==
  LET text[i \in 0..Len(nibbles)] ==
        IF i = 0 THEN <<>> ELSE text[i - 1] \o Decimal(nibbles[i])
  IN  text[Len(nibbles)]

Acceptable(ie) == Len(ie) >= 12 /\ ie[1] = 1
PlmnOf(ie) == SubSeq(ie, 2, 4)
PlmnNibbles(p) ==
  <<Low(p[1]), High(p[1]), Low(p[2])>>
    \o (IF High(p[2]) # Filler THEN <<High(p[2])>> ELSE <<>>)
    \o <<Low(p[3]), High(p[3])>>
MsinNibbles(octets) ==
  [i \in 1..(2 * Len(octets)) |->
     IF i % 2 = 1 THEN Low(octets[(i + 1) \div 2]) ELSE High(octets[i \div 2])]
FgsMobileIdentity(ie) ==
  WriteOut(PlmnNibbles(PlmnOf(ie)) \o MsinNibbles(SubSeq(ie, 9, Len(ie))))

-----------------------------------------------------------------------------
IdentityInit ==
  /\ process = "starting" /\ mcc \in CountryCodes /\ mnc \in NetworkCodes
  /\ plmn = <<>> /\ msin = <<>> /\ imsi = <<>> /\ verdict = ""

\* convert_mcc_mnc(..).unwrap() in main.
Start ==
  /\ process = "starting"
  /\ IF Convertible(mcc, mnc) THEN process' = "serving" /\ plmn' = ConvertMccMnc(mcc, mnc)
     ELSE process' = "exited" /\ UNCHANGED plmn
  /\ UNCHANGED <<mcc, mnc, msin, imsi, verdict>>

\* check_registration_request; a UE sends any octets for its PLMN.
Register ==
  /\ process = "serving" /\ verdict = ""
  /\ \E octets \in PlmnOctets \cup {plmn}, digits \in Msins :
        LET ie == IdentityIe(octets, digits)
        IN  /\ msin' = digits
            /\ IF Acceptable(ie) /\ PlmnOf(ie) = plmn
               THEN verdict' = "looked up" /\ imsi' = FgsMobileIdentity(ie)
               ELSE verdict' = "refused" /\ UNCHANGED imsi
  /\ UNCHANGED <<process, mcc, mnc, plmn>>

IdentityNext == Start \/ Register

IdentitySpec == IdentityInit /\ [][IdentityNext]_identityVars

-----------------------------------------------------------------------------
(* The IMSI a SIM is looked up by is the operator's MCC and MNC followed   *)
(* by the UE's MSIN, as the keys of the SIM file are written, for an MNC   *)
(* of two digits or three and an MSIN of an even number: the filler of a   *)
(* two-digit MNC and the PLMN's swapped nibbles leave no trace.            *)
ImsiIsTheSubscribers ==
  verdict = "looked up" /\ Len(msin) % 2 = 0 => imsi = mcc \o mnc \o msin

(* The same of every MSIN.  It does not hold: the filler after an odd MSIN *)
(* is written as two more digits, 15, and names no key of the SIM file.    *)
EveryImsiIsTheSubscribers == verdict = "looked up" => imsi = mcc \o mnc \o msin
=============================================================================
