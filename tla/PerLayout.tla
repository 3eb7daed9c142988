------------------------------ MODULE PerLayout ------------------------------
(***************************************************************************)
(* The generated ASN.1 PER codecs.                                         *)
(*                                                                         *)
(* Every type of the generated files has a decode_inner and an             *)
(* encode_inner, two independent straight-line programs over a small set   *)
(* of statements.  The table modules (their names begin with F1ap or Rrc)  *)
(* give both programs of each type as a sequence of statements, in the     *)
(* order of the source; this module gives the statements, PerCodec says    *)
(* what they do.                                                           *)
(*                                                                         *)
(* The wire is a sequence of tokens: what one call of the asn1_per library *)
(* writes, with the bounds it was called with, since a reader that passes  *)
(* other bounds reads other bits.  A nested type is one token: its own     *)
(* programs are another entry of the tables.  The library itself is not    *)
(* part of the repository; its calls are modelled by how the generated     *)
(* code uses them.                                                         *)
(***************************************************************************)
EXTENDS Integers, Sequences

-----------------------------------------------------------------------------
(* Layouts: how one value is put on the wire, with the library call's      *)
(* bounds.  "as" is the Rust type the decoder casts an integer to.         *)

T(name) == [kind |-> "type", name |-> name]
Num(lo, hi, ext, as) == [kind |-> "integer", lo |-> lo, hi |-> hi, ext |-> ext, as |-> as]
\* Bounds beyond 31 bits are kept as text: TLC cannot count that far.
BigNum(range, ext, as) == [kind |-> "big integer", name |-> range, ext |-> ext, as |-> as]
Octets(lo, hi, ext) == [kind |-> "octets", lo |-> lo, hi |-> hi, ext |-> ext]
\* try_into().unwrap() of the octets into an array of the given size.
OctetArray(lo, hi, ext, size) ==
  [kind |-> "array", lo |-> lo, hi |-> hi, ext |-> ext, size |-> size]
OctetString == T("OCTET STRING")
Bits(lo, hi, ext) == [kind |-> "bits", lo |-> lo, hi |-> hi, ext |-> ext]
BitString == T("BIT STRING")
Chars(set, lo, hi, ext) == [kind |-> "chars", name |-> set, lo |-> lo, hi |-> hi, ext |-> ext]
CharString(set) == T(set)
Null == [kind |-> "null"]
\* SetupRelease<T>: both directions of its codec are todo!().
SetupRelease(name) == [kind |-> "setup release", name |-> name]
\* Vec: items; NonEmpty: NonEmpty::from_vec(items).unwrap().
Vec(lo, hi, item) == [kind |-> "list", lo |-> lo, hi |-> hi, item |-> item, nonEmpty |-> FALSE]
NonEmpty(lo, hi, item) == [kind |-> "list", lo |-> lo, hi |-> hi, item |-> item, nonEmpty |-> TRUE]
\* An item in an IE container of its own; its id is written and not looked at.
InIe(item) == [kind |-> "ie", item |-> item]

(* Statements of a decoder.                                                *)
ReadHeader(ext, n) == [op |-> "header", ext |-> ext, n |-> n]
Get(f, l) == [op |-> "get", f |-> f, l |-> l]
GetIf(bit, f, l) == [op |-> "get if", bit |-> bit, f |-> f, l |-> l]
Ie(id, f, l) == [id |-> id, f |-> f, l |-> l]
\* The extension container: known ids set their field, others are skipped.
ReadExtensions(bit, ies) == [op |-> "extensions", bit |-> bit, ies |-> ies]
\* The container of a message: an unknown id is an error.
ReadIes(ies) == [op |-> "ies", ies |-> ies]
Require(fs) == [op |-> "require", fs |-> fs]
Alt(idx, variant, l) == [idx |-> idx, variant |-> variant, l |-> l, ies |-> <<>>]
AltIes(idx, ies) == [idx |-> idx, variant |-> "", l |-> Null, ies |-> ies]
ReadChoice(lo, hi, ext, alts) == [op |-> "choice", lo |-> lo, hi |-> hi, ext |-> ext, alts |-> alts]
ReadEnum(lo, hi, ext, variants) ==
  [op |-> "enum", lo |-> lo, hi |-> hi, ext |-> ext, variants |-> variants]
\* A procedure code, criticality and length, then the message of that code.
ReadProcedure(ies) == [op |-> "procedure", ies |-> ies]

(* Statements of an encoder.  A presence bit is a field's name, "num_ies"  *)
(* or "false".                                                             *)
WriteHeader(ext, bits) == [op |-> "header", ext |-> ext, bits |-> bits]
Put(f, l) == [op |-> "put", f |-> f, l |-> l]
PutIf(f, l) == [op |-> "put if", f |-> f, l |-> l]
PutIe(id, f, l) == [op |-> "put ie", id |-> id, f |-> f, l |-> l]
PutIeIf(id, f, l) == [op |-> "put ie if", id |-> id, f |-> f, l |-> l]
AppendExtensions == [op |-> "extensions"]
AppendIes == [op |-> "ies"]
Arm(variant, idx, l) == [variant |-> variant, idx |-> idx, l |-> l, id |-> <<>>]
ArmIe(variant, idx, id, l) == [variant |-> variant, idx |-> idx, l |-> l, id |-> <<id>>]
WriteChoice(lo, hi, ext, arms) == [op |-> "choice", lo |-> lo, hi |-> hi, ext |-> ext, arms |-> arms]
WriteEnum(lo, hi, ext) == [op |-> "enum", lo |-> lo, hi |-> hi, ext |-> ext]
WriteProcedure(arms) == [op |-> "procedure", arms |-> arms]

Codec(decode, encode) == [decode |-> decode, encode |-> encode]
=============================================================================
