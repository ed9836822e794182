------------------------------ MODULE Numeric ------------------------------
(***************************************************************************)
(* ABNF numeric values, `%x41-5A`, `%d13.10`, `%b101`: the matcher of the  *)
(* meta-parser scans one, and parseNumericValue makes an element of it, in *)
(* the canonical converter (ts/src/converter.ts), the Go port              *)
(* (go/converter.go) and the Rust port (rs/src/numeric.rs).                *)
(*                                                                         *)
(* A literal is the sequence of its code points: what a runtime's strings  *)
(* make of half a surrogate pair (DIVERGENCE.md, 1) is left out.           *)
(***************************************************************************)
EXTENDS Integers, SequencesExt

CONSTANTS
  Alphabet,   (* base -> the digits a value of that base is written with *)
  Longest     (* bound: base -> how long a value of that base may be     *)

Radix == [x |-> 16, d |-> 10, b |-> 2]

DigitOf == [c \in {"0", "1", "2", "3", "4", "5", "6", "7", "8", "9",
                   "A", "B", "C", "D", "E", "F"} |->
  CASE c = "0" -> 0 [] c = "1" -> 1 [] c = "2" -> 2 [] c = "3" -> 3 [] c = "4" -> 4
    [] c = "5" -> 5 [] c = "6" -> 6 [] c = "7" -> 7 [] c = "8" -> 8 [] c = "9" -> 9
    [] c = "A" -> 10 [] c = "B" -> 11 [] c = "C" -> 12 [] c = "D" -> 13 [] c = "E" -> 14
    [] c = "F" -> 15]

ASSUME NumericAssumption ==
  /\ \A base \in DOMAIN Alphabet : base \in {"x", "d", "b"}
                                   /\ Alphabet[base] \subseteq DOMAIN DigitOf
  /\ DOMAIN Longest = DOMAIN Alphabet /\ \A base \in DOMAIN Longest : Longest[base] \in Nat

VARIABLES
  base,   (* the base's letter                                        *)
  body,   (* the digits and separators scanned                        *)
  ts, go, rust   (* what each runtime decodes the value to            *)

vars == <<base, body, ts, go, rust>>

MaxCodePoint == 1114111   (* U+10FFFF *)
MaxPlain == 65535         (* U+FFFF, the last a four-digit escape reaches *)
NaN == -1                 (* what parseInt answers where there is no number *)

(* An element: a literal, or a range whose ends the pattern writes with a   *)
(* four-digit escape or a braced one; or the part that is no code point.    *)
Term(points) == [kind |-> "term", points |-> points, escape |-> "none"]
CharRange(lo, hi, escape) == [kind |-> "range", points |-> <<lo, hi>>, escape |-> escape]
Refused(part) == [kind |-> "refused", points |-> part, escape |-> "none"]
Unread == [kind |-> "unread", points |-> <<>>, escape |-> "none"]

Split(s, mark) == FoldLeft(
  LAMBDA parts, c : IF c = mark THEN Append(parts, <<>>)
                    ELSE [parts EXCEPT ![Len(parts)] = Append(@, c)],
  <<<<>>>>, s)
HasDash(s) == \E i \in DOMAIN s : s[i] = "-"

InBase(c, radix) == c \in DOMAIN DigitOf /\ DigitOf[c] < radix
Value(digits, radix) == FoldLeft(LAMBDA n, c : n * radix + DigitOf[c], 0, digits)

(* The digits of the base the text starts with, up to the first other sign. *)
Leading(text, radix) ==
  LET other == SelectInSeq(text, LAMBDA c : ~ InBase(c, radix))
  IN IF other = 0 THEN text ELSE SubSeq(text, 1, other - 1)

(* JavaScript's parseInt: the number the longest run of leading digits names. *)
ParseInt(text, radix) ==
  LET run == Max({n \in 0 .. Len(text) : \A i \in 1 .. n : InBase(text[i], radix)})
  IN IF run = 0 THEN NaN
     ELSE MapThenSumSet(LAMBDA i : DigitOf[text[i]] * radix ^ (run - i), 1 .. run)

(* parse_int of the Rust port: cut at the first other sign, then multiply   *)
(* and add.                                                                 *)
parse_int_Whole(text, radix) ==  (* slip: text after the digits is an error *)
  IF Leading(text, radix) # text THEN NaN ELSE Value(text, radix)
parse_int(text, radix) ==
  IF Leading(text, radix) = <<>> THEN NaN ELSE Value(Leading(text, radix), radix)

(* Go's strconv.ParseInt takes the whole text or answers an error. *)
GoParseInt(text, radix) == IF Leading(text, radix) = text THEN Value(text, radix) ELSE NaN

IsCodePoint(n) == 0 <= n /\ n <= MaxCodePoint

(* A range needs the braced escape when either end is above U+FFFF. *)
EscapeOf_HighEnd(ends) == IF MaxPlain < Last(ends) THEN "braced" ELSE "four digits"  (* slip *)
EscapeOf(ends) == IF \E i \in DOMAIN ends : MaxPlain < ends[i] THEN "braced" ELSE "four digits"

(* The first part that is no code point decides; equal ends are a literal. *)
Element(parts, numbers, isRange, escape) ==
  LET bad == {i \in DOMAIN parts : ~ IsCodePoint(numbers[i])}
  IN CASE bad # {} -> Refused(parts[CHOOSE i \in bad : \A j \in bad : i <= j])
       [] bad = {} /\ isRange /\ numbers[1] # numbers[2] ->
            CharRange(numbers[1], numbers[2], escape)
       [] bad = {} /\ isRange /\ numbers[1] = numbers[2] -> Term(<<numbers[1]>>)
       [] OTHER -> Term(numbers)

(* Of several dashes JavaScript and Rust take the first two parts, and Go   *)
(* cuts at the first.                                                       *)
Parts == IF HasDash(body) THEN SubSeq(Split(body, "-"), 1, 2) ELSE Split(body, ".")

TsDecode(radix) ==
  LET numbers == [i \in DOMAIN Parts |-> ParseInt(Parts[i], radix)]
  IN Element(Parts, numbers, HasDash(body), EscapeOf(numbers))

RustDecode(radix) ==
  LET numbers == [i \in DOMAIN Parts |-> parse_int(Parts[i], radix)]
  IN Element(Parts, numbers, HasDash(body), EscapeOf(numbers))

GoDecode(radix) ==
  LET dash == SelectInSeq(body, LAMBDA c : c = "-")
      parts == IF HasDash(body) THEN <<SubSeq(body, 1, dash - 1), SubSeq(body, dash + 1, Len(body))>>
               ELSE Split(body, ".")
  IN Element(parts, [i \in DOMAIN parts |-> GoParseInt(parts[i], radix)], HasDash(body), "braced")

Init ==
  /\ base \in DOMAIN Alphabet /\ body = <<>>
  /\ ts = Unread /\ go = Unread /\ rust = Unread

EndsInDigit == body # <<>> /\ Last(body) \notin {"-", "."}

(* The matcher: digits of any base, and single separators between them. *)
ScanDigit ==
  /\ ts = Unread /\ Len(body) < Longest[base]
  /\ \E c \in Alphabet[base] : body' = Append(body, c)
  /\ UNCHANGED <<base, ts, go, rust>>

ScanMark ==
  /\ ts = Unread /\ Len(body) < Longest[base] /\ EndsInDigit
  /\ \E c \in {"-", "."} : body' = Append(body, c)
  /\ UNCHANGED <<base, ts, go, rust>>

ParseNumericValue ==
  /\ ts = Unread /\ EndsInDigit
  /\ ts' = TsDecode(Radix[base]) /\ go' = GoDecode(Radix[base]) /\ rust' = RustDecode(Radix[base])
  /\ UNCHANGED <<base, body>>

Next == ScanDigit \/ ScanMark \/ ParseNumericValue

Spec == Init /\ [][Next]_vars

-----------------------------------------------------------------------------
(* RFC 5234: the value is one number, several joined by dots, or two with a *)
(* dash between, in digits of its base.                                     *)
Dashes == {i \in DOMAIN body : body[i] = "-"}
Dots == {i \in DOMAIN body : body[i] = "."}
DigitsFit == \A i \in DOMAIN body \ (Dashes \union Dots) : InBase(body[i], Radix[base])
IsRfc == DigitsFit /\ (Dashes = {} \/ (Cardinality(Dashes) = 1 /\ Dots = {}))

Cuts == SetToSortSeq(Dashes \union Dots \union {0, Len(body) + 1}, <)
RfcParts == [k \in 1 .. Len(Cuts) - 1 |-> SubSeq(body, Cuts[k] + 1, Cuts[k + 1] - 1)]
RfcNumber(part) ==
  MapThenSumSet(LAMBDA i : DigitOf[part[i]] * Radix[base] ^ (Len(part) - i), DOMAIN part)
RfcNumbers == [k \in DOMAIN RfcParts |-> RfcNumber(RfcParts[k])]

(* What an element matches: the pattern's four digits say no more than U+FFFF. *)
Matches(e) ==
  CASE e.kind = "refused" -> <<"refused", e.points>>
    [] e.kind = "term" -> <<"term", e.points>>
    [] OTHER -> IF e.escape = "braced" \/ (e.points[1] <= MaxPlain /\ e.points[2] <= MaxPlain)
                THEN <<"range", e.points>> ELSE <<"garbled", e.points>>

RfcMatches ==
  LET bad == {k \in DOMAIN RfcParts : RfcNumbers[k] > MaxCodePoint}
  IN IF bad # {} THEN <<"refused", RfcParts[Min(bad)]>>
     ELSE IF Dashes = {} THEN <<"term", RfcNumbers>>
     ELSE IF RfcNumbers[1] = RfcNumbers[2] THEN <<"term", <<RfcNumbers[1]>>>>
     ELSE <<"range", RfcNumbers>>

\* Of a value RFC 5234 allows, every runtime makes an element that matches
\* what the RFC says, up to U+10FFFF and on either side of U+FFFF, or refuses
\* the first number above it (parseNumericValue).
RfcValuesAreKept ==
  ts # Unread /\ IsRfc => Matches(ts) = RfcMatches /\ Matches(go) = RfcMatches
                          /\ Matches(rust) = RfcMatches

\* The Rust port decodes every value the matcher can scan exactly as the
\* canonical converter does, the ones RFC 5234 does not allow included: its
\* parse_int stops where parseInt stops (rs/src/numeric.rs:1-28).
RustDecodesAsTs == rust = ts

\* What go/converter.go:504-505 says: the Go port's check mirrors the TS
\* one, refusing the same values.
GoMirrorsTs == (go.kind = "refused") = (ts.kind = "refused")

\* What ts/src/converter.ts:1058-1059 says: decimal and binary accept only
\* digits in their respective ranges.
OnlyDigitsOfTheBase == ts.kind \in {"term", "range"} /\ base \in {"d", "b"} => DigitsFit
=============================================================================
