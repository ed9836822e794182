---------------------------- MODULE CommentScan -----------------------------
(***************************************************************************)
(* The second reading of an ABNF text: annotationComments of               *)
(* ts/src/converter.ts goes over the source again, after the parse, and    *)
(* says itself where strings, prose and comments begin and end.  Here it   *)
(* and the lexer of the parse read the text side by side, a sign a step.   *)
(*                                                                         *)
(* Of the signs only those are told apart that a scan can trip over; "x"   *)
(* is any other.  Left out: control characters, a carriage return alone    *)
(* among them, which no ABNF text holds.                                   *)
(***************************************************************************)
EXTENDS Naturals, Sequences

CONSTANTS
  Signs,       (* what a text is made of                                     *)
  MaxSigns     (* bound: of a text                                           *)

VARIABLES
  source,      (* the text read so far                                       *)
  scan,        (* annotationComments: what it skips to, the comment it is    *)
               (* in and the annotations found, by where they begin          *)
  lexer,       (* the same for the lexer                                     *)
  ended        (* the text has been read to its end                          *)

vars == <<source, scan, lexer, ended>>

Reader == [skip |-> "", comment |-> 0, body |-> FALSE, claims |-> FALSE,
           found |-> <<>>, refused |-> FALSE]

Init == source = <<>> /\ scan = Reader /\ lexer = Reader /\ ended = FALSE

Newline == "newline"
Mark(sign) == IF sign = "<" THEN ">" ELSE sign

(* A comment: whether the first sign of its trimmed body is an `@'. *)
InComment(reader, sign) ==
  IF reader.body \/ sign = " " THEN reader
  ELSE [reader EXCEPT !.body = TRUE, !.claims = sign = "@"]
EndComment(reader) ==
  [reader EXCEPT !.comment = 0, !.body = FALSE, !.claims = FALSE,
                 !.found = IF reader.claims THEN Append(@, reader.comment) ELSE @]
BeginComment(reader, at) == [reader EXCEPT !.comment = at]

(* Slips, for the mutation runs: a string is skipped and prose is not; a     *)
(* comment's quotes open strings.                                            *)
Opens_StringsOnly(sign) == sign = "\""
Opens(sign) == sign \in {"\"", "<"}

ScanSign_QuotesInComments(reader, sign, at) ==
  IF reader.skip # ""
    THEN IF sign = reader.skip THEN [reader EXCEPT !.skip = ""] ELSE reader
  ELSE IF reader.comment # 0 /\ sign = Newline THEN EndComment(reader)
  ELSE IF Opens(sign) THEN [reader EXCEPT !.skip = Mark(sign)]
  ELSE IF reader.comment # 0 THEN InComment(reader, sign)
  ELSE IF sign = ";" THEN BeginComment(reader, at)
  ELSE reader

(* The loop of annotationComments: strings and prose are skipped to the next *)
(* closing mark, on whatever line it is, comments to the end of the line.    *)
ScanSign(reader, sign, at) ==
  IF reader.skip # ""
    THEN IF sign = reader.skip THEN [reader EXCEPT !.skip = ""] ELSE reader
  ELSE IF reader.comment # 0
    THEN IF sign = Newline THEN EndComment(reader) ELSE InComment(reader, sign)
  ELSE IF Opens(sign) THEN [reader EXCEPT !.skip = Mark(sign)]
  ELSE IF sign = ";" THEN BeginComment(reader, at)
  ELSE reader

(* The lexer: #ST has no escape, #PV is `<' to `>' of printable signs, and   *)
(* both are of one line; a `;' begins a comment to the end of its line, and  *)
(* leaves that end to be read.  A text with neither is refused before the    *)
(* scan runs.                                                                *)
LexSign(reader, sign, at) ==
  LET prose == reader.skip = ">"
      quoted == reader.skip = "\""
  IN IF prose /\ sign = ">" THEN [reader EXCEPT !.skip = ""]
     ELSE IF quoted /\ sign = "\"" THEN [reader EXCEPT !.skip = ""]
     ELSE IF (prose \/ quoted) /\ sign = Newline THEN [reader EXCEPT !.refused = TRUE]
     ELSE IF prose \/ quoted THEN reader
     ELSE IF reader.comment # 0 /\ sign = Newline THEN EndComment(reader)
     ELSE IF reader.comment # 0 THEN InComment(reader, sign)
     ELSE IF sign = ";" THEN BeginComment(reader, at)
     ELSE IF sign = "\"" THEN [reader EXCEPT !.skip = "\""]
     ELSE IF sign = "<" THEN [reader EXCEPT !.skip = ">"]
     ELSE reader

ReadSign ==
  /\ ~ended /\ ~lexer.refused /\ Len(source) < MaxSigns
  /\ \E sign \in Signs :
       LET at == Len(source) + 1
       IN /\ source' = Append(source, sign)
          /\ scan' = ScanSign(scan, sign, at)
          /\ lexer' = LexSign(lexer, sign, at)
  /\ UNCHANGED ended

AtEnd(reader) == IF reader.comment # 0 THEN EndComment(reader) ELSE reader

ReadEnd ==
  /\ ~ended /\ ~lexer.refused
  /\ ended' = TRUE
  /\ scan' = AtEnd(scan)
  /\ lexer' = [AtEnd(lexer) EXCEPT !.refused = lexer.skip # ""]
  /\ UNCHANGED source

Next == ReadSign \/ ReadEnd
Spec == Init /\ [][Next]_vars

\* Of a text the parse accepts, the scan finds the annotations that are in
\* comments, each where it begins, and no other: not one in a string or in
\* prose, and it misses none after a comment that holds a quote or a bracket
\* (annotationComments).
CommentsAsLexed == ended /\ ~lexer.refused => scan.found = lexer.found
=============================================================================
