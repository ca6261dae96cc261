------------------------------- MODULE SqlScan -------------------------------
(***************************************************************************)
(* scanSql (packages/sql/src/internal/scan.ts) takes a statement apart     *)
(* into literal SQL and the :name references between it; renderPostgres    *)
(* (packages/postgres/src/internal/render.ts) joins the parts with         *)
(* placeholders.  One action per branch of the scanner's loop.             *)
(*                                                                         *)
(* A text is a sequence of characters, a character a string of length one. *)
(* "a", "b" and "E" stand for the letters, "n" for the end of a line, "q"  *)
(* for the double quote.                                                   *)
(***************************************************************************)
EXTENDS Naturals, Sequences, SequencesExt, FiniteSetsExt

CONSTANTS
    Character,  \* of which texts are made
    Statements, \* the texts that are scanned
    Numeral     \* how the numbers 1, 2, ... are written

IDENTIFIER_START == {"a", "b", "E"}
DIGIT == {"0", "1", "2", "3", "4", "5", "6", "7", "8", "9"}
IDENTIFIER_PART == IDENTIFIER_START \cup DIGIT

(* There are numerals for as many references as a statement can hold.       *)
ASSUME SqlScanAssumption ==
    /\ IDENTIFIER_PART \cup {"'", "q", "$", ":", "-", "/", "*", "\\", "n"} \subseteq Character
    /\ "" \notin Character
    /\ Numeral \in Seq(Seq(DIGIT) \ {<<>>})
    /\ \A text \in Statements : text \in Seq(Character) /\ Len(text) <= Len(Numeral)

VARIABLES
    statement,
    index,                  \* of the character that is next
    current,                \* the literal SQL since the last reference
    segments, parameterNames,
    positionalPlaceholder,  \* the first one in live SQL, or <<>>
    scanned

scanVars == <<statement, index, current, segments, parameterNames, positionalPlaceholder, scanned>>

ScanInit ==
    /\ statement \in Statements
    /\ index = 1
    /\ current = <<>> /\ segments = <<>> /\ parameterNames = <<>>
    /\ positionalPlaceholder = <<>>
    /\ scanned = FALSE

-----------------------------------------------------------------------------
(* Looking ahead in a text.                                                *)

At(text, i) == IF i \in DOMAIN text THEN text[i] ELSE ""

(* The first of the places from i on, or the end of the text.               *)
FirstFrom(text, i, places) ==
    LET found == {k \in places : k >= i}
    IN IF found = {} THEN Len(text) + 1 ELSE Min(found)

IdentifierEnd(text, i) == FirstFrom(text, i, {k \in DOMAIN text : text[k] \notin IDENTIFIER_PART})
NumberEnd(text, i) == FirstFrom(text, i, {k \in DOMAIN text : text[k] \notin DIGIT})

(* The dollar tag that starts at i, $$ or $tag$, or <<>>.                   *)
DollarTag(text, i) ==
    LET end == IdentifierEnd(text, i + 1)
    IN IF /\ At(text, i) = "$" /\ At(text, end) = "$"
          /\ At(text, i + 1) \in IDENTIFIER_START \cup {"$"}
       THEN SubSeq(text, i, end) ELSE <<>>

IsAt(text, i, word) ==
    i + Len(word) - 1 <= Len(text) /\ SubSeq(text, i, i + Len(word) - 1) = word

char == At(statement, index)
next == At(statement, index + 1)

(* Past the quote that closes a literal whose text starts at i: a doubled   *)
(* quote does not, nor, where backslashes escape, does an escaped one.      *)
QuoteEnd(quote, i, escapes) ==
    LET end[k \in Nat] ==
            IF k > Len(statement) THEN k
            ELSE IF escapes /\ statement[k] = "\\" THEN end[k + 2]
            ELSE IF statement[k] # quote THEN end[k + 1]
            ELSE IF At(statement, k + 1) = quote THEN end[k + 2] ELSE k + 1
    IN end[i]

(* Mutant: a comment ends at the first */.                                 *)
BlockEnd_NotNested(i) ==
    LET close == FirstFrom(statement, i + 2, {k \in DOMAIN statement : IsAt(statement, k, <<"*", "/">>)})
    IN close + 2

(* Past the end of the comment that starts at i: comments nest.             *)
BlockEnd(i) ==
    LET end[k \in Nat] ==
            [depth \in Nat \ {0} |->
                IF k > Len(statement) THEN k
                ELSE IF IsAt(statement, k, <<"/", "*">>) THEN end[k + 2][depth + 1]
                ELSE IF ~IsAt(statement, k, <<"*", "/">>) THEN end[k + 1][depth]
                ELSE IF depth = 1 THEN k + 2 ELSE end[k + 2][depth - 1]]
    IN end[i + 2][1]

-----------------------------------------------------------------------------
(* The loop.                                                               *)

(* Copies the text up to stop, or what there is of it.                      *)
CopyTo(stop) ==
    /\ current' = current \o SubSeq(statement, index, IF stop > Len(statement) THEN Len(statement) ELSE stop - 1)
    /\ index' = stop
    /\ UNCHANGED <<statement, segments, parameterNames, scanned>>

StartsEscapeString ==
    char = "E" /\ next = "'" /\ At(statement, index - 1) \notin IDENTIFIER_PART

LineComment ==
    /\ char = "-" /\ next = "-"
    /\ CopyTo(FirstFrom(statement, index, {k \in DOMAIN statement : statement[k] = "n"}))
    /\ UNCHANGED positionalPlaceholder

BlockComment ==
    /\ char = "/" /\ next = "*"
    /\ CopyTo(BlockEnd(index))
    /\ UNCHANGED positionalPlaceholder

EscapeString ==
    /\ StartsEscapeString
    /\ CopyTo(QuoteEnd("'", index + 2, TRUE))
    /\ UNCHANGED positionalPlaceholder

Quoted ==
    /\ char \in {"'", "q"}
    /\ CopyTo(QuoteEnd(char, index + 1, FALSE))
    /\ UNCHANGED positionalPlaceholder

DollarQuoted ==
    LET tag == DollarTag(statement, index)
        closing == FirstFrom(statement, index + Len(tag), {k \in DOMAIN statement : IsAt(statement, k, tag)})
    IN /\ char = "$" /\ tag # <<>>
       /\ CopyTo(IF closing > Len(statement) THEN closing ELSE closing + Len(tag))
       /\ UNCHANGED positionalPlaceholder

Cast ==
    /\ char = ":" /\ next = ":"
    /\ CopyTo(index + 2)
    /\ UNCHANGED positionalPlaceholder

(* Mutant: the literal SQL before the reference is not cleared.            *)
Parameter_KeepsCurrent ==
    LET end == IdentifierEnd(statement, index + 1)
    IN /\ char = ":" /\ next \in IDENTIFIER_START
       /\ segments' = Append(segments, current)
       /\ parameterNames' = Append(parameterNames, SubSeq(statement, index + 1, end - 1))
       /\ index' = end
       /\ UNCHANGED <<statement, current, positionalPlaceholder, scanned>>

Parameter ==
    LET end == IdentifierEnd(statement, index + 1)
    IN /\ char = ":" /\ next \in IDENTIFIER_START
       /\ segments' = Append(segments, current)
       /\ current' = <<>>
       /\ parameterNames' = Append(parameterNames, SubSeq(statement, index + 1, end - 1))
       /\ index' = end
       /\ UNCHANGED <<statement, positionalPlaceholder, scanned>>

(* Any other character; a positional placeholder is noted on the way.       *)
Literal ==
    /\ index <= Len(statement)
    /\ <<char, next>> \notin {<<"-", "-">>, <<"/", "*">>, <<":", ":">>}
    /\ ~StartsEscapeString
    /\ char \notin {"'", "q"}
    /\ DollarTag(statement, index) = <<>>
    /\ ~(char = ":" /\ next \in IDENTIFIER_START)
    /\ positionalPlaceholder' =
            IF positionalPlaceholder = <<>> /\ char = "$" /\ next \in DIGIT
            THEN SubSeq(statement, index, NumberEnd(statement, index + 1) - 1)
            ELSE positionalPlaceholder
    /\ CopyTo(index + 1)

Finish ==
    /\ index > Len(statement) /\ ~scanned
    /\ segments' = Append(segments, current)
    /\ scanned' = TRUE
    /\ UNCHANGED <<statement, index, current, parameterNames, positionalPlaceholder>>

ScanNext ==
    \/ LineComment \/ BlockComment \/ EscapeString \/ Quoted \/ DollarQuoted
    \/ Cast \/ Parameter \/ Literal \/ Finish

Scan == ScanInit /\ [][ScanNext]_scanVars

-----------------------------------------------------------------------------
(* What becomes of the parts.                                              *)

Joined(parts, between) ==
    LET text[k \in 0 .. Len(parts)] ==
            IF k = 0 THEN <<>>
            ELSE text[k - 1] \o parts[k] \o (IF k \in DOMAIN between THEN between[k] ELSE <<>>)
    IN text[Len(parts)]

(* renderPostgres: a placeholder of its own for every gap.                  *)
Placeholders == [k \in DOMAIN parameterNames |-> <<"$">> \o Numeral[k]]
RenderPostgres == Joined(segments, Placeholders)

(* PostgreSQL's reading of a text, character by character: which            *)
(* placeholders it finds in live SQL, how many :name it finds there, and    *)
(* whether a $ is part of a word or stands alone, or a :name follows a      *)
(* word.                                                                    *)
Ground == [mode |-> "sql", depth |-> 0, tag |-> <<>>, skip |-> 0, word |-> "",
           placeholders |-> <<>>, references |-> 0, odd |-> FALSE]

InSql(text, k, s) ==
    LET c == text[k]
        d == At(text, k + 1)
        tag == DollarTag(text, k)
        plain == [s EXCEPT !.word = ""]
    IN CASE c = "-" /\ d = "-" -> [plain EXCEPT !.mode = "line"]
         [] c = "/" /\ d = "*" -> [plain EXCEPT !.mode = "block", !.depth = 1, !.skip = 1]
         [] c = "E" /\ d = "'" /\ s.word = "" -> [plain EXCEPT !.mode = "escape", !.skip = 1]
         [] c = "'" -> [plain EXCEPT !.mode = "string"]
         [] c = "q" -> [plain EXCEPT !.mode = "name"]
         [] c = "$" /\ s.word = "identifier" -> [s EXCEPT !.odd = TRUE]
         [] c = "$" /\ s.word # "identifier" /\ tag # <<>> ->
              [plain EXCEPT !.mode = "dollar", !.tag = tag, !.skip = Len(tag) - 1]
         [] c = "$" /\ s.word # "identifier" /\ d \in DIGIT ->
              [s EXCEPT !.word = "number", !.skip = NumberEnd(text, k + 1) - k - 1,
                        !.placeholders = Append(@, SubSeq(text, k + 1, NumberEnd(text, k + 1) - 1))]
         [] c = "$" /\ s.word # "identifier" /\ tag = <<>> /\ d \notin DIGIT -> [plain EXCEPT !.odd = TRUE]
         [] c = ":" /\ d = ":" -> [plain EXCEPT !.skip = 1]
         [] c = ":" /\ d \in IDENTIFIER_START ->
              [plain EXCEPT !.references = @ + 1, !.skip = IdentifierEnd(text, k + 1) - k - 1,
                            !.odd = @ \/ s.word = "identifier"]
         [] c \in IDENTIFIER_START /\ ~(c = "E" /\ d = "'" /\ s.word = "") -> [s EXCEPT !.word = "identifier"]
         [] c \in DIGIT -> [s EXCEPT !.word = IF @ = "" THEN "number" ELSE @]
         [] OTHER -> plain

InQuotes(text, k, s, quote) ==
    IF text[k] # quote THEN s
    ELSE IF At(text, k + 1) = quote THEN [s EXCEPT !.skip = 1] ELSE [s EXCEPT !.mode = "sql"]

Read(text, k, s) ==
    CASE s.skip > 0        -> [s EXCEPT !.skip = @ - 1]
      [] s.skip = 0 /\ s.mode = "sql" -> InSql(text, k, s)
      [] s.skip = 0 /\ s.mode = "line" -> IF text[k] = "n" THEN [s EXCEPT !.mode = "sql"] ELSE s
      [] s.skip = 0 /\ s.mode = "block" ->
            IF IsAt(text, k, <<"/", "*">>) THEN [s EXCEPT !.depth = @ + 1, !.skip = 1]
            ELSE IF ~IsAt(text, k, <<"*", "/">>) THEN s
            ELSE [s EXCEPT !.depth = @ - 1, !.skip = 1, !.mode = IF s.depth = 1 THEN "sql" ELSE @]
      [] s.skip = 0 /\ s.mode = "string" -> InQuotes(text, k, s, "'")
      [] s.skip = 0 /\ s.mode = "name" -> InQuotes(text, k, s, "q")
      [] s.skip = 0 /\ s.mode = "escape" ->
            IF text[k] = "\\" THEN [s EXCEPT !.skip = 1] ELSE InQuotes(text, k, s, "'")
      [] s.skip = 0 /\ s.mode = "dollar" ->
            IF IsAt(text, k, s.tag) THEN [s EXCEPT !.skip = Len(s.tag) - 1, !.mode = "sql"] ELSE s

ReaderAfter(text) ==
    LET after[k \in 0 .. Len(text)] == IF k = 0 THEN Ground ELSE Read(text, k, after[k - 1])
    IN after

PostgresReads(text) == ReaderAfter(text)[Len(text)]

-----------------------------------------------------------------------------
(* Properties.                                                             *)

(* Nothing of the statement is lost, repeated or moved: at every point the  *)
(* parts found so far, put together again, are the text scanned so far      *)
(* (scan.ts:204-205 calls it the reconstruction property).                  *)
Reconstructs ==
    Joined(segments, [k \in DOMAIN parameterNames |-> <<":">> \o parameterNames[k]])
        \o (IF scanned THEN <<>> ELSE current)
    = SubSeq(statement, 1, IF index > Len(statement) THEN Len(statement) ELSE index - 1)

(* PostgreSQL finds in the rendered text one placeholder per value, in      *)
(* order, no placeholder of the author's and no reference that was missed,  *)
(* whatever quotes, comments and dollar tags surround them                  *)
(* (scan.ts:17-22, render.ts:6-9).  Left out are statements in which a $    *)
(* is part of a word (scan.ts:24-31) or stands alone, which PostgreSQL      *)
(* itself rejects, and those where a reference directly follows a word.     *)
ServerReadsTheGaps ==
    scanned /\ positionalPlaceholder = <<>> /\ ~PostgresReads(statement).odd =>
        LET read == PostgresReads(RenderPostgres)
        IN /\ read.placeholders = [k \in DOMAIN parameterNames |-> Numeral[k]]
           /\ read.references = 0

(* Nothing is lost on the way to the server, and nothing is found that is    *)
(* not there: scan.ts and render.ts together (scan.ts:42-60).               *)
ScanIsFaithful == Reconstructs /\ ServerReadsTheGaps
=============================================================================
