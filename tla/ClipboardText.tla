---------------------------- MODULE ClipboardText ----------------------------
(***************************************************************************)
(* The text that a paste reads.  parseClipboardText parses a text that is  *)
(* there as a whole: it measures it, finds out its format, and parses it   *)
(* as one cell, as a column of lines, or as rows of quoted fields.  A      *)
(* clipboard that gives its text as a stream is parsed while it arrives:   *)
(* the format is not known yet, so a TSV and a CSV parser run side by side *)
(* and neither can look ahead.                                             *)
(*                                                                         *)
(* A text is a sequence of code units.  Where in the text a parser failed  *)
(* is left out.                                                            *)
(***************************************************************************)
EXTENDS Naturals, SequencesExt

CONSTANTS
    Letter, Comma, Tab, Cr, Lf, Quote,     \* code units of one byte each
    High, Low,                             \* the halves of a surrogate pair
    MaxTextBytes, MaxRows, MaxColumns, MaxCells, MaxCellBytes,   \* the paste limits
    Grids,        \* the cells that were copied by this editor, as rows of texts
    NoGrid,
    MaxUnits      \* bound: the length of a text that comes from elsewhere

ASSUME ClipboardTextAssumption ==
    {MaxTextBytes, MaxRows, MaxColumns, MaxCells, MaxCellBytes, MaxUnits} \subseteq Nat

VARIABLES
    copied,     \* the grid whose text arrives, or NoGrid
    expected,   \* what the stream is still to give of a copied grid
    arrived,    \* the text so far (rawChunks, which the stream drops once it is structured)
    feed,       \* [bytes, pendingHigh, detection, tsv, csv]: the incremental parser
    stream,     \* open, drained, closed at a limit, failed, or aborted
    outcome     \* the result, or NoOutcome

textVars == <<copied, expected, arrived, feed, stream, outcome>>

CodeUnits == {Letter, Comma, Tab, Cr, Lf, Quote, High, Low}

-----------------------------------------------------------------------------
(* Characters and results.                                                 *)

\* Code units, two of them taken together where they are one of the pairs.
together(text, pairs) ==
    FoldLeft(LAMBDA done, unit :
               IF done # <<>> /\ Append(Last(done), unit) \in pairs
               THEN Front(done) \o <<Append(Last(done), unit)>>
               ELSE Append(done, <<unit>>),
             <<>>, text)

characters(text) == together(text, {<<High, Low>>})
lexemes(text) == together(text, {<<High, Low>>, <<Cr, Lf>>})
isBreak(lexeme) == lexeme \in {<<Cr>>, <<Lf>>, <<Cr, Lf>>}

bytesOf(lexeme) ==
    IF lexeme = <<High, Low>> THEN 4
    ELSE IF lexeme \in {<<High>>, <<Low>>} THEN 3
    ELSE Len(lexeme)

measured(text) == FoldLeft(LAMBDA n, c : n + bytesOf(c), 0, characters(text))

parsed(format, rows) == [ok |-> TRUE, format |-> format, rows |-> rows, reason |-> "none"]
refused(reason) == [ok |-> FALSE, format |-> "none", rows |-> <<>>, reason |-> reason]
NoOutcome == refused("none")

\* Both parsers start a cell only while the limits allow one more.
cellLimit(p) ==
    IF Len(p.row) >= MaxColumns THEN "too-many-columns"
    ELSE IF p.cells >= MaxCells THEN "too-many-cells" ELSE "none"

withText(p, lexeme) ==
    IF p.bytes + bytesOf(lexeme) > MaxCellBytes
    THEN [p EXCEPT !.failure = IF @ = "none" THEN "cell-too-large" ELSE @]
    ELSE [p EXCEPT !.bytes = @ + bytesOf(lexeme), !.cell = @ \o lexeme]

-----------------------------------------------------------------------------
(* parseClipboardText.  A doubled quote is looked for ahead, and skipped.  *)

quoteAhead(lexs, i) == i < Len(lexs) /\ lexs[i + 1] = <<Quote>>

detectClipboardTextFormat(lexs) ==
    FoldLeftDomain(
      LAMBDA s, i :
        IF s.skip THEN [s EXCEPT !.skip = FALSE]
        ELSE IF s.quoted
        THEN [s EXCEPT !.break = @ \/ isBreak(lexs[i]),
                       !.quoted = lexs[i] # <<Quote>> \/ quoteAhead(lexs, i),
                       !.skip = lexs[i] = <<Quote>> /\ quoteAhead(lexs, i)]
        ELSE [s EXCEPT !.tab = @ \/ lexs[i] = <<Tab>>,
                       !.comma = @ \/ lexs[i] = <<Comma>>,
                       !.break = @ \/ isBreak(lexs[i]),
                       !.quoted = lexs[i] = <<Quote>> /\ s.start,
                       !.start = isBreak(lexs[i]) \/ lexs[i] \in {<<Tab>>, <<Comma>>}],
      [tab |-> FALSE, comma |-> FALSE, break |-> FALSE, start |-> TRUE, quoted |-> FALSE,
       skip |-> FALSE],
      lexs)

\* Lines, some of them quoted as a whole, and one of those for a reason.
isEscapedTsvText(lexs) ==
    LET end == FoldLeftDomain(
          LAMBDA s, i :
            IF s.skip THEN [s EXCEPT !.skip = FALSE]
            ELSE CASE s.mode = "quoted" /\ lexs[i] = <<Quote>> ->
                        IF quoteAhead(lexs, i)
                        THEN [s EXCEPT !.escaped = TRUE, !.skip = TRUE]
                        ELSE [s EXCEPT !.mode = "quote-closed"]
                   [] s.mode = "quoted" /\ lexs[i] # <<Quote>> ->
                        [s EXCEPT !.escaped = @ \/ isBreak(lexs[i]) \/ lexs[i] = <<Tab>>]
                   [] s.mode # "quoted" /\ isBreak(lexs[i]) ->
                        [s EXCEPT !.any = @ \/ (s.mode = "quote-closed" /\ s.escaped),
                                  !.mode = "field-start"]
                   [] s.mode = "field-start" /\ lexs[i] = <<Quote>> ->
                        [s EXCEPT !.mode = "quoted", !.escaped = FALSE]
                   [] OTHER ->
                        [s EXCEPT !.literal = @ \/ s.mode = "quote-closed" \/ lexs[i] = <<Quote>>,
                                  !.mode = "unquoted"],
          [mode |-> "field-start", any |-> FALSE, escaped |-> FALSE, literal |-> FALSE,
           skip |-> FALSE],
          lexs)
    IN ~end.literal /\ end.mode # "quoted" /\
         (end.any \/ (end.mode = "quote-closed" /\ end.escaped))

parseSingleTextCell(text) ==
    IF measured(text) > MaxCellBytes THEN refused("cell-too-large")
    ELSE parsed("text", <<<<text>>>>)

\* The text after the last break is a row unless it is empty.
parseSingleColumnTextRows(lexs) ==
    LET finishRow(s) ==
            IF Len(s.rows) >= MaxRows THEN [s EXCEPT !.failure = "too-many-rows"]
            ELSE IF Len(s.rows) >= MaxCells THEN [s EXCEPT !.failure = "too-many-cells"]
            ELSE [s EXCEPT !.rows = Append(@, <<s.cell>>), !.cell = <<>>, !.bytes = 0]
        lines == FoldLeft(LAMBDA s, lexeme :
                            IF s.failure # "none" THEN s
                            ELSE IF isBreak(lexeme) THEN finishRow(s)
                            ELSE withText(s, lexeme),
                          [rows |-> <<>>, cell |-> <<>>, bytes |-> 0, failure |-> "none"], lexs)
        end == IF lines.failure = "none" /\ lines.cell # <<>> THEN finishRow(lines) ELSE lines
    IN IF end.failure = "none" THEN parsed("tsv", end.rows) ELSE refused(end.failure)

beginsCell(p) ==
    IF cellLimit(p) # "none" THEN [p EXCEPT !.failure = cellLimit(p)]
    ELSE [p EXCEPT !.cells = @ + 1, !.cell = <<>>, !.bytes = 0, !.active = TRUE,
                   !.mode = "field-start"]

beginsRow(p) ==
    IF p.started >= MaxRows THEN [p EXCEPT !.failure = "too-many-rows"]
    ELSE beginsCell([p EXCEPT !.started = @ + 1, !.row = <<>>])

closesCell(p) == [p EXCEPT !.row = Append(@, p.cell), !.active = FALSE]
closesRow(p) == [p EXCEPT !.rows = Append(@, p.row), !.row = <<>>, !.mode = "field-start"]

readsField(p, lexs, i, delimiter) ==
    CASE p.mode = "quoted" /\ lexs[i] # <<Quote>> -> withText(p, lexs[i])
      [] p.mode = "quoted" /\ lexs[i] = <<Quote>> ->
           IF quoteAhead(lexs, i) THEN withText([p EXCEPT !.skip = TRUE], <<Quote>>)
           ELSE [p EXCEPT !.mode = "quote-closed"]
      [] p.mode # "quoted" /\ isBreak(lexs[i]) -> closesRow(closesCell(p))
      [] p.mode # "quoted" /\ lexs[i] = <<delimiter>> -> beginsCell(closesCell(p))
      [] p.mode = "field-start" /\ lexs[i] = <<Quote>> -> [p EXCEPT !.mode = "quoted"]
      [] p.mode \in {"field-start", "unquoted"} /\ lexs[i] \notin {<<Quote>>, <<delimiter>>}
           /\ ~isBreak(lexs[i]) -> withText([p EXCEPT !.mode = "unquoted"], lexs[i])
      [] OTHER -> [p EXCEPT !.failure = "malformed"]

parseDelimitedText(lexs, format) ==
    LET delimiter == IF format = "tsv" THEN Tab ELSE Comma
        first == beginsRow([rows |-> <<>>, row |-> <<>>, cell |-> <<>>, bytes |-> 0, cells |-> 0,
                            started |-> 0, active |-> FALSE, mode |-> "field-start",
                            skip |-> FALSE, failure |-> "none"])
        open(p) == IF p.mode = "field-start" /\ ~p.active THEN beginsRow(p) ELSE p
        end == FoldLeftDomain(LAMBDA p, i :
                 IF p.failure # "none" THEN p
                 ELSE IF p.skip THEN [p EXCEPT !.skip = FALSE]
                 ELSE IF open(p).failure # "none" THEN open(p)
                 ELSE readsField(open(p), lexs, i, delimiter),
               first, lexs)
    IN CASE end.failure # "none" -> refused(end.failure)
         [] end.failure = "none" /\ end.mode = "quoted" -> refused("malformed")
         [] end.failure = "none" /\ end.mode # "quoted" ->
              parsed(format, IF end.active THEN closesRow(closesCell(end)).rows ELSE end.rows)

parseClipboardText(text) ==
    LET lexs == lexemes(text)
        found == detectClipboardTextFormat(lexs)
    IN CASE measured(text) > MaxTextBytes -> refused("input-too-large")
         [] measured(text) <= MaxTextBytes /\ found.tab -> parseDelimitedText(lexs, "tsv")
         [] measured(text) <= MaxTextBytes /\ ~found.tab /\ found.comma -> parseDelimitedText(lexs, "csv")
         [] OTHER -> IF isEscapedTsvText(lexs) THEN parseDelimitedText(lexs, "tsv")
                     ELSE IF found.break THEN parseSingleColumnTextRows(lexs)
                     ELSE parseSingleTextCell(text)

-----------------------------------------------------------------------------
(* The incremental parsers: one character at a time.                       *)

failsAt(p, reason) == [p EXCEPT !.failure = IF @ = "none" THEN reason ELSE @]

beginCell(p) ==
    IF cellLimit(p) # "none" THEN failsAt(p, cellLimit(p))
    ELSE [p EXCEPT !.cells = @ + 1, !.cell = <<>>, !.bytes = 0, !.active = TRUE,
                   !.mode = "field-start", !.quotedCell = FALSE, !.escaped = FALSE,
                   !.pendingQuote = FALSE]

beginRow(p) ==
    IF Len(p.rows) >= MaxRows THEN failsAt(p, "too-many-rows")
    ELSE beginCell([p EXCEPT !.row = <<>>, !.open = TRUE])

finishCell(p) ==
    IF ~p.active THEN p
    ELSE [p EXCEPT !.row = Append(@, p.cell), !.active = FALSE,
                   !.hasEscaped = @ \/ (~p.invalid /\ p.quotedCell /\ p.escaped)]

finishRow(p) ==
    IF ~p.open THEN p
    ELSE [p EXCEPT !.rows = Append(@, p.row), !.row = <<>>, !.open = FALSE, !.active = FALSE,
                   !.mode = "field-start", !.quotedCell = FALSE, !.escaped = FALSE,
                   !.pendingQuote = FALSE]

newParser ==
    beginCell([rows |-> <<>>, row |-> <<>>, cell |-> <<>>, bytes |-> 0, cells |-> 0,
               mode |-> "field-start", active |-> TRUE, open |-> TRUE, quotedCell |-> FALSE,
               escaped |-> FALSE, pendingQuote |-> FALSE, skipLf |-> FALSE, invalid |-> FALSE,
               hasEscaped |-> FALSE, failure |-> "none"])

consumeField(p, c, delimiter) ==
    CASE p.mode = "quoted" /\ c = <<Quote>> -> [p EXCEPT !.pendingQuote = TRUE]
      [] p.mode = "quoted" /\ c # <<Quote>> ->
           withText([p EXCEPT !.escaped = @ \/ c \in {<<Tab>>, <<Cr>>, <<Lf>>}], c)
      [] p.mode # "quoted" /\ c = <<delimiter>> -> beginCell(finishCell(p))
      [] p.mode # "quoted" /\ c \in {<<Cr>>, <<Lf>>} ->
           [finishRow(finishCell(p)) EXCEPT !.skipLf = c = <<Cr>>]
      [] p.mode = "field-start" /\ c = <<Quote>> ->
           [p EXCEPT !.quotedCell = TRUE, !.escaped = FALSE, !.mode = "quoted"]
      [] OTHER ->
           withText([p EXCEPT !.invalid = @ \/ p.mode = "quote-closed" \/ c = <<Quote>>,
                              !.mode = "unquoted"], c)

(* Mutant: the line feed of a CR LF starts a row of its own.               *)
neverSkips(p, c, delimiter) ==
    LET open == IF p.open THEN p ELSE beginRow(p)
    IN IF open.failure # "none" THEN open ELSE consumeField(open, c, delimiter)

consume(p, c, delimiter) ==
    LET now == [p EXCEPT !.skipLf = FALSE]
        open == IF now.open THEN now ELSE beginRow(now)
    IN IF p.skipLf /\ c = <<Lf>> THEN now
       ELSE IF open.failure # "none" THEN open
       ELSE consumeField(open, c, delimiter)

pushUnit(p, c, delimiter) ==
    IF p.failure # "none" THEN p
    ELSE IF ~p.pendingQuote THEN consume(p, c, delimiter)
    ELSE IF c = <<Quote>>
    THEN [withText([p EXCEPT !.pendingQuote = FALSE, !.escaped = TRUE], c) EXCEPT !.mode = "quoted"]
    ELSE consume([p EXCEPT !.pendingQuote = FALSE, !.mode = "quote-closed"], c, delimiter)

hasEscapedTsvCell(p) ==
    p.hasEscaped /\ ~p.invalid /\ p.failure = "none" /\ p.mode # "quoted"

finishParser(p, format) ==
    CASE p.failure # "none" -> refused(p.failure)
      [] p.failure = "none" /\ (p.invalid \/ (p.mode = "quoted" /\ ~p.pendingQuote)) ->
           refused("malformed")
      [] OTHER -> parsed(format, IF p.open /\ p.active THEN finishRow(finishCell(p)).rows ELSE p.rows)

\* FormatDetectionScanner.
scans(d, c) ==
    IF d.pendingQuote /\ c = <<Quote>> THEN [d EXCEPT !.pendingQuote = FALSE]
    ELSE IF d.quoted /\ ~d.pendingQuote THEN [d EXCEPT !.pendingQuote = c = <<Quote>>]
    ELSE [d EXCEPT !.pendingQuote = FALSE,
                   !.tab = @ \/ c = <<Tab>>,
                   !.comma = @ \/ c = <<Comma>>,
                   !.quoted = c = <<Quote>> /\ d.start,
                   !.start = c \in {<<Tab>>, <<Comma>>, <<Cr>>, <<Lf>>}]

\* A tab releases the CSV parser, and nothing is read beyond the limit.
feedOne(f, c) ==
    IF f.bytes + bytesOf(c) > MaxTextBytes THEN [f EXCEPT !.bytes = MaxTextBytes + 1]
    ELSE LET d == scans(f.detection, c)
         IN [f EXCEPT !.bytes = @ + bytesOf(c),
                      !.detection = d,
                      !.tsv = pushUnit(@, c, Tab),
                      !.csv = IF d.tab THEN newParser ELSE pushUnit(@, c, Comma)]

\* A high surrogate at the end of a chunk waits for the next one.
feedCodeUnits(f, chunk) ==
    LET cs == characters((IF f.pendingHigh THEN <<High>> ELSE <<>>) \o chunk)
        waits == Last(cs) = <<High>>
    IN FoldLeft(LAMBDA g, c : IF g.bytes > MaxTextBytes THEN g ELSE feedOne(g, c),
                [f EXCEPT !.pendingHigh = waits],
                IF waits THEN Front(cs) ELSE cs)

\* Text without structure is parsed again as a whole.
streamResult(f) ==
    CASE f.detection.tab -> finishParser(f.tsv, "tsv")
      [] ~f.detection.tab /\ f.detection.comma -> finishParser(f.csv, "csv")
      [] OTHER -> IF hasEscapedTsvCell(f.tsv) THEN finishParser(f.tsv, "tsv")
                  ELSE parseClipboardText(arrived)

-----------------------------------------------------------------------------
(* What a copy of this editor writes, and what arrives.                    *)

escapeClipboardTsvCell(cell) ==
    IF \E i \in DOMAIN cell : cell[i] \in {Tab, Cr, Lf, Quote}
    THEN <<Quote>> \o FoldLeft(LAMBDA t, u : t \o (IF u = Quote THEN <<Quote, Quote>> ELSE <<u>>),
                               <<>>, cell) \o <<Quote>>
    ELSE cell

joinedBy(parts, separator) ==
    FoldLeftDomain(LAMBDA t, i : t \o (IF i = 1 THEN <<>> ELSE separator) \o parts[i], <<>>, parts)

serializedText(grid) ==
    joinedBy([i \in DOMAIN grid |->
                joinedBy([j \in DOMAIN grid[i] |-> escapeClipboardTsvCell(grid[i][j])], <<Tab>>)],
             <<Cr, Lf>>)

TextInit ==
    /\ copied \in Grids \cup {NoGrid}
    /\ expected = IF copied = NoGrid THEN <<>> ELSE serializedText(copied)
    /\ arrived = <<>>
    /\ feed = [bytes |-> 0, pendingHigh |-> FALSE, tsv |-> newParser, csv |-> newParser,
               detection |-> [tab |-> FALSE, comma |-> FALSE, start |-> TRUE, quoted |-> FALSE,
                              pendingQuote |-> FALSE]]
    /\ stream = "open"
    /\ outcome = NoOutcome

chunks ==
    IF copied # NoGrid
    THEN {SubSeq(expected, 1, n) : n \in {1, 2} \cap 1..Len(expected)}
    ELSE {c \in {<<u>> : u \in CodeUnits} \cup {<<u, v>> : u, v \in CodeUnits} :
            Len(arrived) + Len(c) <= MaxUnits}

ReadChunk(chunk) ==
    /\ stream = "open"
    /\ arrived' = arrived \o chunk
    /\ expected' = IF copied = NoGrid THEN expected ELSE SubSeq(expected, Len(chunk) + 1, Len(expected))
    /\ feed' = feedCodeUnits(feed, chunk)
    /\ IF feed'.bytes > MaxTextBytes
       THEN stream' = "closed" /\ outcome' = refused("input-too-large")
       ELSE UNCHANGED <<stream, outcome>>
    /\ UNCHANGED copied

StreamEnds ==
    /\ stream = "open" /\ expected = <<>>
    /\ stream' = "drained"
    /\ feed' = IF feed.pendingHigh THEN [feedOne(feed, <<High>>) EXCEPT !.pendingHigh = FALSE]
               ELSE feed
    /\ outcome' = IF feed'.bytes > MaxTextBytes THEN refused("input-too-large") ELSE streamResult(feed')
    /\ UNCHANGED <<copied, expected, arrived>>

StreamFails ==
    /\ stream = "open"
    /\ stream' = "failed"
    /\ outcome' = refused("malformed")
    /\ UNCHANGED <<copied, expected, arrived, feed>>

StreamAborted ==
    /\ stream = "open"
    /\ stream' = "aborted"
    /\ UNCHANGED <<copied, expected, arrived, feed, outcome>>

TextNext ==
    \/ \E chunk \in chunks : ReadChunk(chunk)
    \/ StreamEnds \/ StreamFails \/ StreamAborted

-----------------------------------------------------------------------------
(* Properties.                                                             *)

(* However a text is cut into chunks, reading it as a stream gives what    *)
(* parsing the whole of it gives: the same format and the same cells, or a *)
(* refusal, which may name another reason only where a quote is malformed. *)
(* And what this editor wrote for two columns or more is read back as the  *)
(* same cells unless it exceeds a limit (stream-clipboard.ts:19 with       *)
(* paste.ts:184, and editor.ts:17358).                                     *)
StreamParsesTheSame ==
    stream \in {"drained", "closed"} =>
        /\ \E whole \in {parseClipboardText(arrived)} :
              /\ outcome.ok = whole.ok
              /\ outcome.ok => outcome = whole
              /\ ~outcome.ok => outcome.reason = whole.reason \/ whole.reason = "malformed"
        /\ copied # NoGrid /\ Len(copied[1]) >= 2 =>
              /\ outcome.ok => outcome.rows = copied
              /\ ~outcome.ok => outcome.reason # "malformed"

=============================================================================
