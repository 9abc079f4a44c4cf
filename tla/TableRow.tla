------------------------------ MODULE TableRow ------------------------------
(***************************************************************************)
(* A row of a `table`, cut into cells (extractTableRowCells, transpile_    *)
(* data.go:350-458).  The parser has found the expressions of the row; the *)
(* transpiler does not use them but cuts the text again, rune by rune, at  *)
(* every bar that stands outside quotes and brackets.  Blanks are left     *)
(* out, and any rune not named here means nothing to the scanner.          *)
(***************************************************************************)
EXTENDS Integers, Sequences, SequencesExt

CONSTANTS
  RowsWritten,  \* sequences of cells, each a sequence of runes
  GoReading     \* GoReading[c][n]: what n runes of the cell c leave open in Go

VARIABLES
  written,  \* the cells an author has written, <<>> before
  column,   \* the cell the scanner is in; 0 before the row's first bar
  rune,     \* the rune of it that comes next; the last is its closing bar
  cell,     \* current
  cells,    \* the cells cut so far
  depth,    \* how many brackets of a kind are open
  quote,    \* the quote that is open, or "none"
  escaped,  \* the last rune was a backslash within quotes
  cutting   \* "idle", "scan" or "cut"

rowVars == <<written, column, rune, cell, cells, depth, quote, escaped, cutting>>

Bar == "|"
Backslash == "\\"
Interpreted == {"'", "\""}   \* inSingle, inDouble
Tick == "tick"             \* the backquote
Opening == {"(", "[", "{"}
Closing == {")", "]", "}"}
Opener(r) == CASE r = ")" -> "(" [] r = "]" -> "[" [] r = "}" -> "{"

-----------------------------------------------------------------------------
(* The cells are Go expressions.  In Go a quote ends where it began,       *)
(* brackets close in the order they were opened, and the parser has found  *)
(* no bar outside both.                                                    *)
StillOpen(q, e, bs) == [quote |-> q, escaped |-> e, brackets |-> bs]
Nothing == StillOpen("none", FALSE, <<>>)

GoesOn(now, r, after) ==
  LET bare == ~now.escaped /\ now.quote = "none"
  IN \/ now.escaped /\ after = [now EXCEPT !.escaped = FALSE]
     \/ /\ ~now.escaped /\ now.quote # "none"
        /\ after = StillOpen(IF r = now.quote THEN "none" ELSE now.quote,
                             r = Backslash /\ now.quote # Tick, now.brackets)
     \/ bare /\ r \in Interpreted \union {Tick} /\ after = [now EXCEPT !.quote = r]
     \/ bare /\ r \in Opening /\ after = [now EXCEPT !.brackets = Append(now.brackets, r)]
     \/ /\ bare /\ r \in Closing /\ now.brackets # <<>> /\ Last(now.brackets) = Opener(r)
        /\ after = [now EXCEPT !.brackets = Front(now.brackets)]
     \/ /\ bare /\ r \notin Interpreted \union {Tick} \union Opening \union Closing
        /\ (r = Bar => now.brackets # <<>>) /\ after = now

IsExpression(c) ==
  /\ c \in Seq(STRING) /\ c # <<>>
  /\ GoReading[c][0] = Nothing /\ GoReading[c][Len(c)] = Nothing
  /\ \A n \in DOMAIN c : GoesOn(GoReading[c][n - 1], c[n], GoReading[c][n])

ASSUME TableRowAssumption ==
  /\ RowsWritten \subseteq Seq(DOMAIN GoReading)
  /\ \A c \in DOMAIN GoReading : IsExpression(c)

-----------------------------------------------------------------------------
RowInit ==
  /\ written = <<>> /\ column = 0 /\ rune = 1 /\ cell = <<>> /\ cells = <<>>
  /\ depth = [b \in Opening |-> 0] /\ quote = "none" /\ escaped = FALSE
  /\ cutting = "idle"

(* table_row: a bar, then each cell and a bar. *)
RunesOf(c) == IF c = 0 THEN <<>> ELSE written[c]
AtBar == rune \notin DOMAIN RunesOf(column)
ThisRune == IF AtBar THEN Bar ELSE RunesOf(column)[rune]
Scanning == cutting = "scan" /\ column <= Len(written)
StepOver ==
  /\ column' = IF AtBar THEN column + 1 ELSE column
  /\ rune' = IF AtBar THEN 1 ELSE rune + 1

StartRow ==
  /\ cutting = "idle"
  /\ written' \in RowsWritten
  /\ cutting' = "scan"
  /\ UNCHANGED <<column, rune, cell, cells, depth, quote, escaped>>

Flushed == IF cell = <<>> THEN cells ELSE Append(cells, cell)

(* Every rune but a cutting bar goes to the current cell. *)
Take == cell' = Append(cell, ThisRune) /\ StepOver /\ UNCHANGED <<written, cells, cutting>>

TakeEscaped ==
  /\ Scanning /\ escaped
  /\ Take
  /\ escaped' = FALSE
  /\ UNCHANGED <<depth, quote>>

(* Mutant: a backslash means nothing within quotes. *)
TakeQuotedPlainly ==
  /\ Scanning /\ ~escaped /\ quote \in Interpreted
  /\ Take
  /\ quote' = IF ThisRune = quote THEN "none" ELSE quote
  /\ UNCHANGED <<depth, escaped>>

TakeQuoted ==
  /\ Scanning /\ ~escaped /\ quote \in Interpreted
  /\ Take
  /\ escaped' = (ThisRune = Backslash)
  /\ quote' = IF ThisRune = quote THEN "none" ELSE quote
  /\ UNCHANGED depth

TakeRaw ==
  /\ Scanning /\ ~escaped /\ quote = Tick
  /\ Take
  /\ quote' = IF ThisRune = Tick THEN "none" ELSE quote
  /\ UNCHANGED <<depth, escaped>>

Bare == Scanning /\ ~escaped /\ quote = "none"
Outside == \A b \in Opening : depth[b] = 0

TakeBare ==
  /\ Bare
  /\ ~(ThisRune = Bar /\ Outside)
  /\ Take
  /\ quote' = IF ThisRune \in Interpreted \union {Tick} THEN ThisRune ELSE quote
  /\ depth' = CASE ThisRune \in Opening -> [depth EXCEPT ![ThisRune] = @ + 1]
                [] ThisRune \in Closing /\ depth[Opener(ThisRune)] > 0 ->
                     [depth EXCEPT ![Opener(ThisRune)] = @ - 1]
                [] OTHER -> depth
  /\ UNCHANGED escaped

Cut ==
  /\ Bare
  /\ ThisRune = Bar /\ Outside
  /\ cells' = Flushed /\ cell' = <<>>
  /\ StepOver
  /\ UNCHANGED <<written, depth, quote, escaped, cutting>>

EndOfRow ==
  /\ cutting = "scan" /\ ~Scanning
  /\ cells' = Flushed /\ cell' = <<>>
  /\ cutting' = "cut"
  /\ UNCHANGED <<written, column, rune, depth, quote, escaped>>

RowNext ==
  StartRow \/ TakeEscaped \/ TakeQuoted \/ TakeRaw \/ TakeBare \/ Cut \/ EndOfRow

RowSpec == RowInit /\ [][RowNext]_rowVars

-----------------------------------------------------------------------------
(* The cells that come out are the cells written, in order and untouched,  *)
(* whatever bars, brackets and quotes stand within their quotes, and       *)
(* whatever bars within their brackets.  (A bar outside both, as the       *)
(* operators | and || are, is a cut: no cell of RowsWritten has one.)      *)
CellsComeBack == cutting = "cut" => cells = written
=============================================================================
