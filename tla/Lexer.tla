-------------------------------- MODULE Lexer --------------------------------
(***************************************************************************)
(* hcl/lexer.py, token by token.  A text is a sequence of symbols: a       *)
(* punctuation character, a blank, a line end, or a word, which stands for *)
(* a run of letters or digits.  The four or eight hexadecimal digits of a  *)
(* unicode escape are one word.  A literal inside a template is read piece *)
(* by piece, so that its escapes are steps of their own.                   *)
(***************************************************************************)
EXTENDS Integers, Sequences

CONSTANTS
    Letters,     \* the words that can start an identifier
    Digits,      \* the words that can start a number
    Escapable,   \* what may follow a backslash
    CodePoints,  \* the words that are code points of the right width ...
    BeyondLast,  \* ... and those that lie beyond the last one
    Texts,       \* the files
    MaxStall     \* _MAX_TOKENS_WITHOUT_PROGRESS

\* What is read behind the last symbol.
Nothing == "nothing"

ASSUME TextsAssumption ==
    \A t \in Texts : t \in Seq(STRING) /\ \A k \in DOMAIN t : t[k] # Nothing
ASSUME WordsAssumption ==
    Nothing \notin Letters \cup Digits \cup Escapable \cup CodePoints \cup BeyondLast
ASSUME StallAssumption == MaxStall \in Nat /\ MaxStall >= 2

Quote == "quote"
Line  == "newline"
Back  == "backslash"
Blank == " "

Words == Letters \cup Digits \cup {"-"}

ThreeCharOps == {<<".", ".", ".">>}
TwoCharOps   == {<<"=", "=">>, <<"!", "=">>, <<"<", "=">>, <<">", "=">>, <<"&", "&">>,
                 <<"|", "|">>, <<"=", ">">>, <<":", ":">>}
OneCharOps   == {"{", "}", "[", "]", "(", ")", ",", ".", ":", "?", "=", "+", "-", "*", "/",
                 "%", "!", "<", ">"}

VARIABLES
    text,        \* the file
    at,          \* the position of the next symbol
    stack,       \* the frames, outermost first
    depth,       \* _bracket_depth
    tokens,      \* [type, first, next, text]
    errors,      \* whether a diagnostic was raised
    last,        \* where the last token ended
    stalled,     \* tokens_without_progress
    open,        \* whether a literal is being read ...
    from,        \* ... since which position
    buffer,      \* ... and its text so far, escapes resolved
    lexer        \* "lexing", "done", "stuck" or "crashed"

vars == <<text, at, stack, depth, tokens, errors, last, stalled, open, from, buffer, lexer>>

Frame(mode)  == [mode |-> mode, marker |-> <<>>, dedent |-> 0, braces |-> 0, fresh |-> FALSE]
HeredocFrame(marker, dedent) ==
    [mode |-> "heredoc", marker |-> marker, dedent |-> dedent, braces |-> 0, fresh |-> TRUE]

Top  == stack[Len(stack)]
Push(frame) == stack' = Append(stack, frame)
Pop  == stack' = SubSeq(stack, 1, Len(stack) - 1)
With(frame) == stack' = [stack EXCEPT ![Len(stack)] = frame]

Symbol(k) == IF k \in 1 .. Len(text) THEN text[k] ELSE Nothing
Starts(k, s) == \A n \in 1 .. Len(s) : Symbol(k + n - 1) = s[n]
AtEnd(k) == k > Len(text)

\* The run of symbols of S that starts at k ends before j.
Run(k, j, S) == /\ j \in k .. Len(text) + 1
                /\ \A n \in k .. j - 1 : Symbol(n) \in S
                /\ Symbol(j) \notin S

\* j is the first position from k on at which there is an s, or nothing.
Upto(k, j, s) == /\ j \in k .. Len(text) + 1
                 /\ Starts(j, s) \/ AtEnd(j)
                 /\ \A n \in k .. j - 1 : ~Starts(n, s)

Init ==
    /\ text \in Texts
    /\ at = 1 /\ stack = <<Frame("normal")>> /\ depth = 0
    /\ tokens = <<>> /\ errors = FALSE
    /\ last = 0 /\ stalled = 0
    /\ open = FALSE /\ from = 1 /\ buffer = <<>>
    /\ lexer = "lexing"

-----------------------------------------------------------------------------
(* tokens: what becomes of a token *)

Idle(j) == IF j = last THEN stalled + 1 ELSE 0

\* Too many empty tokens in a row: the lexer is stuck, and the file ends here.
Emit(type, k, j, value) ==
    LET stuck == Idle(j) > MaxStall
    IN  /\ tokens' = Append(tokens, [type |-> IF stuck THEN "EOF" ELSE type,
                                     first |-> k, next |-> j, text |-> value])
        /\ at' = j /\ last' = j /\ stalled' = Idle(j)
        /\ open' = FALSE /\ buffer' = <<>> /\ UNCHANGED <<text, from>>
        /\ lexer' = IF stuck THEN "stuck" ELSE IF type = "EOF" THEN "done" ELSE lexer

\* Mutant: a newline inside brackets is looked at again and again.
PassNothing(j) ==
    /\ j > at
    /\ UNCHANGED <<text, at, tokens, last, stalled, open, from, buffer, lexer>>

\* A newline inside brackets leaves no token; neither does a comment, which is
\* counted as progress all the same.
Pass(j) == /\ at' = j /\ UNCHANGED <<text, tokens, last, stalled, open, from, buffer, lexer>>
Omit(j) == /\ at' = j /\ last' = j /\ stalled' = 0
           /\ UNCHANGED <<text, tokens, open, from, buffer, lexer>>

Raise == errors' = TRUE
Fine  == UNCHANGED errors

Reads(mode) == lexer = "lexing" /\ Top.mode = mode

\* Blanks are skipped up to k.
InCode(k) == lexer = "lexing" /\ Top.mode \in {"normal", "interp"} /\ Run(at, k, {Blank})

Raw(k, j) == SubSeq(text, k, j - 1)

-----------------------------------------------------------------------------
(* _next_normal_token *)

EndOfFile(k) ==
    /\ InCode(k) /\ AtEnd(k)
    /\ Emit("EOF", k, k, <<>>)
    /\ UNCHANGED <<stack, depth>> /\ Fine

\* Inside brackets a newline is whitespace.
NewLine(k) ==
    /\ InCode(k) /\ Symbol(k) = Line
    /\ IF depth > 0 THEN Pass(k + 1) ELSE Emit("NEWLINE", k, k + 1, <<>>)
    /\ UNCHANGED <<stack, depth>> /\ Fine

LineComment(k, j) ==
    /\ InCode(k) /\ (Symbol(k) = "#" \/ Starts(k, <<"/", "/">>))
    /\ Upto(k, j, <<Line>>)
    /\ Omit(j)
    /\ UNCHANGED <<stack, depth>> /\ Fine

BlockComment(k, j) ==
    /\ InCode(k) /\ Starts(k, <<"/", "*">>)
    /\ Upto(k + 2, j, <<"*", "/">>)
    /\ IF AtEnd(j) THEN Omit(j) /\ Raise ELSE Omit(j + 2) /\ Fine
    /\ UNCHANGED <<stack, depth>>

OpenQuote(k) ==
    /\ InCode(k) /\ Symbol(k) = Quote
    /\ Emit("OQUOTE", k, k + 1, <<>>)
    /\ Push(Frame("template"))
    /\ UNCHANGED depth /\ Fine

Number(k, j) ==
    /\ InCode(k) /\ Symbol(k) \in Digits
    /\ \E n \in k + 1 .. Len(text) + 1 :
          /\ Run(k, n, Digits)
          /\ IF Symbol(n) = "." /\ Symbol(n + 1) \in Digits THEN Run(n + 1, j, Digits) ELSE j = n
    /\ Emit("NUMBER", k, j, Raw(k, j))
    /\ UNCHANGED <<stack, depth>> /\ Fine

Ident(k, j) ==
    /\ InCode(k) /\ Symbol(k) \in Letters
    /\ Run(k + 1, j, Words)
    /\ Emit("IDENT", k, j, Raw(k, j))
    /\ UNCHANGED <<stack, depth>> /\ Fine

Comment(k) == Symbol(k) = "#" \/ Starts(k, <<"/", "/">>) \/ Starts(k, <<"/", "*">>)

InOperator(k) ==
    /\ InCode(k) /\ ~AtEnd(k) /\ ~Comment(k) /\ ~Starts(k, <<"<", "<">>)
    /\ Symbol(k) \notin {Line, Quote} \cup Letters \cup Digits

LongOperator(k, op) ==
    /\ InOperator(k) /\ Starts(k, op)
    /\ \/ op \in ThreeCharOps
       \/ op \in TwoCharOps /\ ~ \E longer \in ThreeCharOps : Starts(k, longer)
    /\ Emit("OPERATOR", k, k + Len(op), op)
    /\ UNCHANGED <<stack, depth>> /\ Fine

Single(k) == InOperator(k) /\ ~ \E op \in ThreeCharOps \cup TwoCharOps : Starts(k, op)

Less(n) == IF n > 0 THEN n - 1 ELSE 0

\* Brackets are counted across the whole stream, braces by interpolation.
OpenBracket(k) ==
    /\ Single(k) /\ Symbol(k) \in {"(", "["}
    /\ Emit("OPERATOR", k, k + 1, <<Symbol(k)>>)
    /\ depth' = depth + 1
    /\ UNCHANGED stack /\ Fine

CloseBracket(k) ==
    /\ Single(k) /\ Symbol(k) \in {")", "]"}
    /\ Emit("OPERATOR", k, k + 1, <<Symbol(k)>>)
    /\ depth' = Less(depth)
    /\ UNCHANGED stack /\ Fine

OpenBrace(k) ==
    /\ Single(k) /\ Symbol(k) = "{"
    /\ Emit("OPERATOR", k, k + 1, <<"{">>)
    /\ IF Top.mode = "interp" THEN With([Top EXCEPT !.braces = @ + 1]) ELSE UNCHANGED stack
    /\ UNCHANGED depth /\ Fine

\* Mutant: a closing brace pops whatever frame there is.
CloseAnyFrame(k) ==
    /\ Single(k) /\ Symbol(k) = "}"
    /\ Emit("SEQ_END", k, k + 1, <<>>) /\ Pop /\ depth' = Less(depth)
    /\ Fine

\* _close_brace.
CloseBrace(k) ==
    /\ Single(k) /\ Symbol(k) = "}"
    /\ IF Top.mode = "interp" /\ Top.braces = 0
       THEN Emit("SEQ_END", k, k + 1, <<>>) /\ Pop /\ depth' = Less(depth)
       ELSE /\ Emit("OPERATOR", k, k + 1, <<"}">>)
            /\ IF Top.mode = "interp" THEN With([Top EXCEPT !.braces = @ - 1])
                                      ELSE UNCHANGED stack
            /\ UNCHANGED depth
    /\ Fine

Punctuation(k) ==
    /\ Single(k) /\ Symbol(k) \in OneCharOps \ {"(", "[", ")", "]", "{", "}"}
    /\ Emit("OPERATOR", k, k + 1, <<Symbol(k)>>)
    /\ UNCHANGED <<stack, depth>> /\ Fine

InvalidCharacter(k) ==
    /\ Single(k) /\ Symbol(k) \notin OneCharOps
    /\ Emit("INVALID", k, k + 1, <<>>)
    /\ UNCHANGED <<stack, depth>> /\ Raise

-----------------------------------------------------------------------------
(* Interpolations and directives, in quoted templates and heredocs *)

Introducers == {<<"$", "{">>, <<"%", "{">>}
Doubled     == {<<"$", "$", "{">>, <<"%", "%", "{">>}

Introduced(k) == \E s \in Introducers : Starts(k, s)

OpenSequence(mode) ==
    /\ Reads(mode) /\ Introduced(at)
    /\ buffer = <<>>
    /\ IF mode = "template" THEN ~open ELSE ~Top.fresh
    /\ Emit(IF Symbol(at) = "$" THEN "INTERP" ELSE "CONTROL", at, at + 2, <<>>)
    /\ depth' = depth + 1
    /\ Push(Frame("interp"))
    /\ Fine

\* Mutant: the start of the literal is not taken anew.
PieceOfTheFirst(j, value) ==
    /\ at' = j
    /\ buffer' = buffer \o value
    /\ open' = TRUE /\ UNCHANGED from
    /\ UNCHANGED <<text, tokens, last, stalled>>

\* A piece of a literal: one symbol, or an escape.
Piece(j, value) ==
    /\ at' = j
    /\ buffer' = buffer \o value
    /\ open' = TRUE /\ from' = IF open THEN from ELSE at
    /\ UNCHANGED <<text, tokens, last, stalled>>

DoubledPiece ==
    /\ \E s \in Doubled : Starts(at, s)
    /\ Piece(at + 3, <<Symbol(at), "{">>)
    /\ Fine /\ UNCHANGED lexer

-----------------------------------------------------------------------------
(* _next_template_token *)

Stops == AtEnd(at) \/ Symbol(at) \in {Quote, Line} \/ Introduced(at)

TemplateLiteral ==
    /\ Reads("template") /\ open /\ Stops
    /\ Emit("LITERAL", from, at, buffer)
    /\ UNCHANGED <<stack, depth>> /\ Fine

\* Mutant: the string that runs into the end of its line stays open.
CloseQuoteOnly ==
    /\ Reads("template") /\ ~open /\ (AtEnd(at) \/ Symbol(at) \in {Quote, Line})
    /\ IF Symbol(at) = Quote THEN Emit("CQUOTE", at, at + 1, <<>>) /\ Pop /\ Fine
       ELSE IF AtEnd(at) THEN Emit("CQUOTE", at, at, <<>>) /\ Pop /\ Raise
       ELSE Emit("LITERAL", at, at, <<>>) /\ UNCHANGED stack /\ Raise
    /\ UNCHANGED depth

\* A string ends at its quote, or with an error at the end of its line.
CloseQuote ==
    /\ Reads("template") /\ ~open /\ (AtEnd(at) \/ Symbol(at) \in {Quote, Line})
    /\ IF Symbol(at) = Quote THEN Emit("CQUOTE", at, at + 1, <<>>) /\ Fine
                             ELSE Emit("CQUOTE", at, at, <<>>) /\ Raise
    /\ Pop
    /\ UNCHANGED depth

Plain == ~Stops /\ ~ \E s \in Doubled : Starts(at, s)

TemplatePiece ==
    /\ Reads("template") /\ ~Stops
    /\ \/ DoubledPiece
       \/ Plain /\ Symbol(at) # Back /\ Piece(at + 1, <<Symbol(at)>>) /\ Fine /\ UNCHANGED lexer
    /\ UNCHANGED <<stack, depth>>

\* _scan_escape and _scan_unicode_escape: a code point beyond the last one
\* raises an exception nobody catches.
Escape ==
    /\ Reads("template") /\ Plain /\ Symbol(at) = Back
    /\ LET next == Symbol(at + 1) IN
       \/ AtEnd(at + 1) /\ Piece(at + 1, <<>>) /\ Raise /\ UNCHANGED lexer
       \/ next \in Escapable /\ Piece(at + 2, <<Back, next>>) /\ Fine /\ UNCHANGED lexer
       \/ /\ next \in {"u", "U"}
          /\ IF Symbol(at + 2) \in CodePoints
             THEN Piece(at + 3, <<Symbol(at + 2)>>) /\ Fine /\ UNCHANGED lexer
             ELSE IF Symbol(at + 2) \in BeyondLast
             THEN Piece(at + 3, <<>>) /\ Fine /\ lexer' = "crashed"
             ELSE Piece(at + 2, <<>>) /\ Raise /\ UNCHANGED lexer
       \/ /\ ~AtEnd(at + 1) /\ next \notin Escapable \cup {"u", "U"}
          /\ Piece(at + 2, <<next>>) /\ Raise /\ UNCHANGED lexer
    /\ UNCHANGED <<stack, depth>>

-----------------------------------------------------------------------------
(* Heredocs: _scan_heredoc_open and _next_heredoc_token *)

LineStarts(k) == {k} \cup {n + 1 : n \in {m \in k .. Len(text) : text[m] = Line}}

\* line.strip() == marker, for the line that starts at k and ends before j.
OnlyMarker(k, j, marker) ==
    /\ Upto(k, j, <<Line>>)
    /\ \E n \in k .. j : /\ Run(k, n, {Blank})
                         /\ n + Len(marker) <= j /\ Raw(n, n + Len(marker)) = marker
                         /\ \A m \in n + Len(marker) .. j - 1 : text[m] = Blank

\* _lookahead_dedent: the least indentation of the lines before the marker.
Dedent(k, marker) ==
    LET Before(n) == ~ \E m \in LineStarts(k) : m <= n /\ \E j \in m .. Len(text) + 1 :
                           OnlyMarker(m, j, marker)
        indents == {d \in 0 .. Len(text) :
                       \E n \in LineStarts(k) :
                           /\ Before(n) /\ Run(n, n + d, {Blank})
                           /\ Symbol(n + d) \notin {Line, Nothing}}
        least == {d \in indents : \A e \in indents : d <= e}
    IN  IF least = {} THEN 0 ELSE CHOOSE d \in least : TRUE

OpenHeredoc(k, n, j) ==
    LET dash   == Symbol(k + 2) = "-"
        word   == IF dash THEN k + 3 ELSE k + 2
        marker == Raw(word, n)
    IN  /\ InCode(k) /\ Starts(k, <<"<", "<">>)
        /\ Run(word, n, Words)
        /\ IF n = word
           THEN /\ j = n /\ Emit("INVALID", k, n, <<>>) /\ UNCHANGED stack /\ Raise
           ELSE /\ Upto(n, j, <<Line>>)
                /\ LET body == IF AtEnd(j) THEN j ELSE j + 1 IN
                   /\ Emit("OHEREDOC", k, body, marker)
                   /\ Push(HeredocFrame(marker, IF dash THEN Dedent(body, marker) ELSE 0))
                /\ Fine
        /\ UNCHANGED depth

\* Mutant: the frame of a heredoc the file cuts off stays.
HeredocLeftOpen ==
    /\ Reads("heredoc") /\ ~open /\ AtEnd(at)
    /\ Emit("CHEREDOC", at, at, <<>>)
    /\ UNCHANGED <<stack, depth>> /\ Raise

HeredocUnterminated ==
    /\ Reads("heredoc") /\ ~open /\ AtEnd(at)
    /\ Emit("CHEREDOC", at, at, <<>>)
    /\ Pop /\ Raise
    /\ UNCHANGED depth

InHeredoc == Reads("heredoc") /\ ~AtEnd(at)

CloseHeredoc(j) ==
    /\ InHeredoc /\ ~open /\ Top.fresh
    /\ OnlyMarker(at, j, Top.marker)
    /\ Emit("CHEREDOC", at, j, <<>>)
    /\ Pop /\ Fine
    /\ UNCHANGED depth

\* The indentation the dedent strips is consumed and belongs to no token.
HeredocLine(j) ==
    /\ InHeredoc /\ ~open /\ Top.fresh
    /\ ~ \E n \in at .. Len(text) + 1 : OnlyMarker(at, n, Top.marker)
    /\ j \in at .. at + Top.dedent
    /\ \A n \in at .. j - 1 : Symbol(n) = Blank
    /\ j = at + Top.dedent \/ Symbol(j) # Blank
    /\ at' = j /\ from' = j /\ open' = TRUE /\ buffer' = <<>>
    /\ With([Top EXCEPT !.fresh = FALSE])
    /\ UNCHANGED <<text, tokens, last, stalled, lexer, depth>> /\ Fine

HeredocPiece ==
    /\ InHeredoc /\ ~Top.fresh /\ ~Introduced(at)
    /\ IF \E s \in Doubled : Starts(at, s) THEN DoubledPiece /\ UNCHANGED <<stack, depth>>
       ELSE /\ Symbol(at) # Line
            /\ Piece(at + 1, <<Symbol(at)>>)
            /\ Fine /\ UNCHANGED <<stack, depth, lexer>>

\* A literal ends with its line, at an interpolation, or with the file.
HeredocLiteral ==
    /\ Reads("heredoc") /\ ~Top.fresh
    /\ \/ /\ Symbol(at) = Line
          /\ Emit("LITERAL", IF open THEN from ELSE at, at + 1, Append(buffer, Line))
          /\ With([Top EXCEPT !.fresh = TRUE])
       \/ /\ open /\ (AtEnd(at) \/ (Introduced(at) /\ buffer # <<>>))
          /\ Emit("LITERAL", from, at, buffer)
          /\ UNCHANGED stack
    /\ UNCHANGED depth /\ Fine

-----------------------------------------------------------------------------
InCodeStep(k) ==
    /\ InCode(k)
    /\ \/ EndOfFile(k) \/ NewLine(k) \/ OpenQuote(k)
       \/ \E op \in ThreeCharOps \cup TwoCharOps : LongOperator(k, op)
       \/ OpenBracket(k) \/ CloseBracket(k) \/ OpenBrace(k) \/ CloseBrace(k)
       \/ Punctuation(k) \/ InvalidCharacter(k)
       \/ \E j \in k .. Len(text) + 1 :
             LineComment(k, j) \/ BlockComment(k, j) \/ Number(k, j) \/ Ident(k, j)
       \/ Starts(k, <<"<", "<">>) /\ \E n, j \in k .. Len(text) + 1 : OpenHeredoc(k, n, j)

InTemplateStep ==
    \/ OpenSequence("template") \/ TemplateLiteral \/ CloseQuote \/ TemplatePiece \/ Escape

InHeredocStep ==
    \/ OpenSequence("heredoc") \/ HeredocUnterminated \/ HeredocPiece \/ HeredocLiteral
    \/ \E j \in at .. Len(text) + 1 : CloseHeredoc(j) \/ HeredocLine(j)

NextToken ==
    \/ \E k \in at .. Len(text) + 1 : InCodeStep(k)
    \/ InTemplateStep \/ InHeredocStep

Spec == Init /\ [][NextToken]_vars /\ WF_vars(NextToken)

-----------------------------------------------------------------------------
(* Properties *)

\* A token is made of symbols of the file, and so is a marker.
Alphabet == {text[k] : k \in DOMAIN text}

TokenTypes == {"EOF", "NEWLINE", "OQUOTE", "CQUOTE", "OHEREDOC", "CHEREDOC", "LITERAL", "INTERP",
               "CONTROL", "SEQ_END", "NUMBER", "IDENT", "OPERATOR", "INVALID"}

Frames == [mode : {"normal", "template", "heredoc", "interp"}, marker : Seq(Alphabet),
           dedent : Nat, braces : Nat, fresh : BOOLEAN]

TokenSet == [type : TokenTypes, first : Nat, next : Nat, text : Seq(Alphabet)]

(***************************************************************************)
(* The lexer stays within its file and its brackets never count below zero.*)
(***************************************************************************)
TypeOK ==
    /\ text \in Seq(Alphabet) /\ at \in 1 .. Len(text) + 1
    /\ stack \in Seq(Frames) /\ depth \in Nat
    /\ tokens \in Seq(TokenSet) /\ errors \in BOOLEAN
    /\ last \in 0 .. Len(text) + 1 /\ stalled \in Nat
    /\ open \in BOOLEAN /\ from \in 1 .. Len(text) + 1 /\ buffer \in Seq(Alphabet)
    /\ lexer \in {"lexing", "done", "stuck", "crashed"}

(***************************************************************************)
(* The frames nest: code, a string or heredoc in it, an interpolation in   *)
(* that, and so on.  The outermost frame is never popped.                  *)
(***************************************************************************)
Quotation == {"template", "heredoc"}

Nested ==
    /\ stack # <<>> /\ stack[1].mode = "normal"
    /\ \A k \in 2 .. Len(stack) :
          stack[k].mode \in IF stack[k - 1].mode \in Quotation THEN {"interp"} ELSE Quotation

(***************************************************************************)
(* "A stuck lexer would hang the scan until the CI job times out"          *)
(* (lexer.py:175): the limit on tokens without progress that stands guard  *)
(* against it never ends a file, however deeply the file nests.            *)
(***************************************************************************)
NeverStuck == lexer # "stuck"

(***************************************************************************)
(* The tokens follow one another: none starts before the one before it     *)
(* ended, so that ranges can slice the source (lexer.py:103).              *)
(***************************************************************************)
TokensInOrder ==
    \A k \in DOMAIN tokens : /\ tokens[k].first <= tokens[k].next
                             /\ tokens[k].next <= at
                             /\ k > 1 => tokens[k - 1].next <= tokens[k].first

(***************************************************************************)
(* No step goes back, and one that does not move on completes a literal,   *)
(* pops a frame, starts a line of a heredoc, or ends the file.             *)
(***************************************************************************)
EveryStepAdvances ==
    [][at' > at \/ (at' = at /\ (\/ open /\ ~open'
                                 \/ Len(stack') < Len(stack)
                                 \/ Top.fresh /\ ~stack'[Len(stack')].fresh
                                 \/ lexer' # "lexing"))]_vars
=============================================================================
