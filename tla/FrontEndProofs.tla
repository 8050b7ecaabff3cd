---------------------------- MODULE FrontEndProofs ---------------------------
(***************************************************************************)
(* The front end.  The lexer reads every text without going back, keeps    *)
(* its frames nested, and never runs into its own limit on tokens without  *)
(* progress; a file it and the parser accept is well bracketed, and the    *)
(* ranges of its arguments leave out the comments; of the expressions in   *)
(* them no value is claimed that a plan would take back, and each found    *)
(* through a reference names it.  Those two rest on theorems about         *)
(* expressions of any shape and depth: what they are worth is kept by more *)
(* knowledge, and depends on nothing but the references they report.       *)
(***************************************************************************)
EXTENDS ParserProofs, Language

(***************************************************************************)
(* The lexer.                                                              *)
(***************************************************************************)

\* A literal has moved on from the last token, or is about to; of two empty
\* tokens in a row the first closes a string or heredoc, so a quotation is
\* never current when one has been emitted.
Progress ==
    /\ last <= at
    /\ open => /\ Top.mode \in Quotation
               /\ at > last \/ (Top.mode = "heredoc" /\ buffer = <<>> /\ ~AtEnd(at))
    /\ lexer # "stuck"
    /\ lexer = "lexing" => /\ stalled <= 1
                           /\ stalled = 1 => Top.mode \in Code

\* The open literal starts behind every token.
Order ==
    /\ TokensInOrder
    /\ open => /\ from <= at
               /\ \A k \in DOMAIN tokens : tokens[k].next <= from

LexerInv == TypeOK /\ Nested /\ Progress /\ Order

LEMMA SameText ==
    ASSUME text' = text
    PROVE  Alphabet' = Alphabet /\ Frames' = Frames /\ TokenSet' = TokenSet
  BY DEF Alphabet, Frames, TokenSet

-----------------------------------------------------------------------------
(* The stack *)

LEMMA MoreThanOne ==
    ASSUME NEW n \in Nat, n >= 1, n # 1
    PROVE  n \in 2 .. n
  OBVIOUS

LEMMA TopIsFrame ==
    ASSUME TypeOK, Nested
    PROVE  Len(stack) \in Nat /\ Len(stack) >= 1 /\ Top \in Frames /\ Top.mode \in Code \cup Quotation
<1>1. Len(stack) \in Nat /\ Len(stack) >= 1
  BY EmptySeq DEF TypeOK, Nested
<1>2. Top \in Frames
  BY <1>1 DEF TypeOK, Top
<1>3. Top.mode \in Code \cup Quotation
  <2>1. CASE Len(stack) = 1
    BY <2>1 DEF Nested, Top, Code
  <2>2. CASE Len(stack) # 1
    <3>1. Len(stack) \in 2 .. Len(stack)
      BY <1>1, <2>2, MoreThanOne
    <3>2. Top.mode \in IF stack[Len(stack) - 1].mode \in Quotation THEN {"interp"} ELSE Quotation
      BY <3>1 DEF Nested, Top
    <3> QED BY <3>2 DEF Code
  <2> QED BY <2>1, <2>2
<1> QED BY <1>1, <1>2, <1>3

LEMMA PushNests ==
    ASSUME TypeOK, Nested, NEW frame \in Frames, Push(frame),
           frame.mode \in IF Top.mode \in Quotation THEN {"interp"} ELSE Quotation
    PROVE  Nested' /\ stack' \in Seq(Frames) /\ Top' = frame
<1>1. Len(stack) \in Nat /\ Len(stack) >= 1 /\ Top \in Frames
  BY TopIsFrame
<1>2. /\ stack' \in Seq(Frames) /\ Len(stack') = Len(stack) + 1
      /\ \A k \in 1 .. Len(stack) : stack'[k] = stack[k]
      /\ stack'[Len(stack) + 1] = frame
  BY <1>1 DEF TypeOK, Push
<1>3. Top' = frame
  BY <1>2 DEF Top
<1>4. stack'[1].mode = "normal" /\ stack' # <<>>
  BY <1>1, <1>2 DEF Nested
<1>5. ASSUME NEW k \in 2 .. Len(stack')
      PROVE  stack'[k].mode \in IF stack'[k - 1].mode \in Quotation THEN {"interp"} ELSE Quotation
  <2>1. CASE k <= Len(stack)
    BY <2>1, <1>1, <1>2 DEF Nested
  <2>2. CASE k = Len(stack) + 1
    BY <2>2, <1>1, <1>2 DEF Top
  <2> QED BY <2>1, <2>2, <1>1, <1>2
<1> QED BY <1>2, <1>3, <1>4, <1>5 DEF Nested

LEMMA PopNests ==
    ASSUME TypeOK, Nested, Top.mode # "normal", Pop
    PROVE  /\ Nested' /\ stack' \in Seq(Frames) /\ Len(stack') < Len(stack)
           /\ Top.mode \in Quotation => Top'.mode \in Code
           /\ Top'.mode \in Code \cup Quotation
<1>1. Len(stack) \in Nat /\ Len(stack) >= 1 /\ Top \in Frames
  BY TopIsFrame
<1>2. Len(stack) >= 2
  BY <1>1 DEF Nested, Top
<1>3. /\ stack' \in Seq(Frames) /\ Len(stack') = Len(stack) - 1
      /\ \A k \in 1 .. Len(stack) - 1 : stack'[k] = stack[k]
  BY <1>1, <1>2 DEF TypeOK, Pop
<1>4. Nested'
  BY <1>1, <1>2, <1>3 DEF Nested
<1>5. Top' = stack[Len(stack) - 1]
  BY <1>2, <1>3 DEF Top
<1>6. Top'.mode \in Code \cup Quotation
  BY <1>3, <1>4 DEF Nested, Top, Code, Quotation
<1>7. Top.mode \in Quotation => Top'.mode \in Code
  BY <1>2, <1>5, <1>6 DEF Nested, Top, Quotation, Code
<1> QED BY <1>3, <1>1, <1>4, <1>6, <1>7

LEMMA WithNests ==
    ASSUME TypeOK, Nested, NEW frame \in Frames, With(frame), frame.mode = Top.mode
    PROVE  Nested' /\ stack' \in Seq(Frames) /\ Top' = frame /\ Len(stack') = Len(stack)
<1>1. Len(stack) \in Nat /\ Len(stack) >= 1 /\ Top \in Frames
  BY TopIsFrame
<1>2. /\ stack' \in Seq(Frames) /\ Len(stack') = Len(stack)
      /\ \A k \in 1 .. Len(stack) - 1 : stack'[k] = stack[k]
      /\ stack'[Len(stack)] = frame
  BY <1>1 DEF TypeOK, With
<1>3. \A k \in 1 .. Len(stack) : stack'[k].mode = stack[k].mode
  BY <1>1, <1>2 DEF Top
<1>4. Top' = frame
  BY <1>2 DEF Top
<1>5. Nested'
  BY <1>1, <1>2, <1>3 DEF Nested
<1> QED BY <1>2, <1>4, <1>5

LEMMA FrameParts ==
    ASSUME NEW f \in Frames
    PROVE  f.braces \in Nat /\ f.dedent \in Nat /\ f.fresh \in BOOLEAN /\ f.marker \in Seq(Alphabet)
  BY DEF Frames

LEMMA FrameUpdates ==
    ASSUME NEW f \in Frames, NEW n \in Nat, NEW b \in BOOLEAN
    PROVE  /\ [f EXCEPT !.braces = n] \in Frames /\ [f EXCEPT !.braces = n].mode = f.mode
           /\ [f EXCEPT !.fresh = b] \in Frames /\ [f EXCEPT !.fresh = b].mode = f.mode
           /\ [f EXCEPT !.fresh = b].fresh = b
<1>1. [f EXCEPT !.braces = n] \in Frames
  BY Zenon DEF Frames
<1>2. [f EXCEPT !.fresh = b] \in Frames
  BY Zenon DEF Frames
<1> QED BY <1>1, <1>2 DEF Frames

-----------------------------------------------------------------------------
(* Reading symbols *)

LEMMA SymbolInText ==
    ASSUME TypeOK, NEW k \in Int, Symbol(k) # Nothing
    PROVE  k \in 1 .. Len(text) /\ Symbol(k) = text[k] /\ Symbol(k) \in Alphabet
<1>1. k \in 1 .. Len(text) /\ Symbol(k) = text[k]
  BY DEF Symbol
<1>2. text \in Seq(Alphabet)
  BY DEF TypeOK
<1>3. text[k] \in Alphabet
  BY <1>1, <1>2, ElementOfSeq
<1> QED BY <1>1, <1>3

LEMMA StartsWithOne ==
    ASSUME NEW k \in Int, NEW a
    PROVE  Starts(k, <<a>>) <=> Symbol(k) = a
<1>1. Starts(k, <<a>>) <=> \A n \in {1} : Symbol(k + n - 1) = <<a>>[n]
  BY DEF Starts
<1> QED BY <1>1

LEMMA StartsWithTwo ==
    ASSUME NEW k \in Int, NEW a, NEW b
    PROVE  Starts(k, <<a, b>>) <=> Symbol(k) = a /\ Symbol(k + 1) = b
<1>1. Starts(k, <<a, b>>) <=> \A n \in {1, 2} : Symbol(k + n - 1) = <<a, b>>[n]
  BY DEF Starts
<1> QED BY <1>1

LEMMA StartsWithThree ==
    ASSUME NEW k \in Int, NEW a, NEW b, NEW c
    PROVE  Starts(k, <<a, b, c>>) <=> Symbol(k) = a /\ Symbol(k + 1) = b /\ Symbol(k + 2) = c
<1>1. Starts(k, <<a, b, c>>) <=> \A n \in {1, 2, 3} : Symbol(k + n - 1) = <<a, b, c>>[n]
  BY DEF Starts
<1> QED BY <1>1

\* What the text starts with at k is made of its symbols.
LEMMA TwoInText ==
    ASSUME TypeOK, NEW k \in Int, NEW a, NEW b, a # Nothing, b # Nothing, Starts(k, <<a, b>>)
    PROVE  /\ k \in 1 .. Len(text) /\ k + 2 \in k + 1 .. Len(text) + 1
           /\ a \in Alphabet /\ b \in Alphabet /\ <<a, b>> \in Seq(Alphabet)
<1>1. Symbol(k) = a /\ Symbol(k + 1) = b /\ k + 1 \in Int /\ Len(text) \in Nat
  BY StartsWithTwo DEF TypeOK
<1>2. k \in 1 .. Len(text) /\ a \in Alphabet
  BY <1>1, SymbolInText
<1>3. k + 1 \in 1 .. Len(text) /\ b \in Alphabet
  BY <1>1, SymbolInText
<1> QED BY <1>1, <1>2, <1>3

LEMMA ThreeInText ==
    ASSUME TypeOK, NEW k \in Int, NEW a, NEW b, NEW c, a # Nothing, b # Nothing, c # Nothing,
           Starts(k, <<a, b, c>>)
    PROVE  /\ k \in 1 .. Len(text) /\ k + 3 \in k + 1 .. Len(text) + 1
           /\ <<a, b, c>> \in Seq(Alphabet) /\ <<b, c>> \in Seq(Alphabet)
<1>1. /\ Symbol(k) = a /\ Symbol(k + 1) = b /\ Symbol(k + 2) = c
      /\ k + 1 \in Int /\ k + 2 \in Int /\ Len(text) \in Nat
  BY StartsWithThree DEF TypeOK
<1>2. k \in 1 .. Len(text) /\ a \in Alphabet
  BY <1>1, SymbolInText
<1>3. b \in Alphabet
  BY <1>1, SymbolInText
<1>4. k + 2 \in 1 .. Len(text) /\ c \in Alphabet
  BY <1>1, SymbolInText
<1> QED BY <1>1, <1>2, <1>3, <1>4

LEMMA RawIsText ==
    ASSUME TypeOK, NEW k \in 1 .. Len(text) + 1, NEW j \in k .. Len(text) + 1
    PROVE  Raw(k, j) \in Seq(Alphabet)
  BY DEF TypeOK, Raw

LEMMA CodeStart ==
    ASSUME LexerInv, NEW k, InCode(k)
    PROVE  /\ lexer = "lexing" /\ Top.mode \in Code /\ ~open
           /\ k \in at .. Len(text) + 1 /\ k \in Int /\ at >= 1 /\ Len(text) \in Nat
  BY DEF LexerInv, TypeOK, Progress, InCode, Run, Code, Quotation

-----------------------------------------------------------------------------
(* The steps of the lexer: what each leaves of the invariant *)

Advance == at' > at \/ (at' = at /\ (\/ open /\ ~open'
                                     \/ Len(stack') < Len(stack)
                                     \/ Top.fresh /\ ~stack'[Len(stack')].fresh
                                     \/ lexer' # "lexing"))

Written ==
    /\ text' = text /\ from' = from /\ open' = FALSE /\ buffer' = <<>>
    /\ at' \in at .. Len(text) + 1 /\ last' = at'
    /\ tokens' \in Seq(TokenSet) /\ TokensInOrder'
    /\ stalled' \in Nat /\ lexer' \in {"lexing", "done"}
    /\ lexer' = "lexing" => stalled' <= 1 /\ (stalled' = 1 => Top.mode \in Quotation)

\* A token that starts behind the last one keeps the order, and one that is
\* empty is the first in a row unless it closes a quotation.
LEMMA Emitted ==
    ASSUME LexerInv, lexer = "lexing", NEW type \in TokenTypes, NEW value \in Seq(Alphabet),
           NEW j \in at .. Len(text) + 1, NEW k \in 1 .. j,
           k >= at \/ (open /\ k = from),
           j > last \/ type = "EOF" \/ Top.mode \in Quotation,
           Emit(type, k, j, value)
    PROVE  Written /\ at' = j /\ (type = "EOF" => lexer' = "done") /\ (j > last => stalled' = 0)
<1>1. /\ at \in Nat /\ last \in Nat /\ last <= at /\ Len(text) \in Nat /\ j \in Nat /\ k \in Nat
      /\ stalled \in Nat /\ stalled <= 1 /\ (stalled = 1 => Top.mode \in Code)
      /\ MaxStall \in Nat /\ MaxStall >= 2
  BY StallAssumption DEF LexerInv, TypeOK, Progress
<1>2. Idle(j) \in Nat /\ Idle(j) <= 2 /\ ~(Idle(j) > MaxStall) /\ (j > last => Idle(j) = 0)
      /\ (Top.mode \in Quotation => Idle(j) <= 1)
  BY <1>1 DEF Idle, Code, Quotation
<1> DEFINE token == [type |-> type, first |-> k, next |-> j, text |-> value]
<1>3. /\ tokens' = Append(tokens, token) /\ token \in TokenSet
      /\ at' = j /\ last' = j /\ stalled' = Idle(j)
      /\ open' = FALSE /\ buffer' = <<>> /\ text' = text /\ from' = from
      /\ lexer' = IF type = "EOF" THEN "done" ELSE lexer
  BY <1>1, <1>2 DEF Emit, TokenSet
<1>4. tokens \in Seq(TokenSet) /\ Len(tokens) \in Nat
  BY DEF LexerInv, TypeOK
<1>5. /\ tokens' \in Seq(TokenSet) /\ Len(tokens') = Len(tokens) + 1
      /\ tokens'[Len(tokens) + 1] = token
      /\ \A n \in 1 .. Len(tokens) : tokens'[n] = tokens[n]
  BY <1>3, <1>4
<1>6. ASSUME NEW n \in 1 .. Len(tokens)
      PROVE  /\ tokens[n].first \in Nat /\ tokens[n].next \in Nat
             /\ tokens[n].first <= tokens[n].next
             /\ tokens[n].next <= at /\ tokens[n].next <= k
             /\ n > 1 => tokens[n - 1].next <= tokens[n].first
  <2>1. tokens[n] \in TokenSet /\ n \in DOMAIN tokens
    BY <1>4
  <2>2. tokens[n].first \in Nat /\ tokens[n].next \in Nat
    BY <2>1 DEF TokenSet
  <2>3. /\ tokens[n].first <= tokens[n].next /\ tokens[n].next <= at
        /\ n > 1 => tokens[n - 1].next <= tokens[n].first
    BY <2>1 DEF LexerInv, Order, TokensInOrder
  <2>4. tokens[n].next <= k
    BY <2>1, <2>2, <2>3, <1>1 DEF LexerInv, Order
  <2> QED BY <2>2, <2>3, <2>4
<1>7. TokensInOrder'
  <2> SUFFICES ASSUME NEW n \in 1 .. Len(tokens) + 1
               PROVE  /\ tokens'[n].first <= tokens'[n].next
                      /\ tokens'[n].next <= j
                      /\ n > 1 => tokens'[n - 1].next <= tokens'[n].first
    BY <1>3, <1>4, <1>5 DEF TokensInOrder
  <2>1. CASE n \in 1 .. Len(tokens)
    <3> n > 1 => n - 1 \in 1 .. Len(tokens)
      BY <2>1, <1>4
    <3>1. tokens'[n] = tokens[n] /\ (n > 1 => tokens'[n - 1] = tokens[n - 1])
      BY <2>1, <1>5
    <3>2. tokens[n].next <= j
      BY <2>1, <1>1, <1>6
    <3> QED BY <2>1, <3>1, <3>2, <1>6
  <2>2. CASE n = Len(tokens) + 1
    <3>1. tokens'[n] = token
      BY <2>2, <1>5
    <3>2. n > 1 => n - 1 \in 1 .. Len(tokens)
      BY <2>2, <1>4
    <3>3. n > 1 => tokens'[n - 1] = tokens[n - 1] /\ tokens[n - 1].next <= k
      BY <3>2, <1>5, <1>6
    <3>4. tokens'[n].first = k /\ tokens'[n].next = j
      BY <3>1
    <3> QED BY <3>3, <3>4, <1>1
  <2> QED BY <2>1, <2>2, <1>4
<1>8. lexer' = "lexing" => stalled' <= 1 /\ (stalled' = 1 => Top.mode \in Quotation)
  BY <1>1, <1>2, <1>3
<1> QED BY <1>1, <1>2, <1>3, <1>5, <1>7, <1>8 DEF Written

\* What is left to show of an action that emits a token.
LEMMA AfterToken ==
    ASSUME LexerInv, Written, stack' \in Seq(Frames), Nested', depth' \in Nat, errors' \in BOOLEAN,
           stalled' = 1 /\ lexer' = "lexing" => Top'.mode \in Code
    PROVE  LexerInv'
<1>1. TypeOK'
  <2>1. text' \in Seq(Alphabet) /\ buffer' \in Seq(Alphabet) /\ tokens' \in Seq(TokenSet)
    BY EmptySeq DEF LexerInv, TypeOK, Written
  <2>2. /\ Len(text') = Len(text) /\ at' \in 1 .. Len(text) + 1 /\ last' \in 0 .. Len(text) + 1
        /\ from' \in 1 .. Len(text) + 1 /\ stalled' \in Nat
    BY DEF LexerInv, TypeOK, Written
  <2>3. open' \in BOOLEAN /\ lexer' \in {"lexing", "done", "stuck", "crashed"}
    BY DEF Written
  <2> QED BY <2>1, <2>2, <2>3, SameText DEF TypeOK, Written
<1>2. Progress'
  BY <1>1 DEF Written, Progress, TypeOK
<1>3. Order'
  BY DEF Written, Order
<1> QED BY <1>1, <1>2, <1>3 DEF LexerInv

\* Whitespace and comments.
LEMMA AfterBlank ==
    ASSUME LexerInv, ~open, NEW j \in at + 1 .. Len(text) + 1, Pass(j) \/ Omit(j),
           UNCHANGED <<stack, depth>>, errors' \in BOOLEAN
    PROVE  LexerInv' /\ Advance
<1>1. /\ text' = text /\ at' = j /\ at' > at /\ tokens' = tokens /\ open' = open /\ from' = from
      /\ buffer' = buffer /\ lexer' = lexer /\ stack' = stack /\ depth' = depth
      /\ Top' = Top /\ last' \in last .. j
      /\ stalled' \in {0, stalled}
  BY DEF Pass, Omit, Top, LexerInv, TypeOK, Progress
<1>2. TypeOK'
  <2>1. text' \in Seq(Alphabet) /\ buffer' \in Seq(Alphabet) /\ tokens' \in Seq(TokenSet)
    BY <1>1 DEF LexerInv, TypeOK
  <2>2. /\ Len(text') = Len(text) /\ at' \in 1 .. Len(text) + 1 /\ last' \in 0 .. Len(text) + 1
        /\ from' \in 1 .. Len(text) + 1 /\ stalled' \in Nat
    BY <1>1 DEF LexerInv, TypeOK
  <2>3. /\ open' \in BOOLEAN /\ lexer' \in {"lexing", "done", "stuck", "crashed"}
        /\ stack' \in Seq(Frames) /\ depth' \in Nat
    BY <1>1 DEF LexerInv, TypeOK
  <2> QED BY <1>1, <2>1, <2>2, <2>3, SameText DEF TypeOK
<1>3. Nested'
  BY <1>1 DEF LexerInv, Nested
<1>4. Progress'
  BY <1>1, <1>2 DEF LexerInv, Progress, TypeOK
<1>5. Order'
  <2>1. ASSUME NEW n \in DOMAIN tokens PROVE tokens[n].next <= at'
    <3>1. tokens[n] \in TokenSet
      BY DEF LexerInv, TypeOK
    <3>2. tokens[n].next \in Nat /\ tokens[n].next <= at
      BY <3>1 DEF TokenSet, LexerInv, Order, TokensInOrder
    <3>3. at \in Nat /\ at' \in Nat /\ at <= at'
      BY <1>1 DEF LexerInv, TypeOK
    <3> QED BY <3>2, <3>3
  <2> QED BY <2>1, <1>1 DEF LexerInv, Order, TokensInOrder
<1> QED BY <1>1, <1>2, <1>3, <1>4, <1>5 DEF LexerInv, Advance

\* A literal grows, in a quotation and past what it held.
LEMMA AfterPiece ==
    ASSUME LexerInv, lexer = "lexing", Top.mode \in Quotation,
           NEW j \in at + 1 .. Len(text) + 1, NEW value \in Seq(Alphabet), Piece(j, value),
           UNCHANGED <<stack, depth>>, errors' \in BOOLEAN, lexer' \in {lexer, "crashed"}
    PROVE  LexerInv' /\ Advance
<1>1. /\ text' = text /\ at' = j /\ at' > at /\ tokens' = tokens /\ open' = TRUE
      /\ from' = (IF open THEN from ELSE at) /\ buffer' = buffer \o value
      /\ last' = last /\ stalled' = stalled /\ stack' = stack /\ depth' = depth /\ Top' = Top
  BY DEF Piece, Top, LexerInv, TypeOK
<1>2. buffer' \in Seq(Alphabet)
  BY <1>1 DEF LexerInv, TypeOK
<1>3. TypeOK'
  BY <1>1, <1>2, SameText DEF LexerInv, TypeOK
<1>4. Nested'
  BY <1>1 DEF LexerInv, Nested
<1>5. Progress'
  BY <1>1 DEF LexerInv, Progress, TypeOK
<1>6. Order'
  <2>0. at \in Nat /\ at < j /\ j \in Nat /\ from \in Nat
    BY DEF LexerInv, TypeOK
  <2>1. ASSUME NEW n \in DOMAIN tokens PROVE tokens[n].next <= at' /\ tokens[n].next <= from'
    <3>1. tokens[n] \in TokenSet
      BY DEF LexerInv, TypeOK
    <3>2. tokens[n].next \in Nat
      BY <3>1 DEF TokenSet
    <3>3. tokens[n].next <= at /\ (open => tokens[n].next <= from)
      BY DEF LexerInv, Order, TokensInOrder
    <3>4. tokens[n].next <= at'
      BY <1>1, <2>0, <3>2, <3>3
    <3>5. tokens[n].next <= from'
      BY <1>1, <3>3
    <3> QED BY <3>4, <3>5
  <2>2. from' <= at'
    BY <1>1 DEF LexerInv, TypeOK, Order
  <2> QED BY <2>1, <2>2, <1>1 DEF LexerInv, Order, TokensInOrder
<1> QED BY <1>1, <1>3, <1>4, <1>5, <1>6 DEF LexerInv, Advance

-----------------------------------------------------------------------------
(* Each step of the lexer keeps the invariant and moves on *)

\* What a token in code leaves to show: it is not empty.
LEMMA CodeToken ==
    ASSUME LexerInv, NEW k, InCode(k), NEW type \in TokenTypes, NEW value \in Seq(Alphabet),
           NEW j \in k + 1 .. Len(text) + 1, Emit(type, k, j, value),
           stack' \in Seq(Frames), Nested', depth' \in Nat, errors' \in BOOLEAN
    PROVE  LexerInv' /\ Advance
<1>1. /\ lexer = "lexing" /\ Top.mode \in Code /\ k \in at .. Len(text) + 1 /\ k \in Int
      /\ at \in Nat /\ at >= 1 /\ last \in Nat /\ last <= at /\ Len(text) \in Nat
  BY CodeStart DEF LexerInv, TypeOK, Progress
<1>2. j \in at .. Len(text) + 1 /\ k \in 1 .. j /\ j > last /\ k >= at /\ j > at
  BY <1>1
<1>3. Written /\ at' = j
  BY <1>1, <1>2, Emitted
<1>4. stalled' = 1 /\ lexer' = "lexing" => Top'.mode \in Code
  BY <1>1, <1>3 DEF Written, Code, Quotation
<1> QED BY <1>2, <1>3, <1>4, AfterToken DEF Advance

\* Nothing is pushed or popped.
LEMMA FramesStay ==
    ASSUME LexerInv, UNCHANGED <<stack, depth>>
    PROVE  stack' \in Seq(Frames) /\ Nested' /\ depth' \in Nat /\ Top' = Top
  BY DEF LexerInv, TypeOK, Nested, Top

LEMMA EndOfFileStep ==
    ASSUME LexerInv, NEW k, EndOfFile(k)
    PROVE  LexerInv' /\ Advance
<1>1. /\ lexer = "lexing" /\ k \in at .. Len(text) + 1 /\ k \in Int
      /\ at \in Nat /\ at >= 1 /\ Len(text) \in Nat
  BY CodeStart DEF EndOfFile, LexerInv, TypeOK
<1>2. k \in 1 .. k /\ <<>> \in Seq(Alphabet)
  BY <1>1, EmptySeq
<1>3. Written /\ at' = k /\ lexer' = "done"
  <2>1. Emit("EOF", k, k, <<>>)
    BY DEF EndOfFile
  <2>2. "EOF" \in TokenTypes /\ k >= at
    BY <1>1 DEF TokenTypes
  <2> QED BY <1>1, <1>2, <2>1, <2>2, Emitted
<1>4. errors' \in BOOLEAN
  BY DEF EndOfFile, Fine, LexerInv, TypeOK
<1>5. LexerInv'
  BY <1>3, <1>4, FramesStay, AfterToken DEF EndOfFile
<1> QED BY <1>1, <1>3, <1>5 DEF Advance

LEMMA NewLineStep ==
    ASSUME LexerInv, NEW k, NewLine(k)
    PROVE  LexerInv' /\ Advance
<1>1. InCode(k) /\ k \in 1 .. Len(text) /\ k >= at /\ ~open /\ Len(text) \in Nat /\ at \in Nat
  <2>1. InCode(k) /\ Symbol(k) # Nothing /\ TypeOK
    BY DEF NewLine, Line, LexerInv, Nothing
  <2>2. k \in at .. Len(text) + 1 /\ k \in Int /\ ~open
    BY <2>1, CodeStart
  <2>3. k \in 1 .. Len(text)
    BY <2>1, <2>2, SymbolInText
  <2> QED BY <2>1, <2>2, <2>3 DEF TypeOK
<1>2. k + 1 \in k + 1 .. Len(text) + 1 /\ k + 1 \in at + 1 .. Len(text) + 1
  BY <1>1
<1>3. errors' \in BOOLEAN /\ UNCHANGED <<stack, depth>>
  BY DEF NewLine, Fine, LexerInv, TypeOK
<1>4. CASE Pass(k + 1)
  BY <1>1, <1>2, <1>3, <1>4, AfterBlank
<1>5. CASE Emit("NEWLINE", k, k + 1, <<>>)
  <2>1. "NEWLINE" \in TokenTypes /\ <<>> \in Seq(Alphabet)
    BY EmptySeq DEF TokenTypes
  <2> QED BY <1>1, <1>2, <1>3, <1>5, <2>1, FramesStay, CodeToken
<1> QED BY <1>4, <1>5 DEF NewLine

LEMMA LineCommentStep ==
    ASSUME LexerInv, NEW k, NEW j, LineComment(k, j)
    PROVE  LexerInv' /\ Advance
<1>1. InCode(k) /\ TypeOK
  BY DEF LineComment, LexerInv
<1>2. k \in at .. Len(text) + 1 /\ k \in Int /\ ~open /\ Len(text) \in Nat /\ at \in Nat
  BY <1>1, CodeStart DEF TypeOK
<1>3. Symbol(k) \in {"#", "/"}
  BY <1>2, StartsWithTwo DEF LineComment
<1>4. k \in 1 .. Len(text) /\ ~AtEnd(k) /\ ~Starts(k, <<Line>>)
  <2>1. k \in 1 .. Len(text)
    BY <1>1, <1>2, <1>3, SymbolInText DEF Nothing
  <2>2. Symbol(k) # Line
    BY <1>3 DEF Line
  <2> QED BY <2>1, <2>2, <1>2, StartsWithOne DEF AtEnd
<1>5. j \in at + 1 .. Len(text) + 1 /\ Omit(j)
  <2>1. j \in k .. Len(text) + 1 /\ j # k
    BY <1>4 DEF LineComment, Upto
  <2> QED BY <2>1, <1>2 DEF LineComment
<1>6. errors' \in BOOLEAN /\ UNCHANGED <<stack, depth>>
  BY <1>1 DEF LineComment, Fine, TypeOK
<1> QED BY <1>2, <1>5, <1>6, AfterBlank

LEMMA BlockCommentStep ==
    ASSUME LexerInv, NEW k, NEW j, BlockComment(k, j)
    PROVE  LexerInv' /\ Advance
<1>1. InCode(k) /\ TypeOK
  BY DEF BlockComment, LexerInv
<1>2. k \in at .. Len(text) + 1 /\ k \in Int /\ ~open /\ Len(text) \in Nat /\ at \in Nat
  BY <1>1, CodeStart DEF TypeOK
<1>3. j \in k + 2 .. Len(text) + 1
  BY <1>2 DEF BlockComment, Upto
<1>4. ASSUME ~AtEnd(j) PROVE j + 2 <= Len(text) + 1
  <2>0. Starts(j, <<"*", "/">>) /\ j \in Int
    BY <1>4, <1>2, <1>3 DEF BlockComment, Upto
  <2>1. Symbol(j + 1) = "/"
    BY <2>0, StartsWithTwo
  <2>2. j + 1 \in 1 .. Len(text)
    BY <2>1, <1>1, <1>2, <1>3, SymbolInText DEF Nothing
  <2> QED BY <2>2, <1>2, <1>3
<1>5. \E n \in at + 1 .. Len(text) + 1 : Omit(n)
  BY <1>2, <1>3, <1>4 DEF BlockComment
<1>6. errors' \in BOOLEAN /\ UNCHANGED <<stack, depth>>
  BY <1>1 DEF BlockComment, Fine, Raise, TypeOK
<1> QED BY <1>2, <1>5, <1>6, AfterBlank

LEMMA OpenQuoteStep ==
    ASSUME LexerInv, NEW k, OpenQuote(k)
    PROVE  LexerInv' /\ Advance
<1>1. InCode(k) /\ k \in 1 .. Len(text) /\ Top.mode \in Code
  <2>1. InCode(k) /\ Symbol(k) # Nothing /\ TypeOK
    BY DEF OpenQuote, Quote, LexerInv, Nothing
  <2> QED BY <2>1, CodeStart, SymbolInText
<1>2. k + 1 \in k + 1 .. Len(text) + 1 /\ Len(text) \in Nat
  BY <1>1 DEF LexerInv, TypeOK
<1>3. Frame("template") \in Frames /\ Frame("template").mode = "template"
  BY EmptySeq DEF Frame, Frames
<1>4. stack' \in Seq(Frames) /\ Nested'
  BY <1>1, <1>3, PushNests DEF OpenQuote, LexerInv, Code, Quotation
<1>5. "OQUOTE" \in TokenTypes /\ <<>> \in Seq(Alphabet) /\ Emit("OQUOTE", k, k + 1, <<>>)
  BY EmptySeq DEF TokenTypes, OpenQuote
<1>6. errors' \in BOOLEAN /\ depth' \in Nat
  BY DEF OpenQuote, Fine, LexerInv, TypeOK
<1> QED BY <1>1, <1>2, <1>4, <1>5, <1>6, CodeToken

LEMMA NumberStep ==
    ASSUME LexerInv, NEW k, NEW j, Number(k, j)
    PROVE  LexerInv' /\ Advance
<1>1. InCode(k) /\ TypeOK /\ Emit("NUMBER", k, j, Raw(k, j))
  BY DEF Number, LexerInv
<1>2. k \in Int /\ at \in Nat /\ at >= 1 /\ k >= at /\ k \in 1 .. Len(text) + 1 /\ Len(text) \in Nat
  BY <1>1, CodeStart DEF TypeOK
<1>3. j \in k + 1 .. Len(text) + 1
  <2>1. PICK n \in k + 1 .. Len(text) + 1 : j = n \/ Run(n + 1, j, Digits)
    BY DEF Number
  <2> QED BY <2>1, <1>2 DEF Run
<1>4. Raw(k, j) \in Seq(Alphabet)
  BY <1>1, <1>2, <1>3, RawIsText
<1>5. errors' \in BOOLEAN /\ UNCHANGED <<stack, depth>> /\ "NUMBER" \in TokenTypes
  BY <1>1 DEF Number, Fine, TypeOK, TokenTypes
<1> QED BY <1>1, <1>3, <1>4, <1>5, FramesStay, CodeToken

LEMMA IdentStep ==
    ASSUME LexerInv, NEW k, NEW j, Ident(k, j)
    PROVE  LexerInv' /\ Advance
<1>1. InCode(k) /\ TypeOK /\ Emit("IDENT", k, j, Raw(k, j))
  BY DEF Ident, LexerInv
<1>2. k \in Int /\ k \in 1 .. Len(text) + 1 /\ Len(text) \in Nat
  BY <1>1, CodeStart DEF TypeOK
<1>3. j \in k + 1 .. Len(text) + 1
  BY <1>2 DEF Ident, Run
<1>4. Raw(k, j) \in Seq(Alphabet)
  BY <1>1, <1>2, <1>3, RawIsText
<1>5. errors' \in BOOLEAN /\ UNCHANGED <<stack, depth>> /\ "IDENT" \in TokenTypes
  BY <1>1 DEF Ident, Fine, TypeOK, TokenTypes
<1> QED BY <1>1, <1>3, <1>4, <1>5, FramesStay, CodeToken

LEMMA LongOperatorStep ==
    ASSUME LexerInv, NEW k, NEW op \in ThreeCharOps \cup TwoCharOps, LongOperator(k, op)
    PROVE  LexerInv' /\ Advance
<1>1. InCode(k) /\ TypeOK /\ Emit("OPERATOR", k, k + Len(op), op) /\ Starts(k, op)
  BY DEF LongOperator, InOperator, LexerInv
<1>2. k \in Int /\ Len(text) \in Nat
  BY <1>1, CodeStart DEF TypeOK
<1>3. k + Len(op) \in k + 1 .. Len(text) + 1 /\ op \in Seq(Alphabet)
  <2>1. ASSUME NEW a, NEW b, op = <<a, b>>, a # Nothing, b # Nothing
        PROVE  k + Len(op) \in k + 1 .. Len(text) + 1 /\ op \in Seq(Alphabet)
    <3>1. k + 2 \in k + 1 .. Len(text) + 1 /\ <<a, b>> \in Seq(Alphabet)
      BY <1>1, <1>2, <2>1, TwoInText
    <3> QED BY <2>1, <3>1
  <2>2. ASSUME NEW a, NEW b, NEW c, op = <<a, b, c>>, a # Nothing, b # Nothing, c # Nothing
        PROVE  k + Len(op) \in k + 1 .. Len(text) + 1 /\ op \in Seq(Alphabet)
    <3>1. k + 3 \in k + 1 .. Len(text) + 1 /\ <<a, b, c>> \in Seq(Alphabet)
      BY <1>1, <1>2, <2>2, ThreeInText
    <3> QED BY <2>2, <3>1
  <2>3. CASE op \in ThreeCharOps
    BY <2>2, <2>3 DEF ThreeCharOps, Nothing
  <2>4. CASE op \in TwoCharOps
    BY <2>1, <2>4 DEF TwoCharOps, Nothing
  <2> QED BY <2>3, <2>4
<1>4. errors' \in BOOLEAN /\ UNCHANGED <<stack, depth>> /\ "OPERATOR" \in TokenTypes
  BY <1>1 DEF LongOperator, Fine, TypeOK, TokenTypes
<1> QED BY <1>1, <1>3, <1>4, FramesStay, CodeToken

\* A single character is one of the file.
LEMMA SingleInText ==
    ASSUME LexerInv, NEW k, Single(k)
    PROVE  /\ TypeOK /\ InCode(k) /\ Top.mode \in Code
           /\ k + 1 \in k + 1 .. Len(text) + 1 /\ <<Symbol(k)>> \in Seq(Alphabet)
<1>1. TypeOK /\ InCode(k) /\ ~AtEnd(k)
  BY DEF Single, InOperator, LexerInv
<1>2. k \in at .. Len(text) + 1 /\ at \in Nat /\ at >= 1 /\ Top.mode \in Code /\ Len(text) \in Nat
  BY <1>1, CodeStart DEF TypeOK
<1>3. k \in 1 .. Len(text)
  BY <1>1, <1>2 DEF AtEnd
<1>4. Symbol(k) = text[k] /\ text \in Seq(Alphabet)
  BY <1>1, <1>3 DEF Symbol, TypeOK
<1>5. Symbol(k) \in Alphabet
  BY <1>3, <1>4, ElementOfSeq
<1>6. <<Symbol(k)>> \in Seq(Alphabet)
  BY <1>5
<1> QED BY <1>1, <1>2, <1>3, <1>6

LEMMA LessIsNatural ==
    ASSUME depth \in Nat
    PROVE  Less(depth) \in Nat
  BY DEF Less

\* Brackets, punctuation and what is neither: the frames stay.
LEMMA SingleStep ==
    ASSUME LexerInv, NEW k, OpenBracket(k) \/ CloseBracket(k) \/ Punctuation(k) \/ InvalidCharacter(k)
    PROVE  LexerInv' /\ Advance
<1>1. Single(k) /\ UNCHANGED stack
  BY DEF OpenBracket, CloseBracket, Punctuation, InvalidCharacter
<1>2. /\ TypeOK /\ InCode(k) /\ k + 1 \in k + 1 .. Len(text) + 1
      /\ <<Symbol(k)>> \in Seq(Alphabet) /\ <<>> \in Seq(Alphabet)
  BY <1>1, SingleInText, EmptySeq
<1>3. depth' \in Nat /\ errors' \in BOOLEAN
  <2>1. depth' \in Nat
    <3>1. depth' \in {depth, depth + 1, Less(depth)}
      BY DEF OpenBracket, CloseBracket, Punctuation, InvalidCharacter
    <3> QED BY <1>2, <3>1, LessIsNatural DEF TypeOK
  <2>2. errors' \in BOOLEAN
    BY <1>2 DEF OpenBracket, CloseBracket, Punctuation, InvalidCharacter, Fine, Raise, TypeOK
  <2> QED BY <2>1, <2>2
<1>4. stack' \in Seq(Frames) /\ Nested'
  BY <1>1, <1>2 DEF LexerInv, TypeOK, Nested
<1>5. "OPERATOR" \in TokenTypes /\ "INVALID" \in TokenTypes
  BY DEF TokenTypes
<1>6. CASE Emit("OPERATOR", k, k + 1, <<Symbol(k)>>)
  BY <1>2, <1>3, <1>4, <1>5, <1>6, CodeToken
<1>7. CASE Emit("INVALID", k, k + 1, <<>>)
  BY <1>2, <1>3, <1>4, <1>5, <1>7, CodeToken
<1> QED BY <1>6, <1>7 DEF OpenBracket, CloseBracket, Punctuation, InvalidCharacter

LEMMA OpenBraceStep ==
    ASSUME LexerInv, NEW k, OpenBrace(k)
    PROVE  LexerInv' /\ Advance
<1>1. Single(k) /\ Symbol(k) = "{" /\ Emit("OPERATOR", k, k + 1, <<"{">>)
  BY DEF OpenBrace
<1>2. /\ TypeOK /\ Nested /\ InCode(k) /\ k + 1 \in k + 1 .. Len(text) + 1
      /\ <<"{">> \in Seq(Alphabet) /\ "OPERATOR" \in TokenTypes
  BY <1>1, SingleInText DEF TokenTypes, LexerInv
<1>3. stack' \in Seq(Frames) /\ Nested'
  <2>1. CASE Top.mode = "interp"
    <3>0. Top \in Frames /\ Top.braces \in Nat
      BY <1>2, TopIsFrame, FrameParts
    <3>1. Top.braces + 1 \in Nat
      BY <3>0
    <3>2. [Top EXCEPT !.braces = @ + 1] \in Frames /\ [Top EXCEPT !.braces = @ + 1].mode = Top.mode
      BY <3>0, <3>1, FrameUpdates
    <3> QED BY <2>1, <3>1, <3>2, <1>2, WithNests DEF OpenBrace
  <2>2. CASE Top.mode # "interp"
    BY <2>2, <1>2 DEF OpenBrace, TypeOK, Nested
  <2> QED BY <2>1, <2>2
<1>4. depth' \in Nat /\ errors' \in BOOLEAN
  BY <1>2 DEF OpenBrace, Fine, TypeOK
<1> QED BY <1>1, <1>2, <1>3, <1>4, CodeToken

LEMMA CloseBraceStep ==
    ASSUME LexerInv, NEW k, CloseBrace(k)
    PROVE  LexerInv' /\ Advance
<1>1. Single(k) /\ Symbol(k) = "}"
  BY DEF CloseBrace
<1>2. /\ TypeOK /\ Nested /\ InCode(k) /\ k + 1 \in k + 1 .. Len(text) + 1
      /\ <<"}">> \in Seq(Alphabet) /\ <<>> \in Seq(Alphabet)
      /\ "OPERATOR" \in TokenTypes /\ "SEQ_END" \in TokenTypes
  BY <1>1, SingleInText, EmptySeq DEF TokenTypes, LexerInv
<1>3. depth' \in Nat /\ errors' \in BOOLEAN
  <2>1. depth' \in Nat
    <3>1. depth' \in {depth, Less(depth)}
      BY DEF CloseBrace
    <3> QED BY <1>2, <3>1, LessIsNatural DEF TypeOK
  <2>2. errors' \in BOOLEAN
    BY <1>2 DEF CloseBrace, Fine, TypeOK
  <2> QED BY <2>1, <2>2
<1>4. CASE Top.mode = "interp" /\ Top.braces = 0
  <2>1. Emit("SEQ_END", k, k + 1, <<>>) /\ Pop
    BY <1>4 DEF CloseBrace
  <2>2. stack' \in Seq(Frames) /\ Nested'
    BY <1>2, <1>4, <2>1, PopNests
  <2> QED BY <1>2, <1>3, <2>1, <2>2, CodeToken
<1>5. CASE ~(Top.mode = "interp" /\ Top.braces = 0)
  <2>1. Emit("OPERATOR", k, k + 1, <<"}">>)
    BY <1>5 DEF CloseBrace
  <2>2. stack' \in Seq(Frames) /\ Nested'
    <3>1. CASE Top.mode = "interp"
      <4>0. Top \in Frames /\ Top.braces \in Nat
        BY <1>2, TopIsFrame, FrameParts
      <4>1. Top.braces - 1 \in Nat
        BY <4>0, <3>1, <1>5
      <4>2. [Top EXCEPT !.braces = @ - 1] \in Frames /\ [Top EXCEPT !.braces = @ - 1].mode = Top.mode
        BY <4>0, <4>1, FrameUpdates
      <4> QED BY <3>1, <4>1, <4>2, <1>2, <1>5, WithNests DEF CloseBrace
    <3>2. CASE Top.mode # "interp"
      BY <3>2, <1>2 DEF CloseBrace, TypeOK, Nested
    <3> QED BY <3>1, <3>2
  <2> QED BY <1>2, <1>3, <2>1, <2>2, CodeToken
<1> QED BY <1>4, <1>5

LEMMA DedentIsNatural ==
    ASSUME Len(text) \in Nat, NEW k, NEW marker
    PROVE  Dedent(k, marker) \in Nat
<1> DEFINE Before(n) == ~ \E m \in LineStarts(k) : m <= n /\ \E j \in m .. Len(text) + 1 :
                            OnlyMarker(m, j, marker)
           indents == {d \in 0 .. Len(text) :
                          \E n \in LineStarts(k) :
                              /\ Before(n) /\ Run(n, n + d, {Blank})
                              /\ Symbol(n + d) \notin {Line, Nothing}}
           least == {d \in indents : \A e \in indents : d <= e}
<1>1. Dedent(k, marker) = IF least = {} THEN 0 ELSE CHOOSE d \in least : TRUE
  BY DEF Dedent
<1>2. least \subseteq Nat
  BY DEF indents
<1> HIDE DEF least
<1>3. CASE least = {}
  BY <1>1, <1>3
<1>4. CASE least # {}
  <2>1. (CHOOSE d \in least : TRUE) \in least
    BY <1>4
  <2> QED BY <1>1, <1>2, <1>4, <2>1
<1> QED BY <1>3, <1>4

LEMMA OpenHeredocStep ==
    ASSUME LexerInv, NEW k, NEW n, NEW j, OpenHeredoc(k, n, j)
    PROVE  LexerInv' /\ Advance
<1> DEFINE dash   == Symbol(k + 2) = "-"
           word   == IF dash THEN k + 3 ELSE k + 2
           marker == Raw(word, n)
           body   == IF AtEnd(j) THEN j ELSE j + 1
<1>1. /\ InCode(k) /\ TypeOK /\ Nested /\ k \in Int /\ k \in 1 .. Len(text) + 1
      /\ Len(text) \in Nat /\ Top.mode \in Code
  BY CodeStart DEF OpenHeredoc, LexerInv, TypeOK
<1>2. n \in k + 2 .. Len(text) + 1 /\ word \in 1 .. n
  BY <1>1 DEF OpenHeredoc, Run
<1>3. depth' \in Nat /\ errors' \in BOOLEAN
  BY <1>1 DEF OpenHeredoc, Fine, Raise, TypeOK
<1>4. CASE n = word
  <2>1. Emit("INVALID", k, n, <<>>) /\ UNCHANGED stack
    BY <1>4 DEF OpenHeredoc
  <2>2. stack' \in Seq(Frames) /\ Nested'
    BY <2>1, <1>1 DEF TypeOK, Nested
  <2>3. n \in k + 1 .. Len(text) + 1 /\ <<>> \in Seq(Alphabet) /\ "INVALID" \in TokenTypes
    BY <1>1, <1>2, EmptySeq DEF TokenTypes
  <2> QED BY <1>1, <1>3, <2>1, <2>2, <2>3, CodeToken
<1>5. CASE n # word
  <2>1. /\ Emit("OHEREDOC", k, body, marker)
        /\ Push(HeredocFrame(marker, IF dash THEN Dedent(body, marker) ELSE 0))
        /\ Upto(n, j, <<Line>>)
    BY <1>5 DEF OpenHeredoc
  <2>2. body \in k + 1 .. Len(text) + 1
    BY <2>1, <1>1, <1>2 DEF Upto, AtEnd
  <2>3. marker \in Seq(Alphabet) /\ "OHEREDOC" \in TokenTypes
    <3>1. word \in 1 .. Len(text) + 1 /\ n \in word .. Len(text) + 1
      BY <1>1, <1>2
    <3> HIDE DEF word
    <3> QED BY <3>1, <1>1, RawIsText DEF TokenTypes
  <2>4. (IF dash THEN Dedent(body, marker) ELSE 0) \in Nat
    BY <1>1, DedentIsNatural
  <2>5. HeredocFrame(marker, IF dash THEN Dedent(body, marker) ELSE 0) \in Frames
    BY <2>3, <2>4 DEF HeredocFrame, Frames
  <2>6. HeredocFrame(marker, IF dash THEN Dedent(body, marker) ELSE 0).mode = "heredoc"
    BY DEF HeredocFrame
  <2>7. stack' \in Seq(Frames) /\ Nested'
    BY <1>1, <2>1, <2>5, <2>6, PushNests DEF Code, Quotation
  <2> QED BY <1>1, <1>3, <2>1, <2>2, <2>3, <2>7, CodeToken
<1> QED BY <1>4, <1>5

\* What a token in a quotation leaves to show: it moves on, or ends the
\* quotation.
LEMMA QuotedToken ==
    ASSUME LexerInv, lexer = "lexing", Top.mode \in Quotation,
           NEW type \in TokenTypes, NEW value \in Seq(Alphabet),
           NEW j \in at .. Len(text) + 1, NEW k \in 1 .. j, k >= at \/ (open /\ k = from),
           Emit(type, k, j, value),
           stack' \in Seq(Frames), Nested', depth' \in Nat, errors' \in BOOLEAN,
           j > last \/ Top'.mode \in Code,
           j > at \/ open \/ Len(stack') < Len(stack)
    PROVE  LexerInv' /\ Advance
<1>1. Written /\ at' = j /\ (j > last => stalled' = 0)
  BY Emitted
<1>2. stalled' = 1 /\ lexer' = "lexing" => Top'.mode \in Code
  BY <1>1
<1>3. LexerInv'
  BY <1>1, <1>2, AfterToken
<1>4. Advance
  BY <1>1 DEF Advance, Written, LexerInv, TypeOK
<1> QED BY <1>3, <1>4

LEMMA InQuotation ==
    ASSUME LexerInv
    PROVE  /\ TypeOK /\ Nested /\ Len(text) \in Nat /\ last \in Nat /\ last <= at
           /\ at \in Nat /\ at \in 1 .. Len(text) + 1
           /\ open => /\ from \in 1 .. at
                      /\ at > last \/ (Top.mode = "heredoc" /\ buffer = <<>> /\ ~AtEnd(at))
           /\ <<>> \in Seq(Alphabet) /\ buffer \in Seq(Alphabet)
  BY EmptySeq DEF LexerInv, TypeOK, Progress, Order

LEMMA OpenSequenceStep ==
    ASSUME LexerInv, NEW mode \in Quotation, OpenSequence(mode)
    PROVE  LexerInv' /\ Advance
<1>1. lexer = "lexing" /\ Top.mode \in Quotation /\ Introduced(at)
  BY DEF OpenSequence, Reads
<1>2. at + 2 \in at + 1 .. Len(text) + 1
  <2>1. PICK s \in Introducers : Starts(at, s)
    BY <1>1 DEF Introduced
  <2>2. CASE s = <<"$", "{">>
    <3>1. "$" # Nothing /\ "{" # Nothing
      BY DEF Nothing
    <3>2. Starts(at, <<"$", "{">>)
      BY <2>1, <2>2
    <3>3. at \in Int /\ TypeOK
      BY InQuotation
    <3> QED BY <3>1, <3>2, <3>3, TwoInText
  <2>3. CASE s = <<"%", "{">>
    <3>1. "%" # Nothing /\ "{" # Nothing
      BY DEF Nothing
    <3>2. Starts(at, <<"%", "{">>)
      BY <2>1, <2>3
    <3>3. at \in Int /\ TypeOK
      BY InQuotation
    <3> QED BY <3>1, <3>2, <3>3, TwoInText
  <2> QED BY <2>1, <2>2, <2>3 DEF Introducers
<1>3. Frame("interp") \in Frames /\ Frame("interp").mode = "interp"
  BY EmptySeq DEF Frame, Frames
<1>4. stack' \in Seq(Frames) /\ Nested'
  BY <1>1, <1>3, InQuotation, PushNests DEF OpenSequence
<1>5. depth' \in Nat /\ errors' \in BOOLEAN
  BY InQuotation DEF OpenSequence, Fine, TypeOK
<1>6. PICK type \in {"INTERP", "CONTROL"} : Emit(type, at, at + 2, <<>>)
  BY DEF OpenSequence
<1>7. /\ at + 2 \in at .. Len(text) + 1 /\ at \in 1 .. at + 2 /\ at >= at /\ at + 2 > last
      /\ at + 2 > at /\ type \in TokenTypes
  BY <1>2, <1>6, InQuotation DEF TokenTypes
<1> QED BY <1>1, <1>4, <1>5, <1>6, <1>7, InQuotation, QuotedToken

LEMMA TemplateLiteralStep ==
    ASSUME LexerInv, TemplateLiteral
    PROVE  LexerInv' /\ Advance
<1>1. lexer = "lexing" /\ Top.mode = "template" /\ open /\ Emit("LITERAL", from, at, buffer)
  BY DEF TemplateLiteral, Reads
<1>2. stack' \in Seq(Frames) /\ Nested' /\ depth' \in Nat
  BY FramesStay DEF TemplateLiteral
<1>3. errors' \in BOOLEAN
  BY InQuotation DEF TemplateLiteral, Fine, TypeOK
<1>4. at > last /\ at \in at .. Len(text) + 1 /\ from \in 1 .. at
  BY <1>1, InQuotation
<1>5. "LITERAL" \in TokenTypes /\ Top.mode \in Quotation
  BY <1>1 DEF TokenTypes, Quotation
<1> QED BY <1>1, <1>2, <1>3, <1>4, <1>5, InQuotation, QuotedToken

LEMMA CloseQuoteStep ==
    ASSUME LexerInv, CloseQuote
    PROVE  LexerInv' /\ Advance
<1>1. lexer = "lexing" /\ Top.mode = "template" /\ Pop
  BY DEF CloseQuote, Reads
<1>2. stack' \in Seq(Frames) /\ Nested' /\ Len(stack') < Len(stack) /\ Top'.mode \in Code
  BY <1>1, InQuotation, PopNests DEF Quotation
<1>3. depth' \in Nat /\ errors' \in BOOLEAN
  BY InQuotation DEF CloseQuote, Fine, Raise, TypeOK
<1>4. PICK j \in {at, at + 1} : Emit("CQUOTE", at, j, <<>>) /\ (j = at \/ Symbol(at) = Quote)
  BY DEF CloseQuote
<1>5. j \in at .. Len(text) + 1 /\ at \in 1 .. j /\ at >= at
  <2>1. Quote # Nothing
    BY DEF Quote, Nothing
  <2>2. Symbol(at) = Quote => at \in 1 .. Len(text)
    BY <2>1, InQuotation, SymbolInText
  <2> QED BY <2>2, <1>4, InQuotation
<1>6. "CQUOTE" \in TokenTypes /\ Top.mode \in Quotation
  BY <1>1 DEF TokenTypes, Quotation
<1> QED BY <1>1, <1>2, <1>3, <1>4, <1>5, <1>6, InQuotation, QuotedToken

LEMMA DoubledStep ==
    ASSUME LexerInv, lexer = "lexing", Top.mode \in Quotation, DoubledPiece, UNCHANGED <<stack, depth>>
    PROVE  LexerInv' /\ Advance
<1>1. PICK s \in Doubled : Starts(at, s)
  BY DEF DoubledPiece
<1>2. at + 3 \in at + 1 .. Len(text) + 1 /\ <<Symbol(at), "{">> \in Seq(Alphabet)
  <2>1. at \in Int /\ TypeOK
    BY InQuotation
  <2>2. ASSUME NEW a, a # Nothing, s = <<a, a, "{">>
        PROVE  at + 3 \in at + 1 .. Len(text) + 1 /\ <<Symbol(at), "{">> \in Seq(Alphabet)
    <3>1. "{" # Nothing
      BY DEF Nothing
    <3>2. Starts(at, <<a, a, "{">>)
      BY <1>1, <2>2
    <3>3. at + 3 \in at + 1 .. Len(text) + 1 /\ <<a, "{">> \in Seq(Alphabet)
      BY <2>1, <2>2, <3>1, <3>2, ThreeInText
    <3>4. Symbol(at) = a
      BY <2>1, <3>2, StartsWithThree
    <3> QED BY <3>3, <3>4
  <2>3. "$" # Nothing /\ "%" # Nothing
    BY DEF Nothing
  <2> QED BY <1>1, <2>2, <2>3 DEF Doubled
<1>3. errors' \in BOOLEAN /\ lexer' = lexer
  BY InQuotation DEF DoubledPiece, Fine, TypeOK
<1>4. Piece(at + 3, <<Symbol(at), "{">>)
  BY DEF DoubledPiece
<1> QED BY <1>2, <1>3, <1>4, AfterPiece

\* A piece of one symbol.
LEMMA SymbolAt ==
    ASSUME LexerInv, ~AtEnd(at)
    PROVE  /\ at + 1 \in at + 1 .. Len(text) + 1 /\ Symbol(at) \in Alphabet
           /\ <<Symbol(at)>> \in Seq(Alphabet)
<1>1. at \in 1 .. Len(text) /\ Len(text) \in Nat /\ text \in Seq(Alphabet)
  BY InQuotation DEF AtEnd, TypeOK
<1>2. Symbol(at) \in Alphabet
  BY <1>1, ElementOfSeq DEF Symbol
<1> QED BY <1>1, <1>2

LEMMA TemplatePieceStep ==
    ASSUME LexerInv, TemplatePiece
    PROVE  LexerInv' /\ Advance
<1>1. /\ lexer = "lexing" /\ Top.mode \in Quotation /\ ~AtEnd(at)
      /\ UNCHANGED <<stack, depth>>
  BY DEF TemplatePiece, Reads, Quotation, Stops
<1>2. CASE DoubledPiece
  BY <1>1, <1>2, DoubledStep
<1>3. CASE Piece(at + 1, <<Symbol(at)>>) /\ Fine /\ UNCHANGED lexer
  <2>1. errors' \in BOOLEAN
    BY <1>3, InQuotation DEF Fine, TypeOK
  <2> QED BY <1>1, <1>3, <2>1, SymbolAt, AfterPiece
<1> QED BY <1>2, <1>3 DEF TemplatePiece

LEMMA EscapeStep ==
    ASSUME LexerInv, Escape
    PROVE  LexerInv' /\ Advance
<1> DEFINE next == Symbol(at + 1)
<1>1. /\ lexer = "lexing" /\ Top.mode \in Quotation /\ ~AtEnd(at) /\ Symbol(at) = Back
      /\ UNCHANGED <<stack, depth>> /\ Len(text) \in Nat /\ at \in Int /\ TypeOK
  BY InQuotation DEF Escape, Reads, Quotation, Plain, Stops
<1>2. errors' \in BOOLEAN /\ lexer' \in {lexer, "crashed"}
  <2>1. errors' \in BOOLEAN
    BY <1>1 DEF Escape, Fine, Raise, TypeOK
  <2>2. lexer' \in {lexer, "crashed"}
    BY DEF Escape
  <2> QED BY <2>1, <2>2
<1>3. Symbol(at) \in Alphabet /\ at + 1 \in at + 1 .. Len(text) + 1
  BY <1>1, SymbolAt
<1>4. next # Nothing => /\ at + 2 \in at + 1 .. Len(text) + 1 /\ next \in Alphabet
  BY <1>1, SymbolInText
<1>5. Symbol(at + 2) # Nothing => /\ at + 3 \in at + 1 .. Len(text) + 1 /\ Symbol(at + 2) \in Alphabet
  BY <1>1, SymbolInText
<1>6. \E j \in at + 1 .. Len(text) + 1, value \in Seq(Alphabet) : Piece(j, value)
  <2>1. CASE AtEnd(at + 1) /\ Piece(at + 1, <<>>)
    BY <2>1, <1>3, EmptySeq
  <2>2. CASE next \in Escapable /\ Piece(at + 2, <<Back, next>>)
    <3>1. next # Nothing
      BY <2>2, WordsAssumption
    <3>2. <<Back, next>> \in Seq(Alphabet)
      BY <3>1, <1>1, <1>3, <1>4
    <3> QED BY <2>2, <3>1, <3>2, <1>4
  <2>3. CASE Symbol(at + 2) \in CodePoints /\ Piece(at + 3, <<Symbol(at + 2)>>)
    <3>1. Symbol(at + 2) # Nothing
      BY <2>3, WordsAssumption
    <3>2. <<Symbol(at + 2)>> \in Seq(Alphabet)
      BY <3>1, <1>5
    <3> QED BY <2>3, <3>1, <3>2, <1>5
  <2>4. CASE Symbol(at + 2) \in BeyondLast /\ Piece(at + 3, <<>>)
    <3>1. Symbol(at + 2) # Nothing
      BY <2>4, WordsAssumption
    <3> QED BY <2>4, <3>1, <1>5, EmptySeq
  <2>5. CASE next \in {"u", "U"} /\ Piece(at + 2, <<>>)
    <3>1. next # Nothing
      BY <2>5 DEF Nothing
    <3> QED BY <2>5, <3>1, <1>4, EmptySeq
  <2>6. CASE ~AtEnd(at + 1) /\ Piece(at + 2, <<next>>)
    <3>1. at + 1 \in 1 .. Len(text) /\ text \in Seq(Alphabet)
      BY <2>6, <1>1, <1>3, InQuotation DEF AtEnd, TypeOK
    <3>2. next \in Alphabet
      BY <3>1, ElementOfSeq DEF Symbol
    <3>3. <<next>> \in Seq(Alphabet) /\ at + 2 \in at + 1 .. Len(text) + 1
      BY <3>1, <3>2, <1>1
    <3> QED BY <2>6, <3>3
  <2> QED BY <2>1, <2>2, <2>3, <2>4, <2>5, <2>6 DEF Escape
<1> QED BY <1>1, <1>2, <1>6, AfterPiece

LEMMA EndHeredocStep ==
    ASSUME LexerInv, NEW j, HeredocUnterminated \/ CloseHeredoc(j)
    PROVE  LexerInv' /\ Advance
<1>1. lexer = "lexing" /\ Top.mode = "heredoc" /\ Pop
  BY DEF HeredocUnterminated, CloseHeredoc, InHeredoc, Reads
<1>2. stack' \in Seq(Frames) /\ Nested' /\ Len(stack') < Len(stack) /\ Top'.mode \in Code
  BY <1>1, InQuotation, PopNests DEF Quotation
<1>3. depth' \in Nat /\ errors' \in BOOLEAN
  <2>1. depth' \in Nat
    BY InQuotation DEF HeredocUnterminated, CloseHeredoc, TypeOK
  <2>2. errors' \in BOOLEAN
    BY InQuotation DEF HeredocUnterminated, CloseHeredoc, Fine, Raise, TypeOK
  <2> QED BY <2>1, <2>2
<1>4. PICK n \in at .. Len(text) + 1 : Emit("CHEREDOC", at, n, <<>>)
  BY InQuotation DEF HeredocUnterminated, CloseHeredoc, OnlyMarker, Upto
<1>5. at \in 1 .. n /\ at >= at
  BY <1>4, InQuotation
<1>6. "CHEREDOC" \in TokenTypes /\ Top.mode \in Quotation
  BY <1>1 DEF TokenTypes, Quotation
<1> QED BY <1>1, <1>2, <1>3, <1>4, <1>5, <1>6, InQuotation, QuotedToken

LEMMA HeredocPieceStep ==
    ASSUME LexerInv, HeredocPiece
    PROVE  LexerInv' /\ Advance
<1>1. lexer = "lexing" /\ Top.mode \in Quotation /\ ~AtEnd(at) /\ UNCHANGED <<stack, depth>>
  BY DEF HeredocPiece, InHeredoc, Reads, Quotation
<1>2. CASE DoubledPiece
  BY <1>1, <1>2, DoubledStep
<1>3. CASE Piece(at + 1, <<Symbol(at)>>) /\ Fine /\ UNCHANGED lexer
  <2>1. errors' \in BOOLEAN
    BY <1>3, InQuotation DEF Fine, TypeOK
  <2> QED BY <1>1, <1>3, <2>1, SymbolAt, AfterPiece
<1> QED BY <1>2, <1>3 DEF HeredocPiece

LEMMA HeredocLiteralStep ==
    ASSUME LexerInv, HeredocLiteral
    PROVE  LexerInv' /\ Advance
<1>1. lexer = "lexing" /\ Top.mode = "heredoc" /\ Top.mode \in Quotation /\ TypeOK /\ Nested
  BY InQuotation DEF HeredocLiteral, Reads, Quotation
<1>2. depth' \in Nat /\ errors' \in BOOLEAN
  BY <1>1 DEF HeredocLiteral, Fine, TypeOK
<1>3. "LITERAL" \in TokenTypes
  BY DEF TokenTypes
<1>4. CASE /\ Symbol(at) = Line
           /\ Emit("LITERAL", IF open THEN from ELSE at, at + 1, Append(buffer, Line))
           /\ With([Top EXCEPT !.fresh = TRUE])
  <2>1. at \in 1 .. Len(text) /\ Line \in Alphabet
    <3>1. Line # Nothing
      BY DEF Line, Nothing
    <3> QED BY <3>1, <1>4, InQuotation, SymbolInText
  <2>2. Append(buffer, Line) \in Seq(Alphabet)
    BY <2>1, InQuotation
  <2>3. stack' \in Seq(Frames) /\ Nested'
    <3>1. Top \in Frames
      BY <1>1, TopIsFrame
    <3>2. [Top EXCEPT !.fresh = TRUE] \in Frames /\ [Top EXCEPT !.fresh = TRUE].mode = Top.mode
      BY <3>1, FrameUpdates
    <3> QED BY <1>1, <1>4, <3>2, WithNests
  <2>4. /\ at + 1 \in at .. Len(text) + 1 /\ at + 1 > last /\ at + 1 > at
        /\ (IF open THEN from ELSE at) \in 1 .. at + 1
        /\ (IF open THEN from ELSE at) >= at \/ (open /\ (IF open THEN from ELSE at) = from)
    BY <2>1, InQuotation
  <2> QED BY <1>1, <1>2, <1>3, <1>4, <2>2, <2>3, <2>4, QuotedToken
<1>5. CASE /\ open /\ (AtEnd(at) \/ (Introduced(at) /\ buffer # <<>>))
           /\ Emit("LITERAL", from, at, buffer)
           /\ UNCHANGED stack
  <2>1. at > last /\ from \in 1 .. at /\ at \in at .. Len(text) + 1 /\ buffer \in Seq(Alphabet)
    BY <1>5, InQuotation
  <2>2. stack' \in Seq(Frames) /\ Nested'
    BY <1>1, <1>5 DEF TypeOK, Nested
  <2> QED BY <1>1, <1>2, <1>3, <1>5, <2>1, <2>2, QuotedToken
<1> QED BY <1>4, <1>5 DEF HeredocLiteral

LEMMA HeredocLineStep ==
    ASSUME LexerInv, NEW j \in at .. Len(text) + 1, HeredocLine(j)
    PROVE  LexerInv' /\ Advance
<1>1. /\ lexer = "lexing" /\ Top.mode = "heredoc" /\ ~AtEnd(at) /\ Top.fresh /\ TypeOK /\ Nested
      /\ at \in Nat /\ at >= 1 /\ Len(text) \in Nat /\ last \in Nat /\ last <= at /\ j \in Int
  BY InQuotation DEF HeredocLine, InHeredoc, Reads
<1>2. /\ text' = text /\ at' = j /\ from' = j /\ open' = TRUE /\ buffer' = <<>>
      /\ tokens' = tokens /\ last' = last /\ stalled' = stalled /\ lexer' = lexer
      /\ depth' = depth /\ errors' = errors
  BY DEF HeredocLine, Fine
<1> DEFINE frame == [Top EXCEPT !.fresh = FALSE]
<1>3. frame \in Frames /\ frame.mode = Top.mode /\ frame.fresh = FALSE
  <2>1. Top \in Frames
    BY <1>1, TopIsFrame
  <2> QED BY <2>1, FrameUpdates
<1>4. Nested' /\ stack' \in Seq(Frames) /\ Top' = frame
  <2>1. With(frame)
    BY DEF HeredocLine
  <2> HIDE DEF frame
  <2> QED BY <1>1, <1>3, <2>1, WithNests
<1> HIDE DEF frame
<1>5. TypeOK'
  <2>1. text' \in Seq(Alphabet) /\ buffer' \in Seq(Alphabet) /\ tokens' \in Seq(TokenSet)
    BY <1>1, <1>2, EmptySeq DEF TypeOK
  <2>2. /\ Len(text') = Len(text) /\ at' \in 1 .. Len(text) + 1 /\ last' \in 0 .. Len(text) + 1
        /\ from' \in 1 .. Len(text) + 1 /\ stalled' \in Nat
    BY <1>1, <1>2 DEF TypeOK
  <2>3. /\ open' \in BOOLEAN /\ lexer' \in {"lexing", "done", "stuck", "crashed"}
        /\ errors' \in BOOLEAN /\ depth' \in Nat
    BY <1>1, <1>2 DEF TypeOK
  <2> QED BY <1>2, <1>4, <2>1, <2>2, <2>3, SameText DEF TypeOK
<1>6. Progress'
  <2>1. Top'.mode = "heredoc" /\ stalled' = 0 /\ lexer' = "lexing"
    BY <1>1, <1>2, <1>3, <1>4 DEF LexerInv, Progress, Code, TypeOK
  <2>2. at' > last' \/ ~AtEnd(at)'
    BY <1>1, <1>2 DEF AtEnd
  <2> QED BY <1>1, <1>2, <2>1, <2>2 DEF Progress, Quotation
<1>7. Order'
  <2>1. ASSUME NEW n \in DOMAIN tokens PROVE tokens[n].next <= j
    <3>1. tokens[n] \in TokenSet
      BY <1>1 DEF TypeOK
    <3>2. tokens[n].next \in Nat /\ tokens[n].next <= at
      BY <3>1 DEF TokenSet, LexerInv, Order, TokensInOrder
    <3> QED BY <3>2, <1>1
  <2> QED BY <2>1, <1>1, <1>2 DEF LexerInv, Order, TokensInOrder
<1>8. Advance
  <2>1. ~stack'[Len(stack')].fresh
    BY <1>3, <1>4 DEF Top
  <2> QED BY <2>1, <1>1, <1>2 DEF Advance
<1> QED BY <1>4, <1>5, <1>6, <1>7, <1>8 DEF LexerInv

-----------------------------------------------------------------------------
(* The invariant *)

LEMMA Initially == Init => LexerInv
<1> SUFFICES ASSUME Init PROVE LexerInv
  OBVIOUS
<1>1. text \in Seq(Alphabet) /\ Len(text) \in Nat
  <2>1. text \in Seq(STRING)
    BY TextsAssumption DEF Init
  <2>2. Len(text) \in Nat /\ text \in [1 .. Len(text) -> STRING] /\ DOMAIN text = 1 .. Len(text)
    BY <2>1, LenProperties
  <2>3. text \in [1 .. Len(text) -> Alphabet]
    BY <2>2 DEF Alphabet
  <2> QED BY <2>2, <2>3, SeqDef
<1>2. Frame("normal") \in Frames /\ Frame("normal").mode = "normal"
  BY EmptySeq DEF Frame, Frames
<1>3. stack = <<Frame("normal")>> /\ Len(stack) = 1 /\ stack \in Seq(Frames)
  BY <1>2 DEF Init
<1>4. TypeOK
  <2>1. at \in 1 .. Len(text) + 1 /\ last \in 0 .. Len(text) + 1 /\ from \in 1 .. Len(text) + 1
    BY <1>1 DEF Init
  <2>2. tokens \in Seq(TokenSet) /\ buffer \in Seq(Alphabet)
    BY EmptySeq DEF Init
  <2>3. depth \in Nat /\ stalled \in Nat
    BY DEF Init
  <2>4. errors \in BOOLEAN /\ open \in BOOLEAN /\ lexer \in {"lexing", "done", "stuck", "crashed"}
    BY DEF Init
  <2> QED BY <1>1, <1>3, <2>1, <2>2, <2>3, <2>4 DEF TypeOK
<1>5. Nested
  BY <1>2, <1>3 DEF Nested
<1>6. Progress /\ Order
  BY EmptySeq DEF Init, Progress, Order, TokensInOrder
<1> QED BY <1>4, <1>5, <1>6 DEF LexerInv

LEMMA CodeSteps ==
    ASSUME LexerInv, NEW k, InCodeStep(k)
    PROVE  LexerInv' /\ Advance
<1>1. CASE EndOfFile(k)
  BY <1>1, EndOfFileStep
<1>2. CASE NewLine(k)
  BY <1>2, NewLineStep
<1>3. CASE OpenQuote(k)
  BY <1>3, OpenQuoteStep
<1>4. CASE \E op \in ThreeCharOps \cup TwoCharOps : LongOperator(k, op)
  BY <1>4, LongOperatorStep
<1>5. CASE OpenBracket(k) \/ CloseBracket(k) \/ Punctuation(k) \/ InvalidCharacter(k)
  BY <1>5, SingleStep
<1>6. CASE OpenBrace(k)
  BY <1>6, OpenBraceStep
<1>7. CASE CloseBrace(k)
  BY <1>7, CloseBraceStep
<1>8. ASSUME NEW j, LineComment(k, j) \/ BlockComment(k, j) \/ Number(k, j) \/ Ident(k, j)
      PROVE  LexerInv' /\ Advance
  BY <1>8, LineCommentStep, BlockCommentStep, NumberStep, IdentStep
<1>9. ASSUME NEW n, NEW j, OpenHeredoc(k, n, j)
      PROVE  LexerInv' /\ Advance
  BY <1>9, OpenHeredocStep
<1> QED BY <1>1, <1>2, <1>3, <1>4, <1>5, <1>6, <1>7, <1>8, <1>9 DEF InCodeStep

LEMMA QuotationSteps ==
    ASSUME LexerInv, InTemplateStep \/ InHeredocStep
    PROVE  LexerInv' /\ Advance
<1>1. CASE OpenSequence("template") \/ OpenSequence("heredoc")
  BY <1>1, OpenSequenceStep DEF Quotation
<1>2. CASE TemplateLiteral \/ CloseQuote \/ TemplatePiece \/ Escape
  BY <1>2, TemplateLiteralStep, CloseQuoteStep, TemplatePieceStep, EscapeStep
<1>3. CASE HeredocUnterminated \/ HeredocPiece \/ HeredocLiteral
  BY <1>3, EndHeredocStep, HeredocPieceStep, HeredocLiteralStep
<1>4. ASSUME NEW j \in at .. Len(text) + 1, CloseHeredoc(j) \/ HeredocLine(j)
      PROVE  LexerInv' /\ Advance
  BY <1>4, EndHeredocStep, HeredocLineStep
<1> QED BY <1>1, <1>2, <1>3, <1>4 DEF InTemplateStep, InHeredocStep

LEMMA Stepwise ==
    ASSUME LexerInv, NextToken
    PROVE  LexerInv' /\ Advance
  BY CodeSteps, QuotationSteps DEF NextToken

LEMMA Stuttering ==
    ASSUME LexerInv, UNCHANGED vars
    PROVE  LexerInv'
<1>1. TypeOK'
  BY SameText DEF LexerInv, TypeOK, vars
<1>2. Nested' /\ Progress' /\ Order'
  BY DEF LexerInv, vars, Nested, Progress, Order, TokensInOrder, Top, AtEnd
<1> QED BY <1>1, <1>2 DEF LexerInv

(***************************************************************************)
(* Every text is read with frames that nest, tokens that follow one        *)
(* another, and every token, marker and buffer made of its symbols.        *)
(***************************************************************************)
THEOREM LexerSafe == Spec => []LexerInv
<1>1. LexerInv /\ [NextToken]_vars => LexerInv'
  BY Stepwise, Stuttering
<1> QED BY Initially, <1>1, PTL DEF Spec

(***************************************************************************)
(* The state of the lexer keeps its types: no position leaves the text     *)
(* (lexer.py, every read of self._src[...]).                               *)
(***************************************************************************)
THEOREM LexerTyping == Spec => []TypeOK
<1>1. LexerInv => TypeOK
  BY DEF LexerInv
<1> QED BY LexerSafe, <1>1, PTL

(***************************************************************************)
(* The mode stack alternates code and quotations, and _pop never takes its *)
(* last frame.                                                             *)
(***************************************************************************)
THEOREM FramesNest == Spec => []Nested
<1>1. LexerInv => Nested
  BY DEF LexerInv
<1> QED BY LexerSafe, <1>1, PTL

(***************************************************************************)
(* The limit on tokens without progress is never reached, whatever the     *)
(* text: of two empty tokens in a row the first closes a quotation, and    *)
(* the second ends the file.                                               *)
(***************************************************************************)
THEOREM LexerNeverStuck == Spec => []NeverStuck
<1>1. LexerInv => NeverStuck
  BY DEF LexerInv, Progress, NeverStuck
<1> QED BY LexerSafe, <1>1, PTL

(***************************************************************************)
(* The ranges of the tokens do not overlap and never run backwards.        *)
(***************************************************************************)
THEOREM RangesInOrder == Spec => []TokensInOrder
<1>1. LexerInv => TokensInOrder
  BY DEF LexerInv, Order
<1> QED BY LexerSafe, <1>1, PTL

(***************************************************************************)
(* Every step reads on, or completes a literal, pops a frame, starts a     *)
(* line of a heredoc, or ends: none repeats the one before it.             *)
(***************************************************************************)
THEOREM LexerAdvances == Spec => EveryStepAdvances
<1>1. LexerInv /\ [NextToken]_vars => [Advance]_vars
  BY Stepwise
<1>2. Spec => [][Advance]_vars
  BY LexerSafe, <1>1, PTL DEF Spec
<1> QED BY <1>2 DEF EveryStepAdvances, Advance

(***************************************************************************)
(* The tokens show the nesting the lexer kept: each string, heredoc and    *)
(* interpolation that is opened is closed by a token of its own kind       *)
(* before what surrounds it is.                                            *)
(***************************************************************************)

Modes(frames) == [k \in 1 .. Len(frames) |-> frames[k].mode]

\* What is open behind each token, from the first on.
Traces(f) == Nesting(tokens, f) /\ f[Len(tokens)] = Modes(stack)

TokensNest == /\ \E f : Traces(f)
              /\ lexer = "done" => Top.mode \in Code

\* The end of the file is a token, the last one; a name has a character.
Finished ==
    /\ lexer = "done" => tokens # <<>>
    /\ \A k \in DOMAIN tokens :
          /\ tokens[k].type = "EOF" <=> k = Len(tokens) /\ lexer = "done"
          /\ tokens[k].type = "IDENT" => tokens[k].first < tokens[k].next /\ tokens[k].text # <<>>

\* A step leaves the tokens and the modes alone, or emits a token that fits
\* the modes and says what becomes of them.
Tells(type) == /\ \E k, j, value : Emit(type, k, j, value)
                                     /\ (type = "IDENT" => k < j /\ value # <<>>)
               /\ Follows(Modes(stack), type, Modes(stack')) /\ Fits(Modes(stack), type)
               /\ type = "EOF" => Top'.mode \in Code
Silent == tokens' = tokens /\ Modes(stack') = Modes(stack) /\ lexer' # "done"
Moves  == Silent \/ \E type : Tells(type)

\* The modes of the frames, and what may be read in the innermost one.
LEMMA ModesTyped ==
    ASSUME TypeOK, Nested
    PROVE  /\ Modes(stack) \in Seq(Code \cup Quotation)
           /\ Top.mode \in Code => \A type : type \notin Quoted => Fits(Modes(stack), type)
           /\ Top.mode \in Quotation => \A type \in Quoted : Fits(Modes(stack), type)
<1> DEFINE n == Len(stack)
           m == Modes(stack)
<1>1. n \in Nat /\ n >= 1
  BY TopIsFrame
<1>2. m \in [1 .. n -> Code \cup Quotation]
  <2>1. \A k \in 1 .. n : stack[k].mode \in Code \cup Quotation
    <3>1. \A k \in 1 .. n : stack[k] \in Frames
      BY DEF TypeOK
    <3> QED BY <3>1 DEF Frames, Code, Quotation
  <2> QED BY <2>1 DEF Modes
<1>3. Len(m) = n /\ m \in Seq(Code \cup Quotation)
  <2> HIDE DEF m, n
  <2> QED BY <1>1, <1>2, IsASeq
<1>4. Innermost(m) = Top.mode
  <2>1. m[n] = stack[n].mode
    BY <1>1 DEF Modes
  <2> QED BY <1>3, <2>1 DEF Innermost, Top
<1> HIDE DEF m
<1> QED BY <1>3, <1>4 DEF Fits, m

LEMMA PushModes ==
    ASSUME TypeOK, Nested, NEW frame, Push(frame)
    PROVE  Modes(stack') = Append(Modes(stack), frame.mode)
<1> DEFINE n == Len(stack)
           m == Modes(stack)
<1>1. n \in Nat /\ Len(stack') = n + 1
  BY DEF TypeOK, Push
<1>2. stack'[n + 1] = frame /\ \A k \in 1 .. n : stack'[k] = stack[k]
  BY DEF TypeOK, Push
<1>3. m \in Seq({m[k] : k \in 1 .. n}) /\ Len(m) = n
  <2>1. m \in [1 .. n -> {m[k] : k \in 1 .. n}]
    BY DEF Modes
  <2> HIDE DEF m, n
  <2>2. m \in Seq({m[k] : k \in 1 .. n})
    BY <1>1, <2>1, IsASeq
  <2> QED BY <1>1, <2>1, <2>2
<1>4. Append(m, frame.mode) = [k \in 1 .. n + 1 |-> IF k = n + 1 THEN frame.mode ELSE m[k]]
  <2> HIDE DEF m, n
  <2> QED BY <1>1, <1>3
<1>5. \A k \in 1 .. n + 1 : stack'[k].mode = IF k = n + 1 THEN frame.mode ELSE m[k]
  BY <1>1, <1>2 DEF Modes
<1> HIDE DEF m, n
<1> QED BY <1>1, <1>4, <1>5 DEF Modes, m

LEMMA PopModes ==
    ASSUME TypeOK, Nested, Pop
    PROVE  Modes(stack) = Append(Modes(stack'), Top.mode)
<1> DEFINE n == Len(stack)
           m == Modes(stack')
<1>1. n \in Nat /\ n >= 1
  BY TopIsFrame
<1>2. Len(stack') = n - 1 /\ \A k \in 1 .. n - 1 : stack'[k] = stack[k]
  <2>1. stack \in Seq(Frames) /\ stack' = SubSeq(stack, 1, n - 1)
    BY DEF TypeOK, Pop
  <2>2. 1 \in Int /\ n - 1 \in Int /\ \A k \in 1 .. n - 1 : stack[k] \in Frames
    BY <1>1, <2>1
  <2>3. /\ Len(SubSeq(stack, 1, n - 1)) = IF 1 <= n - 1 THEN (n - 1) - 1 + 1 ELSE 0
        /\ \A k \in 1 .. (n - 1) - 1 + 1 : SubSeq(stack, 1, n - 1)[k] = stack[1 + k - 1]
    BY ONLY <2>2, SubSeqProperties
  <2> HIDE DEF n
  <2>4. Len(stack') = n - 1
    BY <1>1, <2>1, <2>3
  <2>5. ASSUME NEW k \in 1 .. n - 1 PROVE stack'[k] = stack[k]
    <3>1. k \in 1 .. (n - 1) - 1 + 1 /\ 1 + k - 1 = k
      BY <1>1
    <3> QED BY <2>1, <2>3, <3>1
  <2> QED BY <2>4, <2>5
<1>3. m \in Seq({m[k] : k \in 1 .. n - 1}) /\ Len(m) = n - 1
  <2>1. m \in [1 .. n - 1 -> {m[k] : k \in 1 .. n - 1}]
    BY <1>2 DEF Modes
  <2>2. m \in Seq({m[k] : k \in 1 .. n - 1})
    <3>1. n - 1 \in Nat
      BY <1>1
    <3> HIDE DEF m, n
    <3> QED BY <3>1, <2>1, IsASeq
  <2> QED BY <1>1, <2>1, <2>2
<1>4. Append(m, Top.mode) = [k \in 1 .. n |-> IF k = n THEN Top.mode ELSE m[k]]
  <2>1. (n - 1) + 1 = n
    BY <1>1
  <2> HIDE DEF m, n
  <2> QED BY <1>1, <1>3, <2>1
<1>5. \A k \in 1 .. n : stack[k].mode = IF k = n THEN Top.mode ELSE m[k]
  BY <1>1, <1>2 DEF Modes, Top
<1> HIDE DEF m
<1> QED BY <1>1, <1>4, <1>5 DEF Modes, m

LEMMA WithModes ==
    ASSUME TypeOK, Nested, NEW frame, With(frame), frame.mode = Top.mode
    PROVE  Modes(stack') = Modes(stack)
<1>1. Len(stack) \in Nat /\ Len(stack') = Len(stack)
  BY DEF TypeOK, With
<1>2. \A k \in 1 .. Len(stack) : stack'[k].mode = stack[k].mode
  BY DEF TypeOK, With, Top
<1> QED BY <1>1, <1>2 DEF Modes

\* A token that opens something.
LEMMA Openings ==
    ASSUME NEW before, NEW after
    PROVE  /\ after = Append(before, "template") => Follows(before, "OQUOTE", after)
           /\ after = Append(before, "heredoc") => Follows(before, "OHEREDOC", after)
           /\ after = Append(before, "interp") => /\ Follows(before, "INTERP", after)
                                                  /\ Follows(before, "CONTROL", after)
  <1>1. {"OQUOTE", "OHEREDOC", "INTERP", "CONTROL"} \subseteq DOMAIN Opens
    BY DEF Opens
  <1>2. /\ Opens["OQUOTE"] = "template" /\ Opens["OHEREDOC"] = "heredoc"
        /\ Opens["INTERP"] = "interp" /\ Opens["CONTROL"] = "interp"
    BY DEF Opens
  <1>3. ASSUME NEW type \in DOMAIN Opens, after = Append(before, Opens[type])
        PROVE  Follows(before, type, after)
    BY <1>3 DEF Follows, Opens, Closes
  <1>4. after = Append(before, "template") => Follows(before, "OQUOTE", after)
    BY <1>1, <1>2, <1>3
  <1>5. after = Append(before, "heredoc") => Follows(before, "OHEREDOC", after)
    BY <1>1, <1>2, <1>3
  <1>6. after = Append(before, "interp") => Follows(before, "INTERP", after)
    BY <1>1, <1>2, <1>3
  <1>7. after = Append(before, "interp") => Follows(before, "CONTROL", after)
    BY <1>1, <1>2, <1>3
  <1> QED BY <1>4, <1>5, <1>6, <1>7

\* A token that opens and closes nothing.
LEMMA PlainToken ==
    ASSUME NEW type \in TokenTypes \ (DOMAIN Opens \cup DOMAIN Closes),
           NEW k, NEW j, NEW value, Emit(type, k, j, value),
           type = "IDENT" => k < j /\ value # <<>>,
           Modes(stack') = Modes(stack), Fits(Modes(stack), type),
           type = "EOF" => Top'.mode \in Code
    PROVE  Moves
  BY DEF Moves, Tells, Follows, Opens, Closes

LEMMA CodeMoves ==
    ASSUME LexerInv, NEW k, InCodeStep(k)
    PROVE  Moves
<1> DEFINE Plains == TokenTypes \ (DOMAIN Opens \cup DOMAIN Closes)
<1>0. \A type \in {"EOF", "NEWLINE", "NUMBER", "IDENT", "OPERATOR", "INVALID"} :
          type \in Plains /\ type \notin Quoted
  BY DEF TokenTypes, Opens, Closes, Quoted
<1>1. lexer = "lexing" /\ Top.mode \in Code /\ TypeOK /\ Nested
  BY DEF InCodeStep, InCode, LexerInv, Code
<1>a. ASSUME NEW type \in Plains, type \notin Quoted, NEW i, NEW j, NEW value,
              Emit(type, i, j, value), type = "IDENT" => i < j /\ value # <<>>,
              Modes(stack') = Modes(stack), type = "EOF" => Top'.mode \in Code
       PROVE  Moves
  BY <1>1, <1>a, ModesTyped, PlainToken
<1>b. \A type \in {"OQUOTE", "OHEREDOC", "SEQ_END"} : Fits(Modes(stack), type)
  BY <1>1, ModesTyped DEF Quoted
<1>2. UNCHANGED stack => Modes(stack') = Modes(stack) /\ Top' = Top
  BY DEF Top
<1> HIDE DEF Plains
<1>3. CASE EndOfFile(k)
  BY <1>0, <1>1, <1>2, <1>3, <1>a DEF EndOfFile
<1>4. CASE NewLine(k)
  <2>1. CASE Pass(k + 1)
    BY <1>1, <1>2, <1>4, <2>1 DEF NewLine, Pass, Moves, Silent
  <2>2. CASE Emit("NEWLINE", k, k + 1, <<>>)
    BY <1>0, <1>2, <1>4, <2>2, <1>a DEF NewLine
  <2> QED BY <1>4, <2>1, <2>2 DEF NewLine
<1>5. CASE OpenQuote(k)
  <2>1. Emit("OQUOTE", k, k + 1, <<>>) /\ Push(Frame("template")) /\ Frame("template").mode = "template"
    BY <1>5 DEF OpenQuote, Frame
  <2>2. Modes(stack') = Append(Modes(stack), "template")
    BY <1>1, <2>1, PushModes
  <2>3. Tells("OQUOTE")
    BY <1>b, <2>1, <2>2, Openings DEF Tells
  <2> QED BY <2>3 DEF Moves
<1>6. CASE \E op \in ThreeCharOps \cup TwoCharOps : LongOperator(k, op)
  BY <1>0, <1>2, <1>6, <1>a DEF LongOperator
<1>7. CASE OpenBracket(k) \/ CloseBracket(k) \/ Punctuation(k) \/ InvalidCharacter(k)
  BY <1>0, <1>2, <1>7, <1>a
     DEF OpenBracket, CloseBracket, Punctuation, InvalidCharacter
<1>8. CASE OpenBrace(k)
  <2>1. Modes(stack') = Modes(stack)
    <3>1. CASE With([Top EXCEPT !.braces = @ + 1])
      <4>1. [Top EXCEPT !.braces = @ + 1].mode = Top.mode
        BY <1>1, TopIsFrame DEF Frames
      <4> QED BY <1>1, <3>1, <4>1, WithModes
    <3> QED BY <1>2, <1>8, <3>1 DEF OpenBrace
  <2> QED BY <1>0, <1>8, <2>1, <1>a DEF OpenBrace
<1>9. CASE CloseBrace(k)
  <2>1. CASE Top.mode = "interp" /\ Top.braces = 0
    <3>1. Emit("SEQ_END", k, k + 1, <<>>) /\ Pop
      BY <1>9, <2>1 DEF CloseBrace
    <3>2. Modes(stack) = Append(Modes(stack'), "interp")
      BY <1>1, <2>1, <3>1, PopModes
    <3> QED BY <1>b, <3>1, <3>2 DEF Moves, Tells, Follows, Opens, Closes
  <2>2. CASE ~(Top.mode = "interp" /\ Top.braces = 0)
    <3>1. Modes(stack') = Modes(stack)
      <4>1. CASE With([Top EXCEPT !.braces = @ - 1])
        <5>1. [Top EXCEPT !.braces = @ - 1].mode = Top.mode
          BY <1>1, TopIsFrame DEF Frames
        <5> QED BY <1>1, <4>1, <5>1, WithModes
      <4> QED BY <1>2, <1>9, <2>2, <4>1 DEF CloseBrace
    <3> QED BY <1>0, <1>9, <2>2, <3>1, <1>a DEF CloseBrace
  <2> QED BY <2>1, <2>2
<1>10. ASSUME NEW j, LineComment(k, j) \/ BlockComment(k, j) PROVE Moves
  BY <1>1, <1>2, <1>10 DEF LineComment, BlockComment, Omit, Moves, Silent
<1>11. ASSUME NEW j, Number(k, j) \/ Ident(k, j) PROVE Moves
  <2>1. CASE Number(k, j)
    BY <1>0, <1>2, <1>a, <2>1 DEF Number
  <2>2. CASE Ident(k, j)
    <3>1. k < j /\ k \in 1 .. Len(text) + 1 /\ j \in k .. Len(text) + 1
      BY <1>1, <2>2 DEF Ident, InCode, Run, TypeOK
    <3>2. Raw(k, j) # <<>>
      BY <1>1, <3>1 DEF Raw, TypeOK
    <3> QED BY <1>0, <1>2, <1>a, <2>2, <3>1, <3>2 DEF Ident
  <2> QED BY <1>11, <2>1, <2>2
<1>12. ASSUME NEW n, NEW j, OpenHeredoc(k, n, j) PROVE Moves
  <2> DEFINE dash   == Symbol(k + 2) = "-"
             word   == IF dash THEN k + 3 ELSE k + 2
             marker == Raw(word, n)
             body   == IF AtEnd(j) THEN j ELSE j + 1
             frame  == HeredocFrame(marker, IF dash THEN Dedent(body, marker) ELSE 0)
  <2>1. CASE n = word
    <3>1. Emit("INVALID", k, n, <<>>) /\ UNCHANGED stack
      BY <1>12, <2>1 DEF OpenHeredoc
    <3> QED BY <1>0, <1>2, <3>1, <1>a
  <2>2. CASE n # word
    <3>1. Emit("OHEREDOC", k, body, marker) /\ Push(frame)
      BY <1>12, <2>2 DEF OpenHeredoc
    <3>2. frame.mode = "heredoc"
      BY DEF HeredocFrame
    <3> HIDE DEF frame, body, marker
    <3>3. Modes(stack') = Append(Modes(stack), "heredoc")
      BY <1>1, <3>1, <3>2, PushModes
    <3>4. Tells("OHEREDOC")
      BY <1>b, <3>1, <3>3, Openings DEF Tells
    <3> QED BY <3>4 DEF Moves
  <2> QED BY <2>1, <2>2
<1> QED
  BY <1>3, <1>4, <1>5, <1>6, <1>7, <1>8, <1>9, <1>10, <1>11, <1>12 DEF InCodeStep

\* The end of a string or heredoc.
LEMMA QuotationEnds ==
    ASSUME TypeOK, Nested, Pop, NEW k, NEW j, NEW value,
           \/ Top.mode = "template" /\ Emit("CQUOTE", k, j, value)
           \/ Top.mode = "heredoc" /\ Emit("CHEREDOC", k, j, value)
    PROVE  Moves
<1>1. Modes(stack) = Append(Modes(stack'), Top.mode)
  BY PopModes
<1>2. \A type \in {"CQUOTE", "CHEREDOC"} : Fits(Modes(stack), type)
  BY ModesTyped DEF Quoted, Quotation
<1> QED BY <1>1, <1>2 DEF Moves, Tells, Follows, Opens, Closes

LEMMA QuotationMoves ==
    ASSUME LexerInv, InTemplateStep \/ InHeredocStep
    PROVE  Moves
<1>1. lexer = "lexing" /\ TypeOK /\ Nested
  BY DEF InTemplateStep, InHeredocStep, LexerInv, Reads, OpenSequence, TemplateLiteral, CloseQuote,
         TemplatePiece, Escape, HeredocUnterminated, InHeredoc, HeredocPiece, HeredocLiteral,
         CloseHeredoc, HeredocLine
<1>a. Top.mode \in Quotation => \A type \in {"LITERAL", "INTERP", "CONTROL"} : Fits(Modes(stack), type)
  BY <1>1, ModesTyped DEF Quoted
<1>2. UNCHANGED stack => Modes(stack') = Modes(stack)
  OBVIOUS
<1>3. "LITERAL" \in TokenTypes \ (DOMAIN Opens \cup DOMAIN Closes)
  BY DEF TokenTypes, Opens, Closes
<1>4. \A fresh : [Top EXCEPT !.fresh = fresh].mode = Top.mode
  BY <1>1, TopIsFrame DEF Frames
<1>5. ASSUME NEW mode \in Quotation, OpenSequence(mode) PROVE Moves
  <2>1. PICK type \in {"INTERP", "CONTROL"} : Emit(type, at, at + 2, <<>>)
    BY <1>5 DEF OpenSequence
  <2>2. Push(Frame("interp")) /\ Frame("interp").mode = "interp"
    BY <1>5 DEF OpenSequence, Frame
  <2>3. Modes(stack') = Append(Modes(stack), "interp")
    BY <1>1, <2>2, PushModes
  <2>4. Top.mode \in Quotation
    BY <1>5 DEF OpenSequence, Reads
  <2>5. Tells(type)
    BY <1>a, <2>1, <2>3, <2>4, Openings DEF Tells
  <2> QED BY <2>5 DEF Moves
<1>6. CASE TemplateLiteral
  BY <1>2, <1>3, <1>6, <1>a, PlainToken DEF TemplateLiteral, Reads, Quotation
<1>7. CASE CloseQuote
  <2>1. Top.mode = "template" /\ Pop /\ \E j : Emit("CQUOTE", at, j, <<>>)
    BY <1>7 DEF CloseQuote, Reads
  <2> QED BY <1>1, <2>1, QuotationEnds
<1>8. CASE TemplatePiece
  BY <1>1, <1>2, <1>8 DEF TemplatePiece, DoubledPiece, Piece, Moves, Silent
<1>9. CASE Escape
  BY <1>1, <1>2, <1>9 DEF Escape, Piece, Moves, Silent
<1>10. CASE HeredocUnterminated
  BY <1>1, <1>10, QuotationEnds DEF HeredocUnterminated, Reads
<1>11. CASE HeredocPiece
  BY <1>1, <1>2, <1>11 DEF HeredocPiece, DoubledPiece, Piece, Moves, Silent
<1>12. CASE HeredocLiteral
  <2>1. \E k, j, value : Emit("LITERAL", k, j, value)
    BY <1>12 DEF HeredocLiteral
  <2>2. Modes(stack') = Modes(stack)
    <3>1. CASE With([Top EXCEPT !.fresh = TRUE])
      BY <1>1, <1>4, <3>1, WithModes
    <3> QED BY <1>2, <1>12, <3>1 DEF HeredocLiteral
  <2>3. Top.mode \in Quotation
    BY <1>12 DEF HeredocLiteral, Reads, Quotation
  <2> QED BY <1>3, <1>a, <2>1, <2>2, <2>3, PlainToken
<1>13. ASSUME NEW j, CloseHeredoc(j) PROVE Moves
  BY <1>1, <1>13, QuotationEnds DEF CloseHeredoc, InHeredoc, Reads
<1>14. ASSUME NEW j, HeredocLine(j) PROVE Moves
  <2>1. Modes(stack') = Modes(stack)
    BY <1>1, <1>4, <1>14, WithModes DEF HeredocLine
  <2> QED BY <1>1, <1>14, <2>1 DEF HeredocLine, Moves, Silent
<1> QED
  BY <1>5, <1>6, <1>7, <1>8, <1>9, <1>10, <1>11, <1>12, <1>13, <1>14
     DEF InTemplateStep, InHeredocStep, Quotation

LEMMA EveryStepMoves ==
    ASSUME LexerInv, NextToken
    PROVE  Moves /\ lexer = "lexing"
  BY CodeMoves, QuotationMoves DEF NextToken, InCodeStep, InCode, InTemplateStep, InHeredocStep,
     Reads, OpenSequence, TemplateLiteral, CloseQuote, TemplatePiece, Escape, HeredocUnterminated,
     InHeredoc, HeredocPiece, HeredocLiteral, CloseHeredoc, HeredocLine

\* The token of a step is the last one, the end of the file if it is that.
LEMMA TokenTold ==
    ASSUME LexerInv, LexerInv', lexer = "lexing", NEW type, Tells(type)
    PROVE  LET n == Len(tokens)
           IN  /\ n \in Nat /\ Len(tokens') = n + 1
               /\ DOMAIN tokens = 1 .. n /\ DOMAIN tokens' = 1 .. n + 1
               /\ \A i \in 1 .. n : tokens'[i] = tokens[i]
               /\ tokens'[n + 1].type = type
               /\ type = "IDENT" => /\ tokens'[n + 1].first < tokens'[n + 1].next
                                    /\ tokens'[n + 1].text # <<>>
               /\ lexer' = IF type = "EOF" THEN "done" ELSE "lexing"
<1>1. PICK k, j, value : Emit(type, k, j, value) /\ (type = "IDENT" => k < j /\ value # <<>>)
  BY DEF Tells
<1> DEFINE n == Len(tokens)
           token == [type |-> type, first |-> k, next |-> j, text |-> value]
<1>2. tokens' = Append(tokens, token) /\ lexer' = IF type = "EOF" THEN "done" ELSE "lexing"
  BY <1>1 DEF Emit, LexerInv, Progress
<1>3. tokens \in Seq(TokenSet) /\ tokens' \in Seq(TokenSet)'
  BY DEF LexerInv, TypeOK
<1>4. token.type = type /\ token.first = k /\ token.next = j /\ token.text = value
  OBVIOUS
<1> HIDE DEF token
<1>5. n \in Nat /\ DOMAIN tokens = 1 .. n /\ \A i \in 1 .. n : Append(tokens, token)[i] = tokens[i]
  BY <1>3
<1>6. /\ Len(Append(tokens, token)) = n + 1 /\ Append(tokens, token)[n + 1] = token
      /\ DOMAIN Append(tokens, token) = 1 .. n + 1
  BY <1>3
<1> QED BY <1>1, <1>2, <1>4, <1>5, <1>6

LEMMA NestStep ==
    ASSUME LexerInv, LexerInv', NextToken, TokensNest
    PROVE  TokensNest'
<1>1. Moves /\ lexer = "lexing"
  BY EveryStepMoves
<1>2. PICK f : Traces(f)
  BY DEF TokensNest
<1>3. CASE Silent
  BY <1>2, <1>3 DEF Silent, TokensNest, Traces
<1>4. ASSUME NEW type, Tells(type) PROVE TokensNest'
  <2> DEFINE n == Len(tokens)
             S == Seq(Code \cup Quotation)
             g == [i \in 0 .. n + 1 |-> IF i = n + 1 THEN Modes(stack') ELSE f[i]]
  <2>1. /\ n \in Nat /\ Len(tokens') = n + 1 /\ tokens'[n + 1].type = type
        /\ \A i \in 1 .. n : tokens'[i] = tokens[i]
        /\ lexer' = IF type = "EOF" THEN "done" ELSE "lexing"
    BY <1>1, <1>4, TokenTold
  <2>2. Modes(stack') \in S
    <3>1. TypeOK' /\ Nested'
      BY DEF LexerInv
    <3>2. (Modes(stack) \in Seq(Code \cup Quotation))'
      BY <3>1, ModesTyped, PTL
    <3> QED BY <3>2
  <2>3. f \in [0 .. n -> S] /\ f[n] = Modes(stack) /\ f[0] = <<"normal">>
    BY <1>2 DEF Traces, Nesting
  <2>4. \A i \in 1 .. n : Follows(f[i - 1], tokens[i].type, f[i]) /\ Fits(f[i - 1], tokens[i].type)
    BY <1>2 DEF Traces, Nesting
  <2>5. Follows(Modes(stack), type, Modes(stack')) /\ Fits(Modes(stack), type)
    BY <1>4 DEF Tells
  <2> HIDE DEF n, S
  <2>6. /\ g[n + 1] = Modes(stack') /\ g[n] = Modes(stack) /\ g[0] = <<"normal">>
        /\ \A i \in 0 .. n : g[i] = f[i]
    BY <2>1, <2>3
  <2>7. g \in [0 .. n + 1 -> S]
    BY <2>1, <2>2, <2>3
  <2> HIDE DEF g
  <2>8. ASSUME NEW i \in 1 .. n + 1
        PROVE  Follows(g[i - 1], tokens'[i].type, g[i]) /\ Fits(g[i - 1], tokens'[i].type)
    <3>1. CASE i = n + 1
      <4>1. g[i - 1] = Modes(stack) /\ g[i] = Modes(stack') /\ tokens'[i].type = type
        BY <2>1, <2>6, <3>1
      <4> QED BY <2>5, <4>1
    <3>2. CASE i # n + 1
      <4>1. i \in 1 .. n /\ g[i - 1] = f[i - 1] /\ g[i] = f[i] /\ tokens'[i] = tokens[i]
        BY <2>1, <2>6, <3>2
      <4> QED BY <2>4, <4>1
    <3> QED BY <3>1, <3>2
  <2>9. PICK h : h = g
    OBVIOUS
  <2>10. Traces(h)'
    BY <2>1, <2>6, <2>7, <2>8, <2>9 DEF Traces, Nesting, S
  <2>11. lexer' = "done" => Top'.mode \in Code
    BY <1>4, <2>1 DEF Tells
  <2> QED BY <2>10, <2>11 DEF TokensNest
<1> QED BY <1>1, <1>3, <1>4 DEF Moves

LEMMA FinishStep ==
    ASSUME LexerInv, LexerInv', NextToken, Finished
    PROVE  Finished'
<1>1. Moves /\ lexer = "lexing"
  BY EveryStepMoves
<1>2. CASE Silent
  BY <1>1, <1>2 DEF Silent, Finished
<1>3. ASSUME NEW type, Tells(type) PROVE Finished'
  <2> DEFINE n == Len(tokens)
  <2>1. /\ n \in Nat /\ Len(tokens') = n + 1
        /\ DOMAIN tokens = 1 .. n /\ DOMAIN tokens' = 1 .. n + 1
        /\ \A i \in 1 .. n : tokens'[i] = tokens[i]
        /\ tokens'[n + 1].type = type
        /\ type = "IDENT" => tokens'[n + 1].first < tokens'[n + 1].next /\ tokens'[n + 1].text # <<>>
        /\ lexer' = IF type = "EOF" THEN "done" ELSE "lexing"
    BY <1>1, <1>3, TokenTold
  <2> HIDE DEF n
  <2>2. tokens' # <<>>
    BY <2>1
  <2>3. ASSUME NEW k \in 1 .. n + 1
        PROVE  /\ tokens'[k].type = "EOF" <=> k = n + 1 /\ lexer' = "done"
               /\ tokens'[k].type = "IDENT" => /\ tokens'[k].first < tokens'[k].next
                                               /\ tokens'[k].text # <<>>
    <3>1. CASE k = n + 1
      BY <2>1, <3>1
    <3>2. CASE k # n + 1
      <4>1. k \in 1 .. n /\ tokens'[k] = tokens[k]
        BY <2>1, <3>2
      <4> QED BY <1>1, <2>1, <3>2, <4>1 DEF Finished
    <3> QED BY <3>1, <3>2
  <2> QED BY <2>1, <2>2, <2>3 DEF Finished
<1> QED BY <1>1, <1>2, <1>3 DEF Moves

LEMMA NestsInitially == Init => TokensNest
<1> SUFFICES ASSUME Init PROVE TokensNest
  OBVIOUS
<1> DEFINE f == [i \in 0 .. 0 |-> <<"normal">>]
<1>1. Modes(stack) = <<"normal">>
  <2>1. Len(stack) = 1 /\ stack[1].mode = "normal"
    BY DEF Init, Frame
  <2> QED BY <2>1 DEF Modes
<1>2. tokens = <<>> /\ Len(tokens) = 0
  BY DEF Init
<1>3. f \in [0 .. 0 -> Seq(Code \cup Quotation)] /\ f[0] = <<"normal">>
  BY DEF Code
<1> HIDE DEF f
<1>4. Traces(f)
  BY <1>1, <1>2, <1>3 DEF Traces, Nesting
<1> QED BY <1>4 DEF Init, TokensNest

\* Whatever the file, and wherever it is cut off: what the tokens open and
\* close nests, behind the last token exactly the lexer's frames are open, and
\* a file that was read to its end ends in code: a string or heredoc can only
\* be left open around an interpolation that is (_next_template_token and
\* _next_heredoc_token close what the file cuts off).  The parser's loops over
\* the parts of a template rely on it.
THEOREM TokensShowTheNesting == Spec => []TokensNest
<1>1. Init => TokensNest
  BY NestsInitially
<1>2. LexerInv /\ TokensNest /\ [NextToken]_vars => TokensNest'
  <2>1. ASSUME LexerInv, TokensNest, UNCHANGED vars PROVE TokensNest'
    BY <2>1 DEF vars, TokensNest, Traces, Top
  <2> QED BY <2>1, NestStep, Stepwise
<1>3. LexerInv /\ [NextToken]_vars => LexerInv'
  BY Stepwise, Stuttering
<1> QED BY Initially, <1>1, <1>2, <1>3, PTL DEF Spec

(***************************************************************************)
(* The parser reads the tokens of a lexer that came to the end of the      *)
(* file, and what it read stays.                                           *)
(***************************************************************************)

FileInv ==
    /\ LexerInv /\ TokensNest /\ Finished
    /\ stage # "tokens" => lexer = "done" /\ config = ParseConfig(tokens)

LEMMA FileInitially == FileInit => FileInv
<1> SUFFICES ASSUME FileInit PROVE FileInv
  OBVIOUS
<1>1. LexerInv /\ TokensNest
  BY Initially, NestsInitially DEF FileInit
<1>2. tokens = <<>> /\ lexer = "lexing" /\ stage = "tokens"
  BY DEF FileInit, Init
<1> QED BY <1>1, <1>2, EmptySeq DEF FileInv, Finished

LEMMA FileStays ==
    ASSUME FileInv, UNCHANGED vars,
           stage' # "tokens" => lexer' = "done" /\ config' = ParseConfig(tokens)
    PROVE  FileInv'
<1>1. LexerInv'
  BY Stuttering DEF FileInv
<1>2. TokensNest' /\ Finished'
  BY DEF FileInv, vars, TokensNest, Traces, Top, Finished
<1>3. tokens' = tokens
  BY DEF vars
<1> QED BY <1>1, <1>2, <1>3 DEF FileInv

LEMMA FileStep == FileInv /\ [FileNext]_file => FileInv'
<1> SUFFICES ASSUME FileInv, [FileNext]_file PROVE FileInv'
  OBVIOUS
<1>1. CASE Tokenise
  <2>1. NextToken /\ stage = "tokens" /\ stage' = "tokens"
    BY <1>1 DEF Tokenise
  <2>2. LexerInv'
    BY <2>1, Stepwise DEF FileInv
  <2>3. TokensNest' /\ Finished'
    BY <2>1, <2>2, NestStep, FinishStep DEF FileInv
  <2> QED BY <2>1, <2>2, <2>3 DEF FileInv
<1>2. CASE Parse
  <2>1. lexer = "done"
    BY <1>2 DEF Parse, FileInv, LexerInv, Progress
  <2>2. lexer' = "done" /\ config' = ParseConfig(tokens) /\ UNCHANGED vars
    BY <1>2, <2>1 DEF Parse, vars
  <2> QED BY <2>2, FileStays
<1>3. CASE Reject
  <2>1. stage # "tokens" /\ UNCHANGED <<vars, config>>
    BY <1>3 DEF Reject
  <2>2. lexer' = "done" /\ config' = ParseConfig(tokens)
    BY <2>1 DEF FileInv, vars
  <2> QED BY <2>1, <2>2, FileStays
<1>4. CASE UNCHANGED file
  <2>1. UNCHANGED vars /\ stage' = stage /\ config' = config /\ lexer' = lexer
    BY <1>4 DEF file, vars
  <2>2. stage' # "tokens" => lexer' = "done" /\ config' = ParseConfig(tokens)
    BY <2>1 DEF FileInv
  <2> QED BY <2>1, <2>2, FileStays
<1> QED BY <1>1, <1>2, <1>3, <1>4 DEF FileNext

(***************************************************************************)
(* Of every file, whatever the parser makes of it: the lexer keeps its     *)
(* promises, and only tokens that end with the end of the file are parsed. *)
(***************************************************************************)
THEOREM FileSafe == FileSpec => []FileInv
  BY FileInitially, FileStep, PTL DEF FileSpec

\* Only a file about which nothing was raised is converted.
LanguageInv == FileInv /\ (stage = "converted" => Accepted)

LEMMA LanguageStep == LanguageInv /\ [LanguageNext]_language => LanguageInv'
<1> SUFFICES ASSUME LanguageInv, [LanguageNext]_language PROVE LanguageInv'
  OBVIOUS
<1>1. CASE FileNext
  <2>1. FileInv'
    BY <1>1, FileStep DEF LanguageInv
  <2>2. stage' # "converted"
    BY <1>1 DEF FileNext, Tokenise, Parse, Reject
  <2> QED BY <2>1, <2>2 DEF LanguageInv
<1>2. CASE Convert
  <2>1. stage = "parsed" /\ ~Rejected /\ UNCHANGED <<vars, config>> /\ stage' = "converted"
    BY <1>2 DEF Convert
  <2>2. lexer' = "done" /\ config' = ParseConfig(tokens)
    BY <2>1 DEF LanguageInv, FileInv, vars
  <2>3. FileInv'
    BY <2>1, <2>2, FileStays DEF LanguageInv
  <2>4. Accepted'
    BY <2>1 DEF Accepted, Rejected, vars
  <2> QED BY <2>3, <2>4 DEF LanguageInv
<1>3. CASE UNCHANGED language
  <2>1. UNCHANGED file
    BY <1>3 DEF language
  <2>2. FileInv'
    BY <2>1, FileStep DEF LanguageInv
  <2>3. Accepted' <=> Accepted
    BY <2>1 DEF Accepted, Rejected, file, vars
  <2> QED BY <2>1, <2>2, <2>3 DEF LanguageInv, file
<1> QED BY <1>1, <1>2, <1>3 DEF LanguageNext, ReadFile

(***************************************************************************)
(* The same while its expressions are evaluated, and what the rules get    *)
(* comes from a file about which neither lexer nor parser raised anything. *)
(***************************************************************************)
THEOREM LanguageSafe == LanguageSpec => []LanguageInv
<1>1. LanguageInit => LanguageInv
  <2>1. FileInit => FileInv /\ stage = "tokens"
    BY FileInitially DEF FileInit
  <2> QED BY <2>1 DEF LanguageInit, LanguageInv
<1> QED BY <1>1, LanguageStep, PTL DEF LanguageSpec

\* A name ends before any later token starts.
LEMMA TokensPlaced ==
    ASSUME TypeOK, TokensInOrder, Finished
    PROVE  Placed(tokens)
<1> DEFINE n == Len(tokens)
<1>1. n \in Nat /\ DOMAIN tokens = 1 .. n
  BY DEF TypeOK
<1>2. \A k \in 1 .. n : tokens[k].first \in Nat /\ tokens[k].next \in Nat
  <2>1. \A k \in 1 .. n : tokens[k] \in TokenSet
    BY DEF TypeOK
  <2> QED BY <2>1 DEF TokenSet
<1>3. ASSUME NEW k \in 1 .. n, NEW j \in 1 .. n, k < j PROVE tokens[k].next <= tokens[j].first
  <2> DEFINE Bad == {m \in k + 1 .. n : ~(tokens[k].next <= tokens[m].first)}
  <2>1. ASSUME Bad # {} PROVE FALSE
    <3>1. PICK m \in Bad : \A i \in Bad : m <= i
      <4>1. Bad \in SUBSET Nat
        OBVIOUS
      <4> HIDE DEF Bad
      <4> QED BY <2>1, <4>1, LeastOf
    <3>2. m \in k + 1 .. n /\ ~(tokens[k].next <= tokens[m].first) /\ m \in 1 .. n /\ m > 1
      BY <1>1, <3>1
    <3>3. tokens[m - 1].next <= tokens[m].first /\ tokens[m - 1].first <= tokens[m - 1].next
      <4>1. m \in DOMAIN tokens /\ m - 1 \in DOMAIN tokens
        BY <1>1, <3>2
      <4> QED BY <3>2, <4>1 DEF TokensInOrder
    <3>4. CASE m = k + 1
      <4>1. m - 1 = k
        BY <1>1, <3>4
      <4> QED BY <3>2, <3>3, <4>1
    <3>5. CASE m # k + 1
      <4>1. m - 1 \in k + 1 .. n /\ m - 1 < m /\ m - 1 \in 1 .. n
        BY <1>1, <3>2, <3>5
      <4>2. tokens[k].next <= tokens[m - 1].first
        BY <3>1, <4>1
      <4>3. /\ tokens[k].next \in Nat /\ tokens[m].first \in Nat
            /\ tokens[m - 1].first \in Nat /\ tokens[m - 1].next \in Nat
        BY <1>2, <3>2, <4>1
      <4> QED BY <3>2, <3>3, <4>2, <4>3
    <3> QED BY <3>4, <3>5
  <2>2. j \in k + 1 .. n
    BY <1>1, <1>3
  <2> QED BY <2>1, <2>2
<1>4. ASSUME NEW k \in 1 .. n, NEW j \in 1 .. n, k < j, tokens[k].type = "IDENT"
      PROVE  tokens[k].first < tokens[j].first
  <2>1. tokens[k].first < tokens[k].next
    BY <1>1, <1>4 DEF Finished
  <2> QED BY <1>2, <1>3, <1>4, <2>1
<1> QED BY <1>1, <1>4 DEF Placed

\* What is known of a file that was accepted.
LEMMA AcceptedFile ==
    ASSUME FileInv, Accepted
    PROVE  /\ Len(stack) = 1 /\ Weighed(tokens) = Balanced
           /\ \A body \in BodiesIn(config.node, Len(tokens)) :
                 \A name \in DOMAIN body.attributes : Proper(tokens, body.attributes[name])
<1>1. lexer = "done" /\ config = ParseConfig(tokens) /\ ~config.bad
  BY DEF FileInv, Accepted, Rejected
<1>2. PICK f : Nesting(tokens, f) /\ f[Len(tokens)] = Modes(stack)
  BY DEF FileInv, TokensNest, Traces
<1>3. EndsOnce(tokens)
  <2>1. Len(tokens) \in Nat /\ DOMAIN tokens = 1 .. Len(tokens) /\ tokens \in Seq(TokenSet)
    BY DEF FileInv, LexerInv, TypeOK
  <2>2. Len(tokens) # 0
    BY <1>1, <2>1, EmptySeq DEF FileInv, Finished
  <2> QED BY <1>1, <2>1, <2>2 DEF FileInv, Finished, EndsOnce
<1>4. Spelled(tokens)
  <2>1. ASSUME NEW k \in 1 .. Len(tokens)
        PROVE  IsText(tokens[k].text) /\ (tokens[k].type = "IDENT" => tokens[k].text # <<>>)
    <3>1. tokens \in Seq(TokenSet) /\ k \in DOMAIN tokens
      BY DEF FileInv, LexerInv, TypeOK
    <3>2. tokens[k] \in TokenSet
      BY <3>1
    <3>3. tokens[k].text \in Seq(Alphabet)
      BY <3>2 DEF TokenSet
    <3>4. IsText(tokens[k].text)
      BY <3>3 DEF IsText
    <3> QED BY <3>1, <3>4 DEF FileInv, Finished
  <2> QED BY <1>3, <2>1 DEF Spelled
<1>5. Placed(tokens)
  BY TokensPlaced DEF FileInv, LexerInv, Order
<1>6. /\ Modes(stack) = <<"normal">> /\ Weighed(tokens) = Balanced
      /\ \A body \in BodiesIn(config.node, Len(tokens)) :
            \A name \in DOMAIN body.attributes : Proper(tokens, body.attributes[name])
  BY <1>1, <1>2, <1>4, <1>5, FileSound
<1>7. Len(stack) = 1
  <2>1. Len(stack) \in Nat /\ Len(stack) >= 1
    BY TopIsFrame DEF FileInv, LexerInv
  <2>2. DOMAIN Modes(stack) = 1 .. Len(stack) /\ DOMAIN <<"normal">> = {1}
    BY DEF Modes
  <2>3. Len(stack) \in {1}
    BY <1>6, <2>1, <2>2
  <2> QED BY <2>3
<1> QED BY <1>6, <1>7

(***************************************************************************)
(* Whatever the file: if neither the lexer nor the parser raised a         *)
(* diagnostic about it, it was read to its end with no string, heredoc or  *)
(* interpolation left open, and the brackets outside them pair up, each    *)
(* with one of its kind, though the lexer never matches brackets and the   *)
(* recovery of the parser skips them (parse_file, _recover_to_newline).    *)
(***************************************************************************)
THEOREM AcceptedFilesClose ==
    /\ FileSpec => []AcceptedFilesAreClosed
    /\ LanguageSpec => []AcceptedFilesAreClosed
<1>1. FileInv => AcceptedFilesAreClosed
  BY AcceptedFile DEF AcceptedFilesAreClosed
<1>2. LanguageInv => FileInv
  BY DEF LanguageInv
<1> QED BY <1>1, <1>2, FileSafe, LanguageSafe, PTL

(***************************************************************************)
(* Whatever the file: in one that is accepted, the range of every argument *)
(* of every body, however deep, starts at its name and stops at the end of *)
(* a later token that is no line end, so that no comment behind it is in   *)
(* it (parser.py:168), an unclosed [* excepted.                            *)
(***************************************************************************)
THEOREM RangesLeaveComments ==
    /\ FileSpec => []CommentsStayOutside
    /\ LanguageSpec => []CommentsStayOutside
<1>1. FileInv => CommentsStayOutside
  BY AcceptedFile DEF CommentsStayOutside, Proper, Ranged
<1>2. LanguageInv => FileInv
  BY DEF LanguageInv
<1> QED BY <1>1, <1>2, FileSafe, LanguageSafe, PTL

(***************************************************************************)
(* Trees of expressions.  Value and Variables give an answer at every      *)
(* place of the tree of an expression, from the answers right below it     *)
(* (FoldTree).  In a tree that is finitely deep there is one such answer.  *)
(***************************************************************************)

\* The nodes on the way to a place, the node at it, and all places.
Nodes(e, path) == Way(e, Subexpressions, path)
Under(e, path) == NodeAt(e, Subexpressions, path)
Places(e)      == Paths(e, Subexpressions)

\* f[n] is the node n steps along the path.
Walks(f, e, path, m) ==
    f = [n \in 0 .. m |-> IF n = 0 THEN e ELSE f[n - 1].parts[path[n]]]

\* The recursion of Way has a solution.
LEMMA WalkExists ==
    ASSUME NEW e, NEW path, NEW n \in Nat
    PROVE  \E f : Walks(f, e, path, n)
<1> DEFINE S == {m \in Nat : ~\E f : Walks(f, e, path, m)}
           Turn(g, m) == IF m = 0 THEN e ELSE g[m - 1].parts[path[m]]
<1> SUFFICES ASSUME S # {} PROVE FALSE
  OBVIOUS
<1>1. PICK m \in S : \A k \in S : m <= k
  <2>1. S \in SUBSET Nat
    OBVIOUS
  <2> HIDE DEF S
  <2> QED BY <2>1, LeastOf
<1>2. PICK g : m # 0 => Walks(g, e, path, m - 1)
  <2>1. m # 0 => m - 1 \in Nat /\ m - 1 \notin S
    BY <1>1
  <2> QED BY <2>1
<1> DEFINE w == [k \in 0 .. m |-> IF k = m THEN Turn(g, m) ELSE g[k]]
<1>3. ASSUME NEW k \in 0 .. m PROVE w[k] = Turn(w, k)
  <2>1. CASE k = m
    <3>1. m # 0 => w[m - 1] = g[m - 1]
      BY <1>1
    <3>2. Turn(w, m) = Turn(g, m)
      <4> HIDE DEF w
      <4> QED BY <3>1
    <3>3. w[m] = Turn(g, m)
      <4> HIDE DEF Turn
      <4> QED BY <1>1
    <3> HIDE DEF w, Turn
    <3> QED BY <2>1, <3>2, <3>3
  <2>2. CASE k # m
    <3>1. m # 0 /\ k \in 0 .. m - 1 /\ (k # 0 => k - 1 \in 0 .. m - 1 /\ k - 1 # m)
      BY <1>1, <2>2
    <3>2. g[k] = Turn(g, k)
      BY <1>2, <3>1 DEF Walks
    <3>3. w[k] = g[k] /\ (k # 0 => w[k - 1] = g[k - 1])
      <4> HIDE DEF Turn
      <4> QED BY <1>1, <2>2, <3>1
    <3>4. Turn(w, k) = Turn(g, k)
      <4> HIDE DEF w
      <4> QED BY <3>3
    <3> HIDE DEF w, Turn
    <3> QED BY <3>2, <3>3, <3>4
  <2> QED BY <2>1, <2>2
<1>4. w = [k \in 0 .. m |-> w[k]]
  <2> HIDE DEF Turn
  <2> QED OBVIOUS
<1> HIDE DEF w
<1>5. Walks(w, e, path, m)
  <2>1. w = [k \in 0 .. m |-> Turn(w, k)]
    <3> HIDE DEF Turn
    <3> QED BY <1>3, <1>4
  <2> QED BY <2>1 DEF Walks
<1> QED BY <1>1, <1>5

\* The nodes on the way are as Way says.
LEMMA NodesAre ==
    ASSUME NEW e, NEW path \in Seq(Nat)
    PROVE  /\ Nodes(e, path)[0] = e
           /\ \A n \in 1 .. Len(path) :
                 Nodes(e, path)[n] = Nodes(e, path)[n - 1].parts[path[n]]
<1> DEFINE f == CHOOSE g : Walks(g, e, path, Len(path))
<1>1. Nodes(e, path) = f
  BY DEF Nodes, Way, Walks, Subexpressions
<1>2. Walks(f, e, path, Len(path))
  <2>1. Len(path) \in Nat
    OBVIOUS
  <2>2. \E g : Walks(g, e, path, Len(path))
    BY <2>1, WalkExists
  <2> QED BY <2>2
<1> HIDE DEF f
<1>3. \A n \in 0 .. Len(path) : f[n] = IF n = 0 THEN e ELSE f[n - 1].parts[path[n]]
  BY <1>2 DEF Walks
<1> QED BY <1>1, <1>3

\* A walk is determined by where it starts and where it turns.
LEMMA SameWalk ==
    ASSUME NEW f, NEW g, NEW m \in Nat, f[0] = g[0],
           \A n \in 1 .. m : f[n - 1] = g[n - 1] => f[n] = g[n]
    PROVE  \A n \in 0 .. m : f[n] = g[n]
<1> DEFINE S == {n \in 0 .. m : f[n] # g[n]}
<1> SUFFICES ASSUME S # {} PROVE FALSE
  OBVIOUS
<1>1. PICK n \in S : \A k \in S : n <= k
  <2>1. S \in SUBSET Nat
    OBVIOUS
  <2> HIDE DEF S
  <2> QED BY <2>1, LeastOf
<1>2. n \in 1 .. m /\ n - 1 \in 0 .. m /\ n - 1 \notin S
  BY <1>1
<1> QED BY <1>1, <1>2

\* A longer path leads past the same nodes.
LEMMA NodesBefore ==
    ASSUME NEW e, NEW k \in Nat, NEW path \in Seq(Nat)
    PROVE  \A n \in 0 .. Len(path) : Nodes(e, Append(path, k))[n] = Nodes(e, path)[n]
<1> DEFINE long == Append(path, k)
           f == Nodes(e, long)
           g == Nodes(e, path)
<1>1. /\ Len(path) \in Nat
      /\ \A n \in 1 .. Len(path) : n \in 1 .. Len(long) /\ long[n] = path[n]
  OBVIOUS
<1>2. long \in Seq(Nat)
  OBVIOUS
<1> HIDE DEF long
<1>3. /\ f[0] = e
      /\ \A n \in 1 .. Len(long) : f[n] = f[n - 1].parts[long[n]]
  BY <1>2, NodesAre
<1>4. /\ g[0] = e
      /\ \A n \in 1 .. Len(path) : g[n] = g[n - 1].parts[path[n]]
  BY NodesAre
<1> HIDE DEF f, g
<1>5. \A n \in 1 .. Len(path) : f[n - 1] = g[n - 1] => f[n] = g[n]
  BY <1>1, <1>3, <1>4
<1>6. \A n \in 0 .. Len(path) : f[n] = g[n]
  <2>1. f[0] = g[0] /\ Len(path) \in Nat
    BY <1>1, <1>3, <1>4
  <2> QED BY <1>5, <2>1, SameWalk
<1> QED BY <1>6 DEF f, g, long

\* A place is a path that turns into a part of each node it comes to.
LEMMA PlacesAre ==
    ASSUME NEW e
    PROVE  /\ Places(e) \subseteq Seq(Nat)
           /\ \A path \in Seq(Nat) :
                 path \in Places(e) <=>
                     \A n \in 1 .. Len(path) : path[n] \in DOMAIN Nodes(e, path)[n - 1].parts
<1>1. Places(e) = {path \in Seq(Nat) :
                      \A n \in DOMAIN path : path[n] \in DOMAIN Nodes(e, path)[n - 1].parts}
  BY DEF Places, Paths, Nodes, Way, Subexpressions
<1>2. \A path \in Seq(Nat) : DOMAIN path = 1 .. Len(path)
  OBVIOUS
<1> QED BY <1>1, <1>2

\* One step further down.
LEMMA PlaceBehind ==
    ASSUME NEW e, NEW path \in Seq(Nat), NEW k \in Nat
    PROVE  /\ Append(path, k) \in Places(e) <=>
                  path \in Places(e) /\ k \in DOMAIN Under(e, path).parts
           /\ Under(e, Append(path, k)) = Under(e, path).parts[k]
<1> DEFINE long == Append(path, k)
           m == Len(path)
<1>1. /\ long \in Seq(Nat) /\ Len(long) = m + 1 /\ m \in Nat /\ long[m + 1] = k
      /\ \A n \in 1 .. m : long[n] = path[n]
  OBVIOUS
<1> HIDE DEF long
<1>2. \A n \in 0 .. m : Nodes(e, long)[n] = Nodes(e, path)[n]
  BY NodesBefore DEF long
<1>3. Under(e, path) = Nodes(e, path)[m] /\ Under(e, long) = Nodes(e, long)[m + 1]
  BY <1>1 DEF Under, NodeAt, Nodes
<1> HIDE DEF m
<1>4. Nodes(e, long)[m + 1] = Nodes(e, long)[m].parts[k]
  <2>1. m + 1 \in 1 .. Len(long) /\ (m + 1) - 1 = m
    BY <1>1
  <2> QED BY <1>1, <2>1, NodesAre
<1>5. long \in Places(e) <=> \A n \in 1 .. m + 1 : long[n] \in DOMAIN Nodes(e, long)[n - 1].parts
  BY <1>1, PlacesAre
<1>6. path \in Places(e) <=> \A n \in 1 .. m : path[n] \in DOMAIN Nodes(e, path)[n - 1].parts
  BY PlacesAre DEF m
<1>7. \A n \in 1 .. m : /\ n \in 1 .. m + 1 /\ long[n] = path[n]
                        /\ Nodes(e, long)[n - 1] = Nodes(e, path)[n - 1]
  BY <1>1, <1>2
<1>8. \A n \in 1 .. m + 1 : n \in 1 .. m \/ n = m + 1
  BY <1>1
<1>9. Nodes(e, long)[(m + 1) - 1] = Under(e, path) /\ m + 1 \in 1 .. m + 1
  BY <1>1, <1>2, <1>3
<1>10. long \in Places(e) <=> path \in Places(e) /\ k \in DOMAIN Under(e, path).parts
  BY <1>1, <1>5, <1>6, <1>7, <1>8, <1>9
<1>11. Under(e, long) = Under(e, path).parts[k]
  BY <1>1, <1>2, <1>3, <1>4, SMTT(20)
<1> QED BY <1>10, <1>11 DEF long

\* The expression itself is at the place no step leads away from.
LEMMA RootPlace ==
    ASSUME NEW e
    PROVE  <<>> \in Places(e) /\ Under(e, <<>>) = e
<1> DEFINE none == <<>>
<1>1. none \in Seq(Nat) /\ Len(none) = 0
  OBVIOUS
<1> HIDE DEF none
<1>2. Under(e, none) = e
  BY <1>1, NodesAre DEF Under, NodeAt, Nodes
<1>3. none \in Places(e)
  <2>1. 1 .. Len(none) = {}
    BY <1>1
  <2> QED BY <1>1, <2>1, PlacesAre
<1> QED BY <1>2, <1>3 DEF none

(***************************************************************************)
(* What a tree is worth.  Value and Variables ask something of every node  *)
(* of an expression, and answer from the answers its parts gave.           *)
(***************************************************************************)

Worths(e, of) == [k \in DOMAIN e.parts |-> of[e.parts[k]]]

InScope(context) == [value |-> TRUE, scope |-> context]
Reading            == [value |-> FALSE]

Answer(ask, e, answers) == IF ask.value THEN Combined(e, ask.scope, answers)
                           ELSE References(e, answers)

\* An answer for each expression of a set, and one for each place in a tree.
Answers(w, E, ask) == \A x \in E : w[x] = Answer(ask, x, Worths(x, w))

Solves(of, e, ask) ==
    of = [path \in Places(e) |->
             Answer(ask, Under(e, path),
                    [k \in DOMAIN Under(e, path).parts |-> of[Append(path, k)]])]

\* The parts of an expression are lower than it.
LEMMA PartsBelow ==
    ASSUME NEW f, Grows(f), NEW m \in Nat, NEW x \in f[m]
    PROVE  /\ m # 0 /\ m - 1 \in Nat /\ f[m - 1] \subseteq f[m] /\ Whole(x)
           /\ \A k \in DOMAIN x.parts : k \in Nat /\ x.parts[k] \in f[m - 1]
<1>1. m # 0
  BY DEF Grows
<1>2. m - 1 \in Nat /\ (m - 1) + 1 = m
  BY <1>1
<1>3. f[m - 1] \subseteq f[m] /\ Whole(x) /\ \A k \in DOMAIN x.parts : x.parts[k] \in f[m - 1]
  BY <1>2 DEF Grows
<1>4. \A k \in DOMAIN x.parts : k \in Nat
  BY <1>3 DEF Whole, WellFormed
<1> QED BY <1>1, <1>2, <1>3, <1>4

\* On expressions of bounded height there is an answer to everything.
LEMMA AnswersExist ==
    ASSUME NEW f, Grows(f), NEW ask, NEW n \in Nat
    PROVE  \E w : Answers(w, f[n], ask)
<1> DEFINE S == {m \in Nat : ~\E w : Answers(w, f[m], ask)}
<1> SUFFICES ASSUME S # {} PROVE FALSE
  OBVIOUS
<1>1. PICK m \in S : \A k \in S : m <= k
  <2>1. S \in SUBSET Nat
    OBVIOUS
  <2> HIDE DEF S
  <2> QED BY <2>1, LeastOf
<1>2. m # 0
  <2>1. f[0] = {}
    BY DEF Grows
  <2>2. Answers(f, f[0], ask)
    BY <2>1 DEF Answers
  <2> QED BY <1>1, <2>2
<1>3. PICK v : Answers(v, f[m - 1], ask)
  <2>1. m - 1 \in Nat /\ m - 1 \notin S
    BY <1>1, <1>2
  <2> QED BY <2>1
<1> DEFINE w == [x \in f[m] |-> Answer(ask, x, Worths(x, v))]
<1>4. ASSUME NEW x \in f[m] PROVE w[x] = Answer(ask, x, Worths(x, w))
  <2>1. f[m - 1] \subseteq f[m] /\ \A k \in DOMAIN x.parts : x.parts[k] \in f[m - 1]
    BY <1>1, PartsBelow
  <2>2. \A y \in f[m - 1] : w[y] = v[y]
    BY <1>3, <2>1 DEF Answers
  <2>3. w[x] = Answer(ask, x, Worths(x, v))
    OBVIOUS
  <2> HIDE DEF w
  <2>4. Worths(x, w) = Worths(x, v)
    BY <2>1, <2>2 DEF Worths
  <2> QED BY <2>3, <2>4
<1> HIDE DEF w
<1>5. Answers(w, f[m], ask)
  BY <1>4 DEF Answers
<1> QED BY <1>1, <1>5

\* Every place in a tree holds an expression of its height at most.
LEMMA NodesBounded ==
    ASSUME NEW f, Grows(f), NEW m \in Nat, NEW e \in f[m]
    PROVE  \A path \in Places(e) : Under(e, path) \in f[m]
<1> DEFINE Bad(n) == \E path \in Places(e) : Len(path) = n /\ Under(e, path) \notin f[m]
           S == {n \in Nat : Bad(n)}
<1> SUFFICES ASSUME S # {} PROVE FALSE
  <2>1. \A path \in Places(e) : Len(path) \in Nat
    BY PlacesAre
  <2> QED BY <2>1
<1>1. PICK n \in S : \A j \in S : n <= j
  <2>1. S \in SUBSET Nat
    OBVIOUS
  <2> HIDE DEF S
  <2> QED BY <2>1, LeastOf
<1>2. PICK path \in Places(e) : Len(path) = n /\ Under(e, path) \notin f[m]
  BY <1>1
<1>3. path \in Seq(Nat) /\ n \in Nat
  BY <1>1, PlacesAre
<1>4. n # 0
  <2>1. ASSUME n = 0 PROVE path = <<>>
    BY <1>2, <1>3, <2>1
  <2> QED BY <1>2, <2>1, RootPlace
<1>5. PICK way \in Seq(Nat), k \in Nat : path = Append(way, k) /\ Len(way) = n - 1
  <2>1. /\ SubSeq(path, 1, n - 1) \in Seq(Nat) /\ path[n] \in Nat
        /\ path = Append(SubSeq(path, 1, n - 1), path[n]) /\ Len(SubSeq(path, 1, n - 1)) = n - 1
    BY <1>2, <1>3, <1>4
  <2> QED BY <2>1
<1>6. way \in Places(e) /\ k \in DOMAIN Under(e, way).parts /\ Under(e, path) = Under(e, way).parts[k]
  BY <1>2, <1>5, PlaceBehind
<1>7. Under(e, way) \in f[m]
  <2>1. n - 1 \in Nat /\ n - 1 \notin S
    BY <1>1, <1>3, <1>4
  <2> QED BY <1>5, <1>6, <2>1
<1>8. Under(e, path) \in f[m]
  <2> DEFINE x == Under(e, way)
  <2>1. f[m - 1] \subseteq f[m] /\ \A i \in DOMAIN x.parts : x.parts[i] \in f[m - 1]
    BY <1>7, PartsBelow
  <2> QED BY <1>6, <2>1
<1> QED BY <1>2, <1>8

\* What an expression of the set answers is what its tree says, and nothing else.
LEMMA AnswerOfTree ==
    ASSUME NEW f, Grows(f), NEW m \in Nat, NEW e \in f[m], NEW ask, NEW w, Answers(w, f[m], ask)
    PROVE  /\ \E of : Solves(of, e, ask)
           /\ \A of : Solves(of, e, ask) => of[<<>>] = w[e]
<1>1. \A path \in Places(e) : path \in Seq(Nat) /\ Under(e, path) \in f[m]
  BY NodesBounded, PlacesAre
<1>2. ASSUME NEW path \in Places(e), NEW k \in DOMAIN Under(e, path).parts
      PROVE  Append(path, k) \in Places(e) /\ Under(e, Append(path, k)) = Under(e, path).parts[k]
  <2>1. k \in Nat
    BY <1>1, PartsBelow
  <2> QED BY <1>1, <2>1, PlaceBehind
<1>3. \E of : Solves(of, e, ask)
  <2> DEFINE of == [path \in Places(e) |-> w[Under(e, path)]]
             Made(path) == Answer(ask, Under(e, path),
                                  [k \in DOMAIN Under(e, path).parts |-> of[Append(path, k)]])
  <2>1. ASSUME NEW path \in Places(e) PROVE of[path] = Made(path)
    <3> DEFINE x == Under(e, path)
    <3>1. [k \in DOMAIN x.parts |-> of[Append(path, k)]] = Worths(x, w)
      <4>1. \A k \in DOMAIN x.parts : of[Append(path, k)] = w[x.parts[k]]
        BY <1>2
      <4> HIDE DEF of, x
      <4> QED BY <4>1 DEF Worths
    <3>2. w[x] = Answer(ask, x, Worths(x, w))
      BY <1>1 DEF Answers
    <3>3. of[path] = w[x]
      OBVIOUS
    <3> HIDE DEF of
    <3> QED BY <3>1, <3>2, <3>3
  <2>2. of = [path \in Places(e) |-> of[path]]
    OBVIOUS
  <2>3. of = [path \in Places(e) |-> Made(path)]
    <3> HIDE DEF of, Made
    <3> QED BY <2>1, <2>2
  <2> HIDE DEF of
  <2> QED BY <2>3 DEF Solves
<1>4. ASSUME NEW of, Solves(of, e, ask) PROVE of[<<>>] = w[e]
  <2>0. ASSUME NEW path \in Places(e)
        PROVE  of[path] = Answer(ask, Under(e, path),
                                 [k \in DOMAIN Under(e, path).parts |-> of[Append(path, k)]])
    <3> DEFINE Made(p) == Answer(ask, Under(e, p),
                                 [k \in DOMAIN Under(e, p).parts |-> of[Append(p, k)]])
    <3>1. of = [p \in Places(e) |-> Made(p)]
      BY <1>4 DEF Solves
    <3> HIDE DEF Made
    <3>2. of[path] = Made(path)
      BY <3>1
    <3> QED BY <3>2 DEF Made
  <2> DEFINE Bad(j) == \E path \in Places(e) : Under(e, path) \in f[j] /\ of[path] # w[Under(e, path)]
             S == {j \in Nat : j <= m /\ Bad(j)}
  <2>1. S = {}
    <3> SUFFICES ASSUME S # {} PROVE FALSE
      OBVIOUS
    <3>1. PICK j \in S : \A i \in S : j <= i
      <4>1. S \in SUBSET Nat
        OBVIOUS
      <4> HIDE DEF S
      <4> QED BY <4>1, LeastOf
    <3>2. PICK path \in Places(e) : Under(e, path) \in f[j] /\ of[path] # w[Under(e, path)]
      BY <3>1
    <3> DEFINE x == Under(e, path)
    <3>3. /\ j # 0 /\ j - 1 \in Nat
          /\ \A k \in DOMAIN x.parts : k \in Nat /\ x.parts[k] \in f[j - 1]
      BY <3>1, <3>2, PartsBelow
    <3>4. j - 1 \notin S /\ j - 1 <= m
      BY <3>1, <3>3
    <3>5. \A k \in DOMAIN x.parts : of[Append(path, k)] = w[x.parts[k]]
      <4>1. ASSUME NEW k \in DOMAIN x.parts PROVE of[Append(path, k)] = w[x.parts[k]]
        <5>1. Append(path, k) \in Places(e) /\ Under(e, Append(path, k)) = x.parts[k]
          BY <1>2
        <5>2. x.parts[k] \in f[j - 1]
          BY <3>3
        <5> QED BY <3>3, <3>4, <5>1, <5>2
      <4> QED BY <4>1
    <3>6. of[path] = Answer(ask, x, [k \in DOMAIN x.parts |-> of[Append(path, k)]])
      BY <2>0
    <3>7. [k \in DOMAIN x.parts |-> of[Append(path, k)]] = Worths(x, w)
      <4> HIDE DEF x
      <4> QED BY <3>5 DEF Worths
    <3>8. w[x] = Answer(ask, x, Worths(x, w))
      BY <1>1 DEF Answers
    <3> HIDE DEF x
    <3>9. of[path] = w[x]
      BY <3>6, <3>7, <3>8
    <3> QED BY <3>2, <3>9 DEF x
  <2>2. <<>> \in Places(e) /\ Under(e, <<>>) = e
    BY RootPlace
  <2>3. m \notin S /\ m <= m
    BY <2>1
  <2> QED BY <2>2, <2>3
<1> QED BY <1>3, <1>4

\* Value and Variables are such answers.
LEMMA ValueIs ==
    ASSUME NEW f, Grows(f), NEW m \in Nat, NEW e \in f[m], NEW context,
           NEW w, Answers(w, f[m], InScope(context))
    PROVE  Value(e, context) = w[e]
<1> DEFINE Sol(of) == of = [path \in Places(e) |->
                 Combined(Under(e, path), context,
                          [k \in DOMAIN Under(e, path).parts |-> of[Append(path, k)]])]
           chosen == CHOOSE of : Sol(of)
<1>1. Value(e, context) = chosen[<<>>]
  BY DEF Value, FoldTree, Places, Under, Subexpressions
<1>2. \A of : Sol(of) <=> Solves(of, e, InScope(context))
  BY DEF Solves, Answer, InScope
<1>3. Solves(chosen, e, InScope(context))
  <2>1. \E of : Sol(of)
    <3>1. \E of : Solves(of, e, InScope(context))
      BY AnswerOfTree
    <3> HIDE DEF Sol
    <3> QED BY <1>2, <3>1
  <2>2. Sol(chosen)
    <3> HIDE DEF Sol
    <3> QED BY <2>1
  <2> HIDE DEF Sol, chosen
  <2> QED BY <1>2, <2>2
<1> HIDE DEF chosen
<1> QED BY <1>1, <1>3, AnswerOfTree

LEMMA VariablesAre ==
    ASSUME NEW f, Grows(f), NEW m \in Nat, NEW e \in f[m], NEW w, Answers(w, f[m], Reading)
    PROVE  Variables(e) = w[e]
<1> DEFINE Sol(of) == of = [path \in Places(e) |->
                 References(Under(e, path),
                            [k \in DOMAIN Under(e, path).parts |-> of[Append(path, k)]])]
           chosen == CHOOSE of : Sol(of)
<1>1. Variables(e) = chosen[<<>>]
  BY DEF Variables, FoldTree, Places, Under, Subexpressions
<1>2. \A of : Sol(of) <=> Solves(of, e, Reading)
  BY DEF Solves, Answer, Reading
<1>3. Solves(chosen, e, Reading)
  <2>1. \E of : Sol(of)
    <3>1. \E of : Solves(of, e, Reading)
      BY AnswerOfTree
    <3> HIDE DEF Sol
    <3> QED BY <1>2, <3>1
  <2>2. Sol(chosen)
    <3> HIDE DEF Sol
    <3> QED BY <2>1
  <2> HIDE DEF Sol, chosen
  <2> QED BY <1>2, <2>2
<1> HIDE DEF chosen
<1> QED BY <1>1, <1>3, AnswerOfTree

(***************************************************************************)
(* What an expression is worth.  An evaluation gives each expression of a  *)
(* set its worth in a scope; Evaluate's Value is one, by its definition.   *)
(***************************************************************************)

\* The parts whose value counts: a bare key names itself.
PartsOf(e) == IF BareKey(e) THEN {} ELSE {e.parts[k] : k \in DOMAIN e.parts}

\* Expressions of finite depth.
Syntax(E, height) ==
    /\ height \in [E -> Nat]
    /\ \A e \in E : /\ WellFormed(e)
                    /\ PartsOf(e) \subseteq E
                    /\ \A x \in PartsOf(e) : height[x] < height[e]

Evaluates(of, E, context) == \A e \in E : of[e] = Combined(e, context, Worths(e, of))
ListsReferences(of, E) == \A e \in E : of[e] = References(e, Worths(e, of))

\* More names have a value, and those that had one keep it.
Extends(more, known) ==
    known.given =>
        /\ more.given
        /\ DOMAIN known.names \subseteq DOMAIN more.names
        /\ \A root \in DOMAIN known.names : more.names[root] = known.names[root]

\* The kinds that are worth nothing unless each of their parts is.
Strict == {"relative", "tuple", "object", "unary", "binary", "index"}

\* Only a reference looks into the scope.
LEMMA ScopeMatters ==
    ASSUME NEW e, NEW one, NEW other, NEW ws,
           e.kind = "scope" => Traverse(e.steps, other) = Traverse(e.steps, one)
    PROVE  Combined(e, other, ws) = Combined(e, one, ws)
  <1>1. CASE e.kind = "scope"
    <2>1. \A context : Combined(e, context, ws) = Traverse(e.steps, context)
      BY <1>1 DEF Combined
    <2> QED BY <1>1, <2>1
  <1>2. CASE e.kind # "scope"
    BY <1>2 DEF Combined
  <1> QED BY <1>1, <1>2

\* Parts of the same worth make a whole of the same worth.
LEMMA SameParts ==
    ASSUME NEW e, NEW one, NEW other, NEW of, NEW to,
           \A x \in PartsOf(e) : to[x] = of[x],
           e.kind = "scope" => Traverse(e.steps, other) = Traverse(e.steps, one)
    PROVE  Combined(e, other, Worths(e, to)) = Combined(e, one, Worths(e, of))
  <1>1. CASE BareKey(e)
    BY <1>1 DEF Combined, BareKey
  <1>2. CASE ~BareKey(e)
    <2>1. Worths(e, to) = Worths(e, of)
      BY <1>2 DEF Worths, PartsOf
    <2> QED BY <2>1, ScopeMatters
  <1> QED BY <1>1, <1>2

\* Where every part without a diagnostic keeps its worth, so does a template
\* without one: the part that stopped it stops it again.
LEMMA TemplateStays ==
    ASSUME NEW n \in Nat, NEW ws, NEW xs, DOMAIN ws = 1 .. n, DOMAIN xs = 1 .. n,
           \A k \in 1 .. n : ~ws[k].bad => xs[k] = ws[k],
           ~TemplateValue(ws).bad
    PROVE  TemplateValue(xs) = TemplateValue(ws)
  <1> DEFINE Halts(w, k) == w[k].bad \/ ~Convertible(w[k].v)
             IsFirst(w, k) == Halts(w, k) /\ \A m \in 1 .. k - 1 : ~Halts(w, m)
             First(w) == CHOOSE k \in DOMAIN w : IsFirst(w, k)
  <1>1. \A w : TemplateValue(w) =
            IF \A k \in DOMAIN w : ~Halts(w, k)
            THEN Worth(StringVal(FlattenSeq([k \in DOMAIN w |-> Text(w[k].v)])))
            ELSE IF ~w[First(w)].bad /\ IsUnknown(w[First(w)].v) THEN Worth(UnknownString)
            ELSE Undecidable
    BY DEF TemplateValue
  <1>2. CASE \A k \in 1 .. n : ~Halts(ws, k)
    <2>1. \A k \in 1 .. n : xs[k] = ws[k]
      BY <1>2
    <2>2. [k \in DOMAIN xs |-> Text(xs[k].v)] = [k \in DOMAIN ws |-> Text(ws[k].v)]
      BY <2>1
    <2>3. \A k \in 1 .. n : ~Halts(xs, k)
      BY <1>2, <2>1
    <2> HIDE DEF Halts
    <2> QED BY <1>1, <1>2, <2>2, <2>3
  <1>3. CASE \E k \in 1 .. n : Halts(ws, k)
    <2> DEFINE S == {k \in 1 .. n : Halts(ws, k)}
    <2>1. PICK f \in S : \A m \in S : f <= m
      <3>1. S \in SUBSET Nat /\ S # {}
        BY <1>3
      <3> HIDE DEF S
      <3> QED BY <3>1, LeastOf
    <2>2. f \in 1 .. n /\ IsFirst(ws, f)
      BY <2>1
    <2>3. ASSUME NEW w, DOMAIN w = 1 .. n, IsFirst(w, f) PROVE First(w) = f
      <3>1. First(w) \in DOMAIN w /\ IsFirst(w, First(w))
        <4>1. \E k \in DOMAIN w : IsFirst(w, k)
          BY <2>2, <2>3
        <4> HIDE DEF IsFirst
        <4> QED BY <4>1
      <3>2. ~(f < First(w)) /\ ~(First(w) < f)
        BY <2>2, <2>3, <3>1
      <3> QED BY <2>2, <2>3, <3>1, <3>2
    <2>4. ~ws[f].bad /\ IsUnknown(ws[f].v) /\ TemplateValue(ws) = Worth(UnknownString)
      <3>1. First(ws) = f
        BY <2>2, <2>3
      <3>2. ~\A k \in DOMAIN ws : ~Halts(ws, k)
        BY <1>3
      <3>3. Undecidable.bad = TRUE
        BY DEF Undecidable
      <3> HIDE DEF Halts, First
      <3> QED BY <1>1, <3>1, <3>2, <3>3
    <2>5. IsFirst(xs, f)
      <3>1. \A m \in 1 .. f : xs[m] = ws[m]
        <4>1. \A m \in 1 .. f : m \in 1 .. n /\ (m = f \/ m \in 1 .. f - 1)
          BY <2>2
        <4> QED BY <2>2, <2>4, <4>1
      <3> QED BY <2>2, <3>1
    <2>6. First(xs) = f /\ xs[f] = ws[f]
      BY <2>2, <2>3, <2>4, <2>5
    <2>7. ~\A k \in DOMAIN xs : ~Halts(xs, k)
      BY <2>2, <2>5
    <2> HIDE DEF Halts, First
    <2> QED BY <1>1, <2>4, <2>6, <2>7
  <1> QED BY <1>2, <1>3

LEMMA ConditionalStays ==
    ASSUME NEW ws, NEW xs, DOMAIN ws = 1 .. 3, DOMAIN xs = 1 .. 3,
           \A k \in 1 .. 3 : ~ws[k].bad => xs[k] = ws[k],
           ~ConditionalValue(ws).bad
    PROVE  ConditionalValue(xs) = ConditionalValue(ws)
  <1>1. ~ws[1].bad /\ xs[1] = ws[1]
    BY DEF ConditionalValue, Undecidable
  <1>2. CASE ~Has(ws[1].v, "bool")
    BY <1>1, <1>2 DEF ConditionalValue
  <1>3. CASE Has(ws[1].v, "bool")
    <2>1. \A w : w[1] = ws[1] => ConditionalValue(w) = w[IF ws[1].v.raw THEN 2 ELSE 3]
      BY <1>1, <1>3 DEF ConditionalValue
    <2>2. (IF ws[1].v.raw THEN 2 ELSE 3) \in 1 .. 3
      OBVIOUS
    <2> QED BY <1>1, <2>1, <2>2
  <1> QED BY <1>2, <1>3

\* One expression: it keeps a worth it had without a diagnostic when its
\* parts do and the scope only grows.
LEMMA ExpressionStays ==
    ASSUME NEW e, WellFormed(e), NEW known, NEW more, Extends(more, known), NEW of, NEW to,
           \A x \in PartsOf(e) : ~of[x].bad => to[x] = of[x],
           ~Combined(e, known, Worths(e, of)).bad
    PROVE  Combined(e, more, Worths(e, to)) = Combined(e, known, Worths(e, of))
  <1> DEFINE n  == Len(e.parts)
             ws == Worths(e, of)
             xs == Worths(e, to)
  <1>0. Undecidable.bad = TRUE
    BY DEF Undecidable
  <1>1. ~BareKey(e) => \A k \in 1 .. n : ~ws[k].bad => xs[k] = ws[k]
    BY DEF Worths, PartsOf, WellFormed
  <1>2. n \in Nat /\ DOMAIN ws = 1 .. n /\ DOMAIN xs = 1 .. n
    BY DEF Worths, WellFormed
  <1>12. ws = [k \in 1 .. n |-> ws[k]] /\ xs = [k \in 1 .. n |-> xs[k]]
    BY <1>2 DEF Worths
  <1>3. e.kind \in DOMAIN Arity => n = Arity[e.kind]
    BY DEF WellFormed
  <1> HIDE DEF n, ws, xs
  <1>4. CASE e.kind = "literal" \/ BareKey(e)
    BY <1>4 DEF Combined, BareKey
  <1>5. CASE e.kind = "scope"
    <2>1. \A context, w : Combined(e, context, w) = Traverse(e.steps, context)
      BY <1>5 DEF Combined
    <2>2. known.given /\ e.steps[1].key \in DOMAIN known.names
      BY <1>0, <2>1 DEF Traverse
    <2>3. Traverse(e.steps, more) = Traverse(e.steps, known)
      BY <2>2 DEF Traverse, Extends
    <2> QED BY <2>1, <2>3
  <1>6. CASE e.kind \in Strict
    <2>1. \A context : AnyBad(ws) => Combined(e, context, ws) = Undecidable
      BY <1>6 DEF Combined, Strict
    <2>2. ~AnyBad(ws)
      BY <1>0, <2>1 DEF ws
    <2>3. xs = ws
      BY <1>1, <1>2, <1>12, <1>6, <2>2 DEF AnyBad, Strict, BareKey
    <2> QED BY <1>6, <2>3, ScopeMatters DEF Strict, ws, xs
  <1>7. CASE e.kind = "template"
    <2>1. \A context, w : Combined(e, context, w) = TemplateValue(w)
      BY <1>7 DEF Combined
    <2>2. ~BareKey(e) /\ ~TemplateValue(ws).bad
      BY <1>7, <2>1 DEF BareKey, ws
    <2>3. \A k \in 1 .. n : ~ws[k].bad => xs[k] = ws[k]
      BY ONLY <1>1, <2>2
    <2>4. TemplateValue(xs) = TemplateValue(ws)
      BY ONLY <1>2, <2>2, <2>3, TemplateStays
    <2> QED BY <2>1, <2>4 DEF ws, xs
  <1>8. CASE e.kind = "conditional"
    <2>1. \A context, w : Combined(e, context, w) = ConditionalValue(w)
      BY <1>8 DEF Combined
    <2>2. ~BareKey(e) /\ ~ConditionalValue(ws).bad /\ n = 3
      BY <1>3, <1>8, <2>1 DEF BareKey, Arity, ws
    <2>3. DOMAIN ws = 1 .. 3 /\ DOMAIN xs = 1 .. 3 /\ \A k \in 1 .. 3 : ~ws[k].bad => xs[k] = ws[k]
      BY ONLY <1>1, <1>2, <2>2
    <2>4. ConditionalValue(xs) = ConditionalValue(ws)
      BY ONLY <2>2, <2>3, ConditionalStays
    <2> QED BY <2>1, <2>4 DEF ws, xs
  <1>9. CASE e.kind \in {"wrap", "parentheses", "key"} /\ ~BareKey(e)
    <2>1. \A context, w : Combined(e, context, w) = w[1]
      BY <1>9 DEF Combined
    <2>2. n = 1
      <3>1. e.kind \in DOMAIN Arity /\ Arity[e.kind] = 1
        <4>1. CASE e.kind = "wrap"
          BY <4>1 DEF Arity
        <4>2. CASE e.kind = "parentheses"
          BY <4>2 DEF Arity
        <4>3. CASE e.kind = "key"
          BY <4>3 DEF Arity
        <4> QED BY <1>9, <4>1, <4>2, <4>3
      <3> QED BY <1>3, <3>1
    <2>3. ~ws[1].bad => xs[1] = ws[1]
      BY <1>1, <1>9, <2>2
    <2> QED BY <2>1, <2>3 DEF ws, xs
  <1>10. CASE e.kind \notin Strict \cup {"literal", "scope", "template", "conditional", "wrap",
                                         "parentheses", "key"}
    <2>1. \A context, w : Combined(e, context, w) = Undecidable
      BY <1>10 DEF Combined, Strict
    <2> QED BY <1>0, <2>1
  <1> QED
    BY <1>4, <1>5, <1>6, <1>7, <1>8, <1>9, <1>10

\* No value is a guess: whatever values more names get, an expression that
\* was worth something without them is worth the same with them ("Reporting
\* one would be a guess, and a guess is how a false positive gets in",
\* ast.py:411).
THEOREM KnownValuesStay ==
    ASSUME NEW E, NEW height, Syntax(E, height), NEW known, NEW more, Extends(more, known),
           NEW before, Evaluates(before, E, known), NEW after, Evaluates(after, E, more)
    PROVE  \A e \in E : ~before[e].bad => after[e] = before[e]
  <1> DEFINE Changed == {e \in E : ~before[e].bad /\ after[e] # before[e]}
             S == {height[e] : e \in Changed}
  <1> SUFFICES ASSUME S # {} PROVE FALSE
    OBVIOUS
  <1>1. S \in SUBSET Nat
    BY DEF Syntax
  <1>2. PICK n \in S : \A m \in S : n <= m
    <2> HIDE DEF S
    <2> QED BY <1>1, LeastOf
  <1>3. PICK e \in Changed : n = height[e]
    BY <1>2
  <1>4. ASSUME NEW x \in PartsOf(e), ~before[x].bad PROVE after[x] = before[x]
    <2>1. x \in E /\ height[x] < height[e] /\ height[x] \in Nat /\ height[e] \in Nat
      BY DEF Syntax
    <2>2. x \in Changed => height[e] <= height[x]
      BY <1>2, <1>3
    <2> QED BY <1>4, <2>1, <2>2
  <1>5. WellFormed(e)
    BY DEF Syntax
  <1>6. /\ before[e] = Combined(e, known, Worths(e, before))
        /\ after[e] = Combined(e, more, Worths(e, after))
    BY DEF Evaluates
  <1>7. Combined(e, more, Worths(e, after)) = Combined(e, known, Worths(e, before))
    BY <1>4, <1>5, <1>6, ExpressionStays
  <1> QED BY <1>6, <1>7

\* More names with a value are an extension, of every scope and of none.
LEMMA CompletionExtends ==
    ASSUME NEW context, NEW names
    PROVE  Extends(Completion(context, names), context) /\ Extends(Completion(context, names), NoScope)
  BY DEF Extends, Completion, ScopeOf, NoScope

\* What is worth something in the scope of a directory, or without one, is
\* worth the same whatever a plan gives further names: the case the scan
\* relies on when it judges before the plan.
COROLLARY PlansChangeNoKnownValue ==
    ASSUME NEW E, NEW height, Syntax(E, height), NEW context, NEW known \in {NoScope, context},
           NEW before, Evaluates(before, E, known), NEW names,
           NEW after, Evaluates(after, E, Completion(context, names))
    PROVE  \A e \in E : ~before[e].bad => after[e] = before[e]
  <1>1. Extends(Completion(context, names), known)
    BY CompletionExtends
  <1> QED
    BY ONLY <1>1, KnownValuesStay, Syntax(E, height), Evaluates(before, E, known),
            Evaluates(after, E, Completion(context, names))

(***************************************************************************)
(* The references an expression reads.                                     *)
(***************************************************************************)

Flattens(f, seqs, n) ==
    f = [i \in 1 .. n |-> IF i = 1 THEN seqs[i] ELSE f[i - 1] \o seqs[i]]

LEMMA FlattenExists ==
    ASSUME NEW n \in Nat, NEW seqs
    PROVE  \E f : Flattens(f, seqs, n)
  <1> DEFINE S == {m \in Nat : ~\E f : Flattens(f, seqs, m)}
  <1> SUFFICES ASSUME S # {} PROVE FALSE
    OBVIOUS
  <1>1. PICK m \in S : \A k \in S : m <= k
    <2>1. S \in SUBSET Nat
      OBVIOUS
    <2> HIDE DEF S
    <2> QED BY <2>1, LeastOf
  <1>2. CASE m = 0
    <2>1. Flattens([i \in 1 .. 0 |-> {}], seqs, 0)
      BY DEF Flattens
    <2> QED BY <1>1, <1>2, <2>1
  <1>3. CASE m # 0
    <2>1. m - 1 \in Nat /\ m - 1 \notin S
      BY <1>1, <1>3
    <2>2. PICK g : Flattens(g, seqs, m - 1)
      BY <2>1
    <2> DEFINE f == [i \in 1 .. m |-> IF i = 1 THEN seqs[i]
                                      ELSE IF i = m THEN g[m - 1] \o seqs[m] ELSE g[i]]
    <2>3. \A i \in 1 .. m - 1 : f[i] = g[i]
      <3>1. \A i \in 1 .. m - 1 : i = 1 => g[i] = seqs[i]
        BY <2>2 DEF Flattens
      <3> QED BY <1>1, <3>1
    <2>4. ASSUME NEW i \in 1 .. m PROVE f[i] = IF i = 1 THEN seqs[i] ELSE f[i - 1] \o seqs[i]
      <3>1. CASE i = 1
        BY <3>1
      <3>2. CASE i # 1 /\ i = m
        <4>1. i - 1 \in 1 .. m - 1
          BY <1>1, <3>2
        <4> QED BY <2>3, <3>2, <4>1
      <3>3. CASE i # 1 /\ i # m
        <4>1. i \in 1 .. m - 1 /\ i - 1 \in 1 .. m - 1
          BY <1>1, <3>3
        <4>2. g[i] = g[i - 1] \o seqs[i]
          BY <2>2, <3>3, <4>1 DEF Flattens
        <4> QED BY <2>3, <3>3, <4>1, <4>2
      <3> QED BY <3>1, <3>2, <3>3
    <2>5. Flattens(f, seqs, m)
      <3>1. f = [i \in 1 .. m |-> f[i]]
        OBVIOUS
      <3> HIDE DEF f
      <3> QED BY <2>4, <3>1 DEF Flattens
    <2> QED BY <1>1, <2>5
  <1> QED BY <1>2, <1>3

LEMMA Behind ==
    ASSUME NEW S, NEW a \in Seq(S), NEW b \in Seq(S), NEW x \in DOMAIN b
    PROVE  x + Len(a) \in DOMAIN (a \o b) /\ (a \o b)[x + Len(a)] = b[x]
  <1>1. /\ Len(a) \in Nat /\ Len(b) \in Nat
        /\ DOMAIN b = 1 .. Len(b) /\ DOMAIN (a \o b) = 1 .. Len(a) + Len(b)
    OBVIOUS
  <1>2. x + Len(a) \in 1 .. Len(a) + Len(b) /\ x + Len(a) > Len(a) /\ (x + Len(a)) - Len(a) = x
    BY <1>1
  <1>3. (a \o b)[x + Len(a)] = b[(x + Len(a)) - Len(a)]
    BY <1>1, <1>2
  <1> QED BY <1>1, <1>2, <1>3

Includes(whole, seqs) ==
    \A k \in DOMAIN seqs : \A x \in DOMAIN seqs[k] :
        \E y \in DOMAIN whole : whole[y] = seqs[k][x]

\* FlattenSeq leaves nothing out, and adds nothing.
LEMMA FlattenHolds ==
    ASSUME NEW S, NEW n \in Nat, NEW seqs \in [1 .. n -> Seq(S)], Len(seqs) = n
    PROVE  Includes(FlattenSeq(seqs), seqs) /\ FlattenSeq(seqs) \in Seq(S)
  <1>1. CASE n = 0
    <2>1. FlattenSeq(seqs) = seqs /\ DOMAIN seqs = {}
      BY <1>1 DEF FlattenSeq
    <2>2. seqs \in [1 .. 0 -> S]
      BY <1>1
    <2> QED BY <2>1, <2>2, IsASeq DEF Includes
  <1>2. CASE n # 0
    <2>1. PICK f : Flattens(f, seqs, n) /\ FlattenSeq(seqs) = f[n]
      <3> DEFINE g == CHOOSE h : Flattens(h, seqs, n)
      <3>1. FlattenSeq(seqs) = g[n]
        BY <1>2 DEF FlattenSeq, Flattens
      <3>2. Flattens(g, seqs, n)
        BY FlattenExists
      <3> QED BY <3>1, <3>2
    <2> DEFINE Good(m) == /\ f[m] \in Seq(S)
                          /\ \A k \in 1 .. m : \A x \in DOMAIN seqs[k] :
                                \E y \in DOMAIN f[m] : f[m][y] = seqs[k][x]
               Bad == {m \in 1 .. n : ~Good(m)}
    <2>2. Bad = {}
      <3> SUFFICES ASSUME Bad # {} PROVE FALSE
        OBVIOUS
      <3>1. PICK m \in Bad : \A k \in Bad : m <= k
        <4>1. Bad \in SUBSET Nat
          OBVIOUS
        <4> HIDE DEF Bad
        <4> QED BY <4>1, LeastOf
      <3>2. CASE m = 1
        <4>1. f[1] = seqs[1]
          BY <1>2, <2>1 DEF Flattens
        <4>2. Good(1)
          BY <1>2, <4>1
        <4> HIDE DEF Good
        <4> QED BY <3>1, <3>2, <4>2
      <3>3. CASE m # 1
        <4>1. m - 1 \in 1 .. n /\ m \in 1 .. n
          BY <3>1, <3>3
        <4>2. Good(m - 1)
          <5> HIDE DEF Good
          <5> QED BY <3>1, <4>1
        <4>3. f[m] = f[m - 1] \o seqs[m]
          BY <2>1, <3>3, <4>1 DEF Flattens
        <4>4. f[m - 1] \in Seq(S) /\ seqs[m] \in Seq(S)
          BY <4>1, <4>2
        <4>5. f[m] \in Seq(S)
          BY <4>3, <4>4
        <4>6. \A y \in DOMAIN f[m - 1] : y \in DOMAIN f[m] /\ f[m][y] = f[m - 1][y]
          BY <4>3, <4>4
        <4>7. \A x \in DOMAIN seqs[m] : /\ x + Len(f[m - 1]) \in DOMAIN f[m]
                                        /\ f[m][x + Len(f[m - 1])] = seqs[m][x]
          <5> DEFINE a == f[m - 1]
                     b == seqs[m]
          <5>1. a \in Seq(S) /\ b \in Seq(S) /\ f[m] = a \o b
            BY <4>3, <4>4
          <5> HIDE DEF a, b
          <5>2. \A x \in DOMAIN b : x + Len(a) \in DOMAIN (a \o b) /\ (a \o b)[x + Len(a)] = b[x]
            BY <5>1, Behind
          <5> QED BY <5>1, <5>2 DEF a, b
        <4>8. ASSUME NEW k \in 1 .. m, NEW x \in DOMAIN seqs[k]
              PROVE  \E y \in DOMAIN f[m] : f[m][y] = seqs[k][x]
          <5>1. CASE k = m
            BY <4>7, <5>1
          <5>2. CASE k # m
            <6>1. k \in 1 .. m - 1
              BY <4>1, <5>2
            <6>2. PICK y \in DOMAIN f[m - 1] : f[m - 1][y] = seqs[k][x]
              BY <4>2, <6>1
            <6> QED BY <4>6, <6>2
          <5> QED BY <5>1, <5>2
        <4>9. Good(m)
          BY <4>5, <4>8
        <4> HIDE DEF Good
        <4> QED BY <3>1, <4>9
      <3> QED BY <3>2, <3>3
    <2>3. Good(n)
      <3> HIDE DEF Good
      <3> QED BY <1>2, <2>2
    <2> QED BY <2>1, <2>3 DEF Includes
  <1> QED BY <1>1, <1>2

\* What a part that counts reads, the expression reads.
LEMMA PartsAreRead ==
    ASSUME NEW E, NEW height, Syntax(E, height),
           NEW S, NEW reads \in [E -> Seq(S)], ListsReferences(reads, E),
           NEW e \in E, NEW x \in PartsOf(e), NEW i \in DOMAIN reads[x]
    PROVE  \E j \in DOMAIN reads[e] : reads[e][j] = reads[x][i]
  <1> DEFINE n == Len(e.parts)
             seqs == Worths(e, reads)
  <1>1. reads[e] = References(e, seqs)
    BY DEF ListsReferences
  <1>2. /\ ~BareKey(e) /\ n \in Nat /\ DOMAIN e.parts = 1 .. n
        /\ e.kind \in DOMAIN Arity => n = Arity[e.kind]
        /\ \A k \in 1 .. n : e.parts[k] \in E
    BY DEF Syntax, WellFormed, PartsOf
  <1>3. seqs \in [1 .. n -> Seq(S)] /\ Len(seqs) = n
    <2>1. seqs = [k \in 1 .. n |-> reads[e.parts[k]]]
      BY <1>2 DEF Worths
    <2> QED BY <1>2, <2>1
  <1>4. PICK k \in 1 .. n : seqs[k] = reads[x]
    BY <1>2 DEF PartsOf, Worths
  <1> HIDE DEF n, seqs
  <1>5. CASE e.kind \in {"key", "unary"}
    <2>1. reads[e] = seqs[1]
      BY <1>1, <1>2, <1>5 DEF References, OperandReferences
    <2>2. n = 1
      <3>1. CASE e.kind = "key"
        BY <1>2, <3>1 DEF Arity
      <3>2. CASE e.kind = "unary"
        BY <1>2, <3>2 DEF Arity
      <3> QED BY <1>5, <3>1, <3>2
    <2> QED BY <1>4, <2>1, <2>2
  <1>6. CASE e.kind \in {"literal", "scope"}
    <2>1. n = 0
      <3>1. CASE e.kind = "literal"
        BY <1>2, <3>1 DEF Arity
      <3>2. CASE e.kind = "scope"
        BY <1>2, <3>2 DEF Arity
      <3> QED BY <1>6, <3>1, <3>2
    <2> QED BY <1>2, <2>1
  <1>7. CASE e.kind \notin {"key", "unary", "literal", "scope"}
    <2>1. reads[e] = FlattenSeq(seqs)
      BY <1>1, <1>7 DEF References
    <2>2. Includes(FlattenSeq(seqs), seqs)
      BY <1>2, <1>3, FlattenHolds
    <2>3. k \in DOMAIN seqs /\ i \in DOMAIN seqs[k]
      BY <1>3, <1>4
    <2> QED BY <1>4, <2>1, <2>2, <2>3 DEF Includes
  <1> QED BY <1>5, <1>6, <1>7

\* Two scopes say the same of the names the references start with.
Agree(one, other, references) ==
    \A i \in DOMAIN references :
        LET root == references[i][1].key
        IN  /\ one.given /\ root \in DOMAIN one.names <=> other.given /\ root \in DOMAIN other.names
            /\ one.given /\ root \in DOMAIN one.names => other.names[root] = one.names[root]

\* An expression depends on nothing but the references it reports: in two
\* scopes that agree on those it is worth the same.  With one scope for both:
\* the equations of value have one solution.
THEOREM ValuesDependOnReferences ==
    ASSUME NEW E, NEW height, Syntax(E, height),
           NEW S, NEW reads \in [E -> Seq(S)], ListsReferences(reads, E),
           NEW one, NEW other, NEW before, Evaluates(before, E, one),
           NEW after, Evaluates(after, E, other)
    PROVE  \A e \in E : Agree(one, other, reads[e]) => after[e] = before[e]
  <1> DEFINE Changed == {e \in E : Agree(one, other, reads[e]) /\ after[e] # before[e]}
             D == {height[e] : e \in Changed}
  <1> SUFFICES ASSUME D # {} PROVE FALSE
    OBVIOUS
  <1>1. D \in SUBSET Nat
    BY DEF Syntax
  <1>2. PICK n \in D : \A m \in D : n <= m
    <2> HIDE DEF D
    <2> QED BY <1>1, LeastOf
  <1>3. PICK e \in Changed : n = height[e]
    BY <1>2
  <1>4. ASSUME NEW x \in PartsOf(e) PROVE after[x] = before[x]
    <2>1. e \in E /\ x \in E /\ height[x] < height[e] /\ height[x] \in Nat /\ height[e] \in Nat
      BY DEF Syntax
    <2>2. Agree(one, other, reads[x])
      <3>1. \A i \in DOMAIN reads[x] : \E j \in DOMAIN reads[e] : reads[e][j] = reads[x][i]
        BY <2>1, PartsAreRead
      <3> QED BY <3>1 DEF Agree
    <2>3. x \in Changed => height[e] <= height[x]
      BY <1>2, <1>3
    <2> QED BY <2>1, <2>2, <2>3
  <1>5. ASSUME e.kind = "scope" PROVE Traverse(e.steps, other) = Traverse(e.steps, one)
    <2>1. reads[e] = <<e.steps>>
      BY <1>5 DEF ListsReferences, References
    <2>2. 1 \in DOMAIN reads[e] /\ reads[e][1] = e.steps
      BY <2>1
    <2> QED BY <2>2 DEF Agree, Traverse
  <1>6. /\ before[e] = Combined(e, one, Worths(e, before))
        /\ after[e] = Combined(e, other, Worths(e, after))
    BY DEF Evaluates
  <1> QED BY <1>4, <1>5, <1>6, SameParts

\* A value found through a scope comes with the reference it was found
\* through: where an expression is worth something else than without a scope,
\* it reports a reference (ast.py:300, on the operator that lost it).
COROLLARY ResolvedValuesHaveReferences ==
    ASSUME NEW E, NEW height, Syntax(E, height),
           NEW S, NEW reads \in [E -> Seq(S)], ListsReferences(reads, E),
           NEW alone, Evaluates(alone, E, NoScope), NEW context,
           NEW within, Evaluates(within, E, context), NEW e \in E, within[e] # alone[e]
    PROVE  reads[e] # <<>>
  <1> SUFFICES ASSUME reads[e] = <<>> PROVE FALSE
    OBVIOUS
  <1>1. DOMAIN reads[e] = {}
    OBVIOUS
  <1>2. Agree(NoScope, context, reads[e])
    BY <1>1 DEF Agree
  <1>3. \A d \in E : Agree(NoScope, context, reads[d]) => within[d] = alone[d]
    BY ONLY ValuesDependOnReferences, Syntax(E, height), reads \in [E -> Seq(S)],
            ListsReferences(reads, E), Evaluates(alone, E, NoScope), Evaluates(within, E, context)
  <1> QED BY <1>2, <1>3

(***************************************************************************)
(* From the expressions of a file to what the rules get.                   *)
(***************************************************************************)

\* Expressions of bounded height are of finite depth.
LEMMA LevelSyntax ==
    ASSUME NEW f, Grows(f), NEW m \in Nat
    PROVE  \E height : Syntax(f[m], height)
<1> DEFINE E == f[m]
           Level(x) == {j \in Nat : j <= m /\ x \in f[j]}
           IsLeast(x, j) == j \in Level(x) /\ \A i \in Level(x) : j <= i
           height == [x \in E |-> CHOOSE j : IsLeast(x, j)]
<1>1. ASSUME NEW x \in E PROVE IsLeast(x, height[x])
  <2> DEFINE L == Level(x)
  <2>1. L \in SUBSET Nat
    OBVIOUS
  <2>2. m \in L
    OBVIOUS
  <2>3. \E j \in L : \A i \in L : j <= i
    <3> HIDE DEF L
    <3> QED BY <2>1, <2>2, LeastOf
  <2>4. \E j : IsLeast(x, j)
    <3> HIDE DEF Level
    <3> QED BY <2>3
  <2>5. height[x] = CHOOSE j : IsLeast(x, j)
    <3> HIDE DEF IsLeast
    <3> QED OBVIOUS
  <2> HIDE DEF IsLeast, height
  <2> QED BY <2>4, <2>5
<1>2. DOMAIN height = E /\ height = [x \in E |-> height[x]]
  <2> HIDE DEF IsLeast
  <2> QED OBVIOUS
<1> HIDE DEF height
<1>3. \A x \in E : height[x] \in Nat /\ height[x] <= m /\ x \in f[height[x]]
  BY <1>1
<1>4. height \in [E -> Nat]
  BY <1>2, <1>3
<1>5. ASSUME NEW e \in E
      PROVE  /\ WellFormed(e)
             /\ PartsOf(e) \subseteq E /\ \A x \in PartsOf(e) : height[x] < height[e]
  <2>1. WellFormed(e)
    BY PartsBelow DEF Whole
  <2>2. /\ height[e] # 0 /\ height[e] - 1 \in Nat
        /\ \A k \in DOMAIN e.parts : e.parts[k] \in f[height[e] - 1]
    BY <1>3, PartsBelow
  <2>3. f[m - 1] \subseteq E /\ \A k \in DOMAIN e.parts : e.parts[k] \in f[m - 1]
    BY PartsBelow
  <2>4. ASSUME NEW k \in DOMAIN e.parts PROVE height[e.parts[k]] < height[e]
    <3>1. e.parts[k] \in E /\ e.parts[k] \in f[height[e] - 1] /\ height[e] - 1 <= m
      BY <1>3, <2>2, <2>3
    <3>2. height[e.parts[k]] <= height[e] - 1
      BY <1>1, <2>2, <3>1
    <3> QED BY <1>3, <2>2, <3>1, <3>2
  <2> QED BY <2>1, <2>3, <2>4 DEF PartsOf
<1>6. Syntax(E, height)
  BY <1>4, <1>5 DEF Syntax
<1> QED BY <1>6

\* The references of an expression are references of nodes in it.
LEMMA ReadsAreReferences ==
    ASSUME NEW f, Grows(f), NEW m \in Nat, NEW w, Answers(w, f[m], Reading)
    PROVE  \A x \in f[m] : w[x] \in Seq({y.steps : y \in {z \in f[m] : z.kind = "scope"}})
<1> DEFINE S == {y.steps : y \in {z \in f[m] : z.kind = "scope"}}
           Bad == {j \in Nat : j <= m /\ \E x \in f[j] : w[x] \notin Seq(S)}
<1>0. \A x \in f[m] : x.kind = "scope" => x.steps \in S
  OBVIOUS
<1> HIDE DEF S
<1>1. ASSUME Bad # {} PROVE FALSE
  <2>1. PICK j \in Bad : \A i \in Bad : j <= i
    <3>1. Bad \in SUBSET Nat
      OBVIOUS
    <3> HIDE DEF Bad
    <3> QED BY <1>1, <3>1, LeastOf
  <2>2. PICK x \in f[j] : w[x] \notin Seq(S)
    BY <2>1
  <2>3. f[j] \subseteq f[m] /\ x \in f[m]
    BY <2>1, <2>2, Rises
  <2> DEFINE ws == Worths(x, w)
             n  == Len(x.parts)
  <2>4. w[x] = References(x, ws)
    BY <2>3 DEF Answers, Answer, Reading
  <2>5. /\ j # 0 /\ j - 1 \in Nat /\ Whole(x)
        /\ \A k \in DOMAIN x.parts : x.parts[k] \in f[j - 1]
    BY <2>1, <2>2, PartsBelow
  <2>6. n \in Nat /\ DOMAIN x.parts = 1 .. n /\ (x.kind \in DOMAIN Arity => n = Arity[x.kind])
    BY <2>5 DEF Whole, WellFormed
  <2>7. \A k \in 1 .. n : w[x.parts[k]] \in Seq(S)
    <3>1. j - 1 \notin Bad /\ j - 1 <= m
      BY <2>1, <2>5
    <3> QED BY <2>5, <2>6, <3>1
  <2>8. ws \in [1 .. n -> Seq(S)] /\ \A k \in 1 .. n : ws[k] \in Seq(S)
    <3>1. ws = [k \in 1 .. n |-> w[x.parts[k]]]
      BY <2>6 DEF Worths
    <3> HIDE DEF ws, n
    <3> QED BY <2>7, <3>1
  <2> HIDE DEF ws, n
  <2>9. CASE x.kind = "literal"
    <3>1. w[x] = <<>>
      BY <2>4, <2>9 DEF References
    <3> QED BY <2>2, <3>1
  <2>10. CASE x.kind = "scope"
    <3>1. w[x] = <<x.steps>>
      BY <2>4, <2>10 DEF References
    <3>2. x.steps \in S
      BY <1>0, <2>3, <2>10
    <3> QED BY <2>2, <3>1, <3>2
  <2>11. CASE x.kind \in {"key", "unary"}
    <3>1. w[x] = <<>> \/ w[x] = ws[1]
      BY <2>4, <2>11 DEF References, OperandReferences
    <3>2. n = 1
      <4>1. CASE x.kind = "key"
        BY <2>6, <4>1 DEF Arity
      <4>2. CASE x.kind = "unary"
        BY <2>6, <4>2 DEF Arity
      <4> QED BY <2>11, <4>1, <4>2
    <3>3. ws[1] \in Seq(S)
      BY <2>8, <3>2
    <3>4. <<>> \in Seq(S)
      OBVIOUS
    <3> QED BY <2>2, <3>1, <3>3, <3>4
  <2>12. CASE x.kind \notin {"literal", "scope", "key", "unary"}
    <3>1. w[x] = FlattenSeq(ws)
      BY <2>4, <2>12 DEF References
    <3>2. Len(ws) = n
      BY <2>6, <2>8
    <3>3. FlattenSeq(ws) \in Seq(S)
      BY <2>6, <2>8, <3>2, FlattenHolds
    <3> QED BY <2>2, <3>1, <3>3
  <2> QED BY <2>9, <2>10, <2>11, <2>12
<1>2. m \notin Bad /\ m <= m
  BY <1>1
<1> QED BY <1>2 DEF S

\* A reference is named: first_traversal_name renders at least its root.
LEMMA RootedRenders ==
    ASSUME NEW steps, Rooted(steps)
    PROVE  RenderSteps(steps) # <<>>
<1> DEFINE one(k) == IF k > Len(steps) THEN <<>>
                     ELSE IF steps[k].by = "root" THEN steps[k].key
                     ELSE IF steps[k].by = "attr" THEN <<".">> \o steps[k].key ELSE <<>>
<1>1. RenderSteps(steps) = one(1) \o one(2) \o one(3)
  BY DEF RenderSteps
<1>2. Len(steps) \in Nat /\ Len(steps) # 0
  BY EmptySeq DEF Rooted
<1>3. IsText(one(1)) /\ one(1) # <<>>
  <2>1. one(1) = steps[1].key
    BY <1>2 DEF Rooted
  <2> QED BY <2>1 DEF Rooted
<1>n. IsText(<<>>)
  <2>1. <<>> \in Seq({})
    OBVIOUS
  <2> QED BY <2>1 DEF IsText
<1>4. ASSUME NEW k \in {2, 3} PROVE IsText(one(k))
  <2>1. CASE k > Len(steps)
    BY <1>n, <2>1
  <2>2. CASE ~(k > Len(steps))
    <3>1. k \in 2 .. Len(steps)
      BY <1>2, <2>2
    <3>2. Leads(steps[k])
      BY <3>1 DEF Rooted
    <3>3. CASE steps[k].by = "attr"
      <4>1. one(k) = <<".">> \o steps[k].key /\ IsText(steps[k].key)
        BY <2>2, <3>2, <3>3 DEF Leads
      <4>2. <<".">> \in Seq({"."})
        OBVIOUS
      <4>3. IsText(<<".">>)
        BY <4>2 DEF IsText
      <4> QED BY <4>1, <4>3, MoreText
    <3>4. CASE steps[k].by # "attr"
      <4>1. one(k) = <<>>
        BY <2>2, <3>2, <3>4 DEF Leads
      <4> QED BY <1>n, <4>1
    <3> QED BY <3>3, <3>4
  <2> QED BY <2>1, <2>2
<1>5. IsText(one(2)) /\ IsText(one(3))
  BY <1>4
<1> HIDE DEF one
<1>6. IsText(one(1) \o one(2)) /\ one(1) \o one(2) # <<>>
  BY <1>3, <1>5, MoreText
<1>7. IsText(one(1) \o one(2) \o one(3)) /\ one(1) \o one(2) \o one(3) # <<>>
  BY <1>5, <1>6, MoreText
<1> QED BY <1>1, <1>7

\* An expression that reads a reference names one.
LEMMA ReferencesAreGiven ==
    ASSUME NEW e, NEW S, Variables(e) \in Seq(S), \A steps \in S : Rooted(steps),
           Variables(e) # <<>>
    PROVE  FirstTraversal(e) # <<>>
<1> DEFINE reads == Variables(e)
           Name(k) == RenderSteps(reads[k])
           named == {k \in DOMAIN reads : Name(k) # <<>>}
<1>1. FirstTraversal(e) = IF named = {} THEN <<>> ELSE Name(Min(named))
  BY DEF FirstTraversal
<1>2. DOMAIN reads \in SUBSET Nat /\ 1 \in DOMAIN reads
  BY EmptySeq
<1>3. \A k \in DOMAIN reads : Name(k) # <<>>
  <2>1. \A k \in DOMAIN reads : Rooted(reads[k])
    OBVIOUS
  <2> QED BY <2>1, RootedRenders
<1> HIDE DEF Name
<1>4. 1 \in named /\ named \in SUBSET Nat
  BY <1>2, <1>3
<1>5. Min(named) \in named
  <2>1. \E x \in named : \A y \in named : x <= y
    <3> HIDE DEF named
    <3> QED BY <1>4, LeastOf
  <2> HIDE DEF named
  <2> QED BY <2>1 DEF Min
<1>6. Name(Min(named)) # <<>>
  BY <1>5
<1> QED BY <1>1, <1>4, <1>6

\* Every argument of an accepted file holds an expression the parser built.
LEMMA ArgumentsAreBuilt ==
    ASSUME FileInv, Accepted, NEW e \in Arguments
    PROVE  Built(e)
<1>1. PICK body \in BodiesIn(config.node, Len(tokens)) :
           e \in {body.attributes[name].expr : name \in DOMAIN body.attributes}
  BY DEF Arguments
<1>2. PICK name \in DOMAIN body.attributes : e = body.attributes[name].expr
  BY <1>1
<1> QED BY <1>2, AcceptedFile DEF Proper

(***************************************************************************)
(* Whatever the file: in one that is accepted the expression of every      *)
(* argument is finitely deep, has as many parts as value and variables     *)
(* take of a node of its class, and each reference in it starts with a     *)
(* name (the constructors of parser.py, hcl/ast.py).                       *)
(***************************************************************************)
THEOREM ArgumentsAreTrees == LanguageSpec => [](Accepted => \A e \in Arguments : Built(e))
<1>1. LanguageInv => (Accepted => \A e \in Arguments : Built(e))
  BY ArgumentsAreBuilt DEF LanguageInv
<1> QED BY <1>1, LanguageSafe, PTL

\* What Value says of an expression, on a set of expressions it lies in.
LEMMA ValuesOfBuilt ==
    ASSUME NEW f, Grows(f), NEW m \in Nat, NEW context
    PROVE  \E w : Evaluates(w, f[m], context) /\ \A e \in f[m] : Value(e, context) = w[e]
<1>1. PICK w : Answers(w, f[m], InScope(context))
  BY AnswersExist
<1>2. Evaluates(w, f[m], context)
  BY <1>1 DEF Answers, Answer, InScope, Evaluates
<1>3. \A e \in f[m] : Value(e, context) = w[e]
  BY <1>1, ValueIs
<1> QED BY <1>2, <1>3

\* What Variables says of the expressions of a set: references that start with names.
ReadsOf(reads, E, S) ==
    /\ reads \in [E -> Seq(S)] /\ ListsReferences(reads, E)
    /\ \A steps \in S : Rooted(steps)
    /\ \A e \in E : Variables(e) = reads[e]

\* Such references are what Variables says on a set of expressions.
LEMMA ReferencesOfBuilt ==
    ASSUME NEW f, Grows(f), NEW m \in Nat
    PROVE  \E S, reads : ReadsOf(reads, f[m], S)
<1> DEFINE E == f[m]
           S == {y.steps : y \in {z \in f[m] : z.kind = "scope"}}
<1>1. PICK w : Answers(w, E, Reading)
  BY AnswersExist
<1>2. \A x \in E : w[x] \in Seq(S)
  BY <1>1, ReadsAreReferences
<1>3. \A steps \in S : Rooted(steps)
  BY PartsBelow DEF Whole
<1> DEFINE reads == [x \in E |-> w[x]]
<1> HIDE DEF S
<1>4. reads \in [E -> Seq(S)]
  BY <1>2
<1>5. \A x \in E : reads[x] = w[x]
  OBVIOUS
<1> HIDE DEF reads
<1>6. ASSUME NEW x \in E PROVE reads[x] = References(x, Worths(x, reads))
  <2>1. f[m - 1] \subseteq E /\ \A k \in DOMAIN x.parts : x.parts[k] \in f[m - 1]
    BY PartsBelow
  <2>2. Worths(x, reads) = Worths(x, w)
    BY <1>5, <2>1 DEF Worths
  <2>3. w[x] = References(x, Worths(x, w))
    BY <1>1 DEF Answers, Answer, Reading
  <2> QED BY <1>5, <2>2, <2>3
<1>7. ListsReferences(reads, E)
  BY <1>6 DEF ListsReferences
<1>8. \A e \in E : Variables(e) = reads[e]
  <2>1. \A e \in E : Variables(e) = w[e]
    BY <1>1, VariablesAre
  <2> QED BY <1>5, <2>1
<1>9. ReadsOf(reads, E, S)
  BY <1>3, <1>4, <1>7, <1>8 DEF ReadsOf
<1> QED BY <1>9

\* Whatever values a plan gives further names, Value stays.
LEMMA ValueStays ==
    ASSUME NEW e, Built(e), NEW context, NEW known \in {NoScope, context}, NEW names,
           ~Value(e, known).bad
    PROVE  Value(e, Completion(context, names)) = Value(e, known)
<1>1. PICK f : Grows(f) /\ \E m \in Nat : e \in f[m]
  BY DEF Built
<1>2. PICK m \in Nat : e \in f[m]
  BY <1>1
<1> DEFINE E == f[m]
           more == Completion(context, names)
<1>3. PICK height : Syntax(E, height)
  BY <1>1, LevelSyntax
<1>4. PICK before : Evaluates(before, E, known) /\ \A x \in E : Value(x, known) = before[x]
  BY <1>1, ValuesOfBuilt
<1>5. PICK after : Evaluates(after, E, more) /\ \A x \in E : Value(x, more) = after[x]
  BY <1>1, ValuesOfBuilt
<1> HIDE DEF E
<1>6. \A x \in E : ~before[x].bad => after[x] = before[x]
  BY ONLY known \in {NoScope, context}, <1>3, <1>4, <1>5, PlansChangeNoKnownValue DEF more
<1>7. e \in E
  BY <1>2 DEF E
<1> QED BY <1>4, <1>5, <1>6, <1>7

\* A value that only a scope gives an expression comes with the name of a reference.
LEMMA ResolvedIsNamed ==
    ASSUME NEW e, Built(e), NEW context, Value(e, context) # Value(e, NoScope)
    PROVE  FirstTraversal(e) # <<>>
<1>1. PICK f : Grows(f) /\ \E m \in Nat : e \in f[m]
  BY DEF Built
<1>2. PICK m \in Nat : e \in f[m]
  BY <1>1
<1> DEFINE E == f[m]
<1>3. PICK height : Syntax(E, height)
  BY <1>1, LevelSyntax
<1>4. PICK S, reads : ReadsOf(reads, E, S)
  BY <1>1, ReferencesOfBuilt
<1>5. PICK alone : Evaluates(alone, E, NoScope) /\ \A x \in E : Value(x, NoScope) = alone[x]
  BY <1>1, ValuesOfBuilt
<1>6. PICK within : Evaluates(within, E, context) /\ \A x \in E : Value(x, context) = within[x]
  BY <1>1, ValuesOfBuilt
<1> HIDE DEF E
<1>7. e \in E
  BY <1>2 DEF E
<1>8. reads \in [E -> Seq(S)] /\ ListsReferences(reads, E)
  BY <1>4 DEF ReadsOf
<1>9. reads[e] # <<>>
  <2>1. within[e] # alone[e]
    BY <1>5, <1>6, <1>7
  <2> QED
    BY ONLY <1>3, <1>5, <1>6, <1>7, <1>8, <2>1, ResolvedValuesHaveReferences
<1>10. /\ Variables(e) \in Seq(S) /\ Variables(e) # <<>>
       /\ \A steps \in S : Rooted(steps)
  BY <1>4, <1>7, <1>9 DEF ReadsOf
<1> QED BY <1>10, ReferencesAreGiven

(***************************************************************************)
(* Whatever the file, and however deep its expressions: a value that is    *)
(* wholly known without the plan, or through the locals and defaults of    *)
(* its own directory, is the value, whatever the plan gives the names      *)
(* nobody knows yet ("Reporting one would be a guess", ast.py:411).        *)
(***************************************************************************)
THEOREM NoValueIsGuessed == LanguageSpec => []NothingIsGuessed
<1>1. ASSUME LanguageInv PROVE NothingIsGuessed
  <2> SUFFICES ASSUME stage = "converted", NEW e \in Arguments, NEW known \in {NoScope, scope},
                      ~Value(e, known).bad, NEW outcome \in Outcomes
               PROVE  LET after == Value(e, Completed(outcome))
                      IN  ~after.bad /\ Rendered(after.v) = Rendered(Value(e, known).v)
    BY DEF NothingIsGuessed
  <2>1. Built(e)
    BY <1>1, ArgumentsAreBuilt DEF LanguageInv
  <2>2. Value(e, Completed(outcome)) = Value(e, known)
    BY <2>1, ValueStays DEF Completed
  <2> QED BY <2>2
<1>2. LanguageInv => NothingIsGuessed
  BY <1>1
<1> QED BY <1>2, LanguageSafe, PTL

(***************************************************************************)
(* Whatever the file: where the literal of an argument was found through   *)
(* the scope, _attr_to_attribute says which reference it came from, so     *)
(* that the finding can name the line that holds the literal (ast.py:300). *)
(***************************************************************************)
THEOREM ResolvedLiteralsAreNamed == LanguageSpec => []ReferencesAreNamed
<1>1. ASSUME LanguageInv PROVE ReferencesAreNamed
  <2> SUFFICES ASSUME stage = "converted", NEW e \in Arguments,
                      Value(e, NoScope).bad, ToAttribute(e, scope).literal
               PROVE  ToAttribute(e, scope).from # <<>>
    BY DEF ReferencesAreNamed
  <2> DEFINE alone  == Value(e, NoScope)
             within == Value(e, scope)
             found  == [literal |-> TRUE, raw |-> Rendered(within.v), from |-> FirstTraversal(e)]
  <2>1. ToAttribute(e, scope) =
            IF scope.given /\ ~within.bad /\ WhollyKnown(within.v) THEN found ELSE Unread
    BY DEF ToAttribute
  <2>2. ~Unread.literal
    BY DEF Unread
  <2>3. ~within.bad /\ ToAttribute(e, scope) = found
    <3> HIDE DEF within, found
    <3> QED BY <2>1, <2>2
  <2>4. Built(e)
    BY <1>1, ArgumentsAreBuilt DEF LanguageInv
  <2>5. within # alone
    BY <2>3
  <2>6. FirstTraversal(e) # <<>>
    BY <2>4, <2>5, ResolvedIsNamed
  <2> HIDE DEF within
  <2> QED BY <2>3, <2>6
<1>2. LanguageInv => ReferencesAreNamed
  BY <1>1
<1> QED BY <1>2, LanguageSafe, PTL
=============================================================================
