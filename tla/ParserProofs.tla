---------------------------- MODULE ParserProofs -----------------------------
(***************************************************************************)
(* The parser.  Over tokens that open and close as the lexer's frames do,  *)
(* each method promises what it does to the modes and brackets around it   *)
(* and where what it read ends, unless it raises a diagnostic; it keeps    *)
(* the promise if the calls it makes keep theirs.  FileSound says what     *)
(* that means for a file: FrontEndProofs joins it to the lexer.            *)
(***************************************************************************)
EXTENDS SourceFile, SequenceTheorems, FiniteSetTheorems, WellFoundedInduction, TLAPS

Code == {"normal", "interp"}

LEMMA LeastOf ==
    ASSUME NEW S \in SUBSET Nat, S # {}
    PROVE  \E n \in S : \A m \in S : n <= m
  <1> DEFINE R == {p \in Nat \X Nat : p[1] < p[2]}
  <1>1. IsWellFoundedOn(R, Nat)
    BY NatLessThanWellFounded DEF OpToRel
  <1> HIDE DEF R
  <1>2. PICK n \in S : \A m \in S : ~(<<m, n>> \in R)
    BY <1>1, WFMin
  <1>3. \A m \in S : ~(m < n)
    BY <1>2 DEF R
  <1> QED BY <1>3

Opens  == [OQUOTE |-> "template", OHEREDOC |-> "heredoc", INTERP |-> "interp",
           CONTROL |-> "interp"]
Closes == [CQUOTE |-> "template", CHEREDOC |-> "heredoc", SEQ_END |-> "interp"]

Follows(before, type, after) ==
    CASE type \in DOMAIN Opens  -> after = Append(before, Opens[type])
      [] type \in DOMAIN Closes -> before = Append(after, Closes[type])
      [] OTHER -> after = before

\* What may stand in a string or heredoc; everything else stands in code.
Quoted == {"LITERAL", "INTERP", "CONTROL", "CQUOTE", "CHEREDOC"}
Innermost(modes) == modes[Len(modes)]
Fits(before, type) == Innermost(before) \in IF type \in Quoted THEN Quotation ELSE Code
-----------------------------------------------------------------------------
(***************************************************************************)
(* The parser.  The context of a position is what the lexer has open in    *)
(* front of it, and which brackets outside all sequences wait to be closed.*)
(***************************************************************************)
Contexts == [modes : Seq(Code \cup Quotation),
             weight : [pending : Seq(Closers), inside : Int, stray : BOOLEAN]]

Traced(t, x) ==
    /\ Len(t) \in Nat \ {0}
    /\ \A k \in 1 .. Len(t) : (Type(t, k) = "EOF") <=> (k = Len(t))
    /\ x \in [0 .. Len(t) -> Contexts]
    /\ \A k \in 1 .. Len(t) : /\ Follows(x[k - 1].modes, Type(t, k), x[k].modes)
                              /\ Fits(x[k - 1].modes, Type(t, k))
                              /\ x[k].weight = Weigh(t, x[k - 1].weight, k)

Mode(x, i)   == Innermost(x[i - 1].modes)
Ready(x, i)  == Mode(x, i) \in Code /\ x[i - 1].weight.inside \in Nat

Brackets == Openers \cup Closers
Turning  == DOMAIN Opens \cup DOMAIN Closes

LEMMA Appended ==
    ASSUME NEW S, NEW a \in Seq(S), NEW m \in S
    PROVE  Append(a, m) \in Seq(S) /\ Append(a, m) # <<>> /\ Innermost(Append(a, m)) = m
  BY DEF Innermost

LEMMA AppendedAlike ==
    ASSUME NEW S, NEW a \in Seq(S), NEW b \in Seq(S), NEW m \in S, NEW n \in S,
           Append(a, m) = Append(b, n)
    PROVE  a = b /\ m = n
<1>1. Len(a) = Len(b)
  BY Len(Append(a, m)) = Len(a) + 1, Len(Append(b, n)) = Len(b) + 1, Len(a) \in Nat, Len(b) \in Nat
<1>2. m = n
  BY <1>1, Append(a, m)[Len(a) + 1] = m, Append(b, n)[Len(b) + 1] = n
<1>3. \A k \in 1 .. Len(a) : a[k] = b[k]
  BY <1>1, \A k \in 1 .. Len(a) : Append(a, m)[k] = a[k], \A k \in 1 .. Len(b) : Append(b, n)[k] = b[k]
<1> QED BY <1>1, <1>2, <1>3

LEMMA ContextsAlike ==
    ASSUME NEW c \in Contexts, NEW d \in Contexts, c.modes = d.modes, c.weight = d.weight
    PROVE  c = d
  BY DEF Contexts

LEMMA WeightsAlike ==
    ASSUME NEW W, NEW c \in [pending : W, inside : Int, stray : BOOLEAN],
           NEW d \in [pending : W, inside : Int, stray : BOOLEAN],
           c.pending = d.pending, c.inside = d.inside, c.stray = d.stray
    PROVE  c = d
  OBVIOUS

\* How each kind of token moves the modes.
LEMMA Kinds ==
    ASSUME NEW t, NEW x, Traced(t, x), NEW k \in 1 .. Len(t)
    PROVE  LET before == x[k - 1].modes
               after  == x[k].modes
               type   == Type(t, k)
           IN  /\ x[k] \in Contexts /\ x[k - 1] \in Contexts
               /\ before \in Seq(Code \cup Quotation) /\ after \in Seq(Code \cup Quotation)
               /\ type \notin Turning => after = before
               /\ type = "OQUOTE" => after = Append(before, "template")
               /\ type = "OHEREDOC" => after = Append(before, "heredoc")
               /\ type \in {"INTERP", "CONTROL"} => after = Append(before, "interp")
               /\ type = "CQUOTE" => before = Append(after, "template")
               /\ type = "CHEREDOC" => before = Append(after, "heredoc")
               /\ type = "SEQ_END" => before = Append(after, "interp")
               /\ Innermost(before) \in IF type \in Quoted THEN Quotation ELSE Code
  <1>1. k - 1 \in 0 .. Len(t) /\ k \in 0 .. Len(t)
    BY DEF Traced
  <1>2. x[k] \in Contexts /\ x[k - 1] \in Contexts
    BY <1>1 DEF Traced
  <1>3. Follows(x[k - 1].modes, Type(t, k), x[k].modes) /\ Fits(x[k - 1].modes, Type(t, k))
    BY DEF Traced
  <1>4. x[k].modes \in Seq(Code \cup Quotation) /\ x[k - 1].modes \in Seq(Code \cup Quotation)
    BY <1>2 DEF Contexts
  <1> QED BY <1>2, <1>3, <1>4 DEF Follows, Fits, Opens, Closes, Turning

LEMMA Quiet ==
    ASSUME NEW t, NEW x, Traced(t, x), NEW k \in 1 .. Len(t), Type(t, k) \notin Turning,
           Type(t, k) = "OPERATOR" => Token(t, k).text \notin Brackets \/ InSplat(t, k)
    PROVE  x[k] = x[k - 1]
  <1>1. x[k].modes = x[k - 1].modes /\ x[k] \in Contexts /\ x[k - 1] \in Contexts
    BY Kinds
  <1>2. x[k].weight = x[k - 1].weight
    <2> DEFINE v == x[k - 1].weight
               w == x[k].weight
    <2>1. w = Weigh(t, v, k) /\ v.stray \in BOOLEAN
      BY <1>1 DEF Traced, Contexts
    <2>2. Type(t, k) \notin {"INTERP", "CONTROL", "SEQ_END"}
      BY DEF Turning, Opens, Closes
    <2>3. <<>> \notin Brackets
      BY DEF Brackets, Openers, Closers
    <2> HIDE DEF v, w
    <2>4. w.inside = v.inside /\ w.pending = v.pending /\ w.stray = v.stray
      BY <2>1, <2>2, <2>3 DEF Weigh, Brackets
    <2> USE DEF v, w
    <2> QED BY <1>1, <2>4, WeightsAlike DEF Contexts
  <1> QED BY <1>1, <1>2, ContextsAlike

Others == {"[", "]", "(", ")", "*", "=", ":", ".", "!", "-", "?", "<", ">", "+", "/", "%"}

\* The braces are no other bracket and no star.
LEMMA Braces ==
    /\ Brace \notin Others /\ EndBrace \notin Others /\ Brace # EndBrace
    /\ Comma \notin Others \cup {Brace, EndBrace}
  BY Zenon DEF Brace, EndBrace, Comma, Others

\* What a bracket outside all sequences does to the weight.
LEMMA BracketsDiffer ==
    /\ \A op \in Openers : op \notin Closers /\ Closer[op] \in Closers /\ Closer[op] \notin Openers
    /\ <<>> \notin Openers \cup Closers
<1>1. <<>> \notin Openers \cup Closers
  BY DEF Openers, Closers
<1>2. \A op \in Openers : op \notin Closers
  BY Braces DEF Openers, Closers, Others
<1>3. \A op \in Openers : Closer[op] \in Closers
  BY DEF Closer, Openers, Closers
<1> QED BY <1>1, <1>2, <1>3

LEMMA BracesPair == <<Brace>> \in Openers /\ Closer[<<Brace>>] = <<EndBrace>>
<1>1. <<Brace>> # <<"[">> /\ <<Brace>> # <<"(">>
  BY Braces DEF Others
<1>2. <<Brace>> \in Openers
  BY DEF Openers
<1> QED BY <1>1, <1>2 DEF Closer

LEMMA OpenerWeighs ==
    ASSUME NEW t, NEW k, NEW op \in Openers, Is(t, k, op), ~InSplat(t, k), NEW v, v.inside = 0,
           v.stray \in BOOLEAN
    PROVE  LET w == Weigh(t, v, k)
           IN  w.inside = 0 /\ w.pending = <<Closer[op]>> \o v.pending /\ w.stray = v.stray
<1>1. op \notin Closers /\ Type(t, k) \notin {"INTERP", "CONTROL", "SEQ_END"}
  BY BracketsDiffer DEF Is
<1> QED BY <1>1 DEF Weigh, Is

LEMMA CloserWeighs ==
    ASSUME NEW t, NEW k, NEW op \in Openers, Is(t, k, Closer[op]), ~InSplat(t, k), NEW v,
           v.inside = 0, v.pending # <<>>, v.pending[1] = Closer[op], v.stray \in BOOLEAN
    PROVE  LET w == Weigh(t, v, k)
           IN  w.inside = 0 /\ w.pending = Tail(v.pending) /\ w.stray = v.stray
<1>1. /\ Closer[op] \in Closers /\ Closer[op] \notin Openers
      /\ Type(t, k) \notin {"INTERP", "CONTROL", "SEQ_END"}
  BY BracketsDiffer DEF Is
<1> QED BY <1>1 DEF Weigh, Is

\* A bracket and the one that closes it.
LEMMA Pair ==
    ASSUME NEW t, NEW x, Traced(t, x), NEW k \in 1 .. Len(t), NEW j \in 1 .. Len(t),
           x[k - 1].weight.inside \in Nat, NEW op \in Openers,
           Is(t, k, op), ~InSplat(t, k), Is(t, j, Closer[op]), ~InSplat(t, j), x[j - 1] = x[k]
    PROVE  x[j] = x[k - 1]
  <1> DEFINE a == x[k - 1].weight
             b == x[k].weight
             c == x[j].weight
  <1>0. k - 1 \in 0 .. Len(t) /\ k \in 0 .. Len(t) /\ j \in 0 .. Len(t)
    BY DEF Traced
  <1>1. /\ x[k].modes = x[k - 1].modes /\ x[k] \in Contexts /\ x[k - 1] \in Contexts
        /\ x[j].modes = x[j - 1].modes /\ x[j] \in Contexts
    <2>1. "OPERATOR" \notin Turning
      BY DEF Turning, Opens, Closes
    <2> QED BY <2>1, Kinds DEF Is
  <1>2. a \in [pending : Seq(Closers), inside : Int, stray : BOOLEAN]
    BY <1>1 DEF Contexts
  <1>3. Closer[op] \in Closers
    BY BracketsDiffer
  <1>4. b = Weigh(t, a, k) /\ c = Weigh(t, b, j)
    BY <1>0 DEF Traced
  <1>5. b \in [pending : Seq(Closers), inside : Int, stray : BOOLEAN]
        /\ c \in [pending : Seq(Closers), inside : Int, stray : BOOLEAN]
    BY <1>1 DEF Contexts
  <1> HIDE DEF a, b, c
  <1>6. a.stray \in BOOLEAN /\ a.pending \in Seq(Closers)
    BY <1>2
  <1>7. ASSUME a.inside # 0 PROVE c = a
    <2>1. b.inside = a.inside /\ b.pending = a.pending /\ b.stray = a.stray
      BY <1>4, <1>6, <1>7, BracketsDiffer DEF Weigh, Is
    <2>2. c.inside = b.inside /\ c.pending = b.pending /\ c.stray = b.stray
      BY <1>4, <1>6, <1>7, <2>1, BracketsDiffer DEF Weigh, Is
    <2> QED BY <1>2, <1>5, <2>1, <2>2, WeightsAlike
  <1>8. ASSUME a.inside = 0 PROVE c = a
    <2>1. b.inside = 0 /\ b.pending = <<Closer[op]>> \o a.pending /\ b.stray = a.stray
      <3>1. a.stray \in BOOLEAN /\ a.inside = 0 /\ b = Weigh(t, a, k)
        BY <1>4, <1>6, <1>8
      <3>2. LET w == Weigh(t, a, k)
            IN  w.inside = 0 /\ w.pending = <<Closer[op]>> \o a.pending /\ w.stray = a.stray
        BY <3>1, OpenerWeighs, SMTT(30)
      <3> QED BY <3>1, <3>2
    <2>2. <<Closer[op]>> \in Seq(Closers)
      BY <1>3
    <2>3. /\ b.pending # <<>> /\ b.pending[1] = Closer[op] /\ Tail(b.pending) = a.pending
      BY <1>6, <2>1, <2>2, SMTT(30)
    <2>4. c.inside = 0 /\ c.pending = a.pending /\ c.stray = a.stray
      <3>1. b.stray \in BOOLEAN /\ b.inside = 0 /\ c = Weigh(t, b, j)
        BY <1>4, <1>6, <2>1
      <3>2. c.inside = 0 /\ c.pending = Tail(b.pending) /\ c.stray = b.stray
        BY <2>3, <3>1, CloserWeighs
      <3> QED BY <2>1, <2>3, <3>2
    <2> QED BY <1>2, <1>5, <1>8, <2>4, WeightsAlike
  <1>9. c = a
    BY <1>7, <1>8
  <1> QED BY <1>1, <1>9, ContextsAlike DEF a, c

\* The sequence of a token that opens or closes one.
LEMMA Enters ==
    ASSUME NEW t, NEW x, Traced(t, x), NEW k \in 1 .. Len(t), Type(t, k) \in {"INTERP", "CONTROL"}
    PROVE  LET v == x[k - 1].weight
               w == x[k].weight
           IN  w.inside = v.inside + 1 /\ w.pending = v.pending /\ w.stray = v.stray
<1> DEFINE v == x[k - 1].weight
           w == x[k].weight
<1>1. w = Weigh(t, v, k) /\ v.stray \in BOOLEAN
  BY Kinds DEF Traced, Contexts
<1>2. <<>> \notin Openers \cup Closers
  BY DEF Openers, Closers
<1> HIDE DEF v, w
<1>3. w.inside = v.inside + 1 /\ w.pending = v.pending /\ w.stray = v.stray
  BY <1>1, <1>2 DEF Weigh
<1> QED BY <1>3 DEF v, w

LEMMA Leaves ==
    ASSUME NEW t, NEW x, Traced(t, x), NEW k \in 1 .. Len(t), Type(t, k) = "SEQ_END"
    PROVE  LET v == x[k - 1].weight
               w == x[k].weight
           IN  w.inside = v.inside - 1 /\ w.pending = v.pending /\ w.stray = v.stray
<1> DEFINE v == x[k - 1].weight
           w == x[k].weight
<1>1. w = Weigh(t, v, k) /\ v.stray \in BOOLEAN
  BY Kinds DEF Traced, Contexts
<1>2. <<>> \notin Openers \cup Closers
  BY DEF Openers, Closers
<1> HIDE DEF v, w
<1>3. w.inside = v.inside - 1 /\ w.pending = v.pending /\ w.stray = v.stray
  BY <1>1, <1>2 DEF Weigh
<1> QED BY <1>3 DEF v, w

-----------------------------------------------------------------------------
(* Positions *)

Alike(x, i, j) == x[j - 1] = x[i - 1]
Clean(t, j)   == Is(t, j, <<"]">>) => ~InSplat(t, j)
Ends(t, j)    == Type(t, j - 1) # "NEWLINE" /\ Clean(t, j)

LEMMA Continue ==
    ASSUME NEW x, NEW i, NEW j, Alike(x, i, j), Ready(x, i)
    PROVE  Ready(x, j)
  BY DEF Alike, Ready, Mode

LEMMA NotTheLast ==
    ASSUME NEW t, NEW x, Traced(t, x), NEW k \in 1 .. Len(t), Type(t, k) # "EOF"
    PROVE  k + 1 \in 1 .. Len(t) /\ k < Len(t) /\ k \in Nat /\ Len(t) \in Nat
<1>1. k # Len(t) /\ Len(t) \in Nat
  BY DEF Traced
<1> QED BY <1>1

\* A token that opens and closes nothing.
LEMMA PlainStep ==
    ASSUME NEW t, NEW x, Traced(t, x), NEW k \in 1 .. Len(t),
           Type(t, k) \in {"NEWLINE", "NUMBER", "IDENT", "LITERAL", "INVALID"}
    PROVE  k + 1 \in k + 1 .. Len(t) /\ k + 1 \in 1 .. Len(t) /\ Alike(x, k, k + 1)
<1>1. Type(t, k) \notin Turning /\ Type(t, k) # "OPERATOR" /\ Type(t, k) # "EOF"
  BY DEF Turning, Opens, Closes
<1>2. x[k] = x[k - 1]
  BY <1>1, Quiet
<1>3. (k + 1) - 1 = k
  OBVIOUS
<1> QED BY <1>1, <1>2, <1>3, NotTheLast DEF Alike

\* An operator that is no bracket, or is one of [*].
LEMMA OperatorStep ==
    ASSUME NEW t, NEW x, Traced(t, x), NEW k \in 1 .. Len(t), NEW op, Is(t, k, op),
           op \notin Brackets \/ InSplat(t, k)
    PROVE  k + 1 \in k + 1 .. Len(t) /\ k + 1 \in 1 .. Len(t) /\ Alike(x, k, k + 1)
<1>1. Type(t, k) \notin Turning /\ Type(t, k) # "EOF"
  BY DEF Turning, Opens, Closes, Is
<1>2. x[k] = x[k - 1]
  BY <1>1, Quiet DEF Is
<1>3. (k + 1) - 1 = k
  OBVIOUS
<1> QED BY <1>1, <1>2, <1>3, NotTheLast DEF Alike

LEMMA NoBrackets ==
    /\ \A op \in {<<":">>, <<"?">>, <<Comma>>, <<"=">>, <<".">>, <<"!">>, <<"-">>, <<"*">>} :
          op \notin Brackets
    /\ \A op \in {<<":", ":">>, <<".", ".", ".">>, <<"=", ">">>} : op \notin Brackets
    /\ \A level \in DOMAIN BinaryLevels : \A op \in BinaryLevels[level] : op \notin Brackets
<1>1. \A a \in (Others \cup {Comma}) \ {"[", "]", "(", ")"} : <<a>> \notin Brackets
  BY Braces DEF Brackets, Openers, Closers, Others
<1>2. \A a, b : <<a, b>> \notin Brackets
  BY DEF Brackets, Openers, Closers
<1>3. \A a, b, c : <<a, b, c>> \notin Brackets
  BY DEF Brackets, Openers, Closers
<1>4. ASSUME NEW level \in DOMAIN BinaryLevels, NEW op \in BinaryLevels[level]
      PROVE  op \notin Brackets
  <2>1. level \in {"or", "and", "equality", "comparison", "sum", "product"}
    BY DEF BinaryLevels
  <2>2. CASE level = "or"
    BY <1>2, <2>2 DEF BinaryLevels
  <2>3. CASE level = "and"
    BY <1>2, <2>3 DEF BinaryLevels
  <2>4. CASE level = "equality"
    BY <1>2, <2>4 DEF BinaryLevels
  <2>5. CASE level = "comparison"
    BY <1>1, <1>2, <2>5 DEF BinaryLevels, Others
  <2>6. CASE level = "sum"
    BY <1>1, <2>6 DEF BinaryLevels, Others
  <2>7. CASE level = "product"
    BY <1>1, <2>7 DEF BinaryLevels, Others
  <2> QED BY <2>1, <2>2, <2>3, <2>4, <2>5, <2>6, <2>7
<1>5. \A op \in {<<":">>, <<"?">>, <<Comma>>, <<"=">>, <<".">>, <<"!">>, <<"-">>, <<"*">>} :
          op \notin Brackets
  <2>1. {":", "?", Comma, "=", ".", "!", "-", "*"} \subseteq (Others \cup {Comma}) \ {"[", "]", "(", ")"}
    BY Braces DEF Others
  <2> QED BY <1>1, <2>1
<1>6. \A op \in {<<":", ":">>, <<".", ".", ".">>, <<"=", ">">>} : op \notin Brackets
  BY <1>2, <1>3
<1> QED BY <1>4, <1>5, <1>6

LEMMA LinesStay ==
    ASSUME NEW t, NEW x, Traced(t, x), NEW i \in 1 .. Len(t)
    PROVE  LET j == Lines(t, i)
           IN  /\ j \in i .. Len(t) /\ j \in 1 .. Len(t) /\ Type(t, j) # "NEWLINE" /\ Alike(x, i, j)
               /\ j = i \/ (j > i /\ j > 1 /\ Type(t, j - 1) = "NEWLINE")
               /\ Type(t, i) # "NEWLINE" => j = i
<1> DEFINE S == {j \in i .. Len(t) : Type(t, j) # "NEWLINE"}
           j == Lines(t, i)
<1>0. Len(t) \in Nat /\ i \in Nat /\ i >= 1
  BY DEF Traced
<1>1. Len(t) \in S
  BY <1>0 DEF Traced
<1>2. \E n \in S : \A m \in S : n <= m
  <2>1. S \in SUBSET Nat /\ S # {}
    BY <1>0, <1>1
  <2> HIDE DEF S
  <2> QED BY <2>1, LeastOf
<1>3. j = CHOOSE n \in S : \A m \in S : n <= m
  BY DEF Lines, Min
<1>4. j \in S /\ \A m \in S : j <= m
  <2> HIDE DEF S, j
  <2> QED BY <1>2, <1>3
<1> HIDE DEF j
<1>5. ASSUME NEW k \in i .. Len(t), k < j PROVE Type(t, k) = "NEWLINE"
  <2>1. k \notin S
    BY <1>0, <1>4, <1>5
  <2> QED BY <2>1
<1>6. j = i \/ (j > i /\ j > 1 /\ Type(t, j - 1) = "NEWLINE")
  <2>1. j \in i .. Len(t)
    BY <1>4
  <2>2. CASE j # i
    <3>1. j > i /\ j > 1 /\ j - 1 \in i .. Len(t) /\ j - 1 < j
      BY <1>0, <2>1, <2>2
    <3> QED BY <1>5, <3>1
  <2> QED BY <2>2
<1>7. Type(t, i) # "NEWLINE" => j = i
  <2>1. Type(t, i) # "NEWLINE" => i \in S
    BY <1>0
  <2>2. i \in S => j <= i
    BY <1>4
  <2> QED BY <1>0, <1>4, <2>1, <2>2
<1>8. Alike(x, i, j)
  <2> DEFINE Bad == {k \in i .. j : x[k - 1] # x[i - 1]}
  <2> SUFFICES ASSUME Bad # {} PROVE FALSE
    <3>1. j \in i .. j
      BY <1>0, <1>4
    <3> QED BY <3>1 DEF Alike
  <2>1. PICK k \in Bad : \A m \in Bad : k <= m
    <3>1. Bad \in SUBSET Nat
      BY <1>0
    <3> HIDE DEF Bad
    <3> QED BY <3>1, LeastOf
  <2>2. k # i /\ k \in i .. j
    BY <2>1
  <2>3. k - 1 \in i .. Len(t) /\ k - 1 < j /\ k - 1 \in i .. j /\ k - 1 \in 1 .. Len(t) /\ k - 1 < k
    BY <1>0, <1>4, <2>2
  <2>4. Type(t, k - 1) = "NEWLINE"
    BY <1>5, <2>3
  <2>5. Alike(x, k - 1, (k - 1) + 1)
    BY <2>3, <2>4, PlainStep
  <2>6. (k - 1) + 1 = k
    BY <2>3
  <2>7. x[k - 1] = x[(k - 1) - 1]
    BY <2>5, <2>6 DEF Alike
  <2>8. k - 1 \in Bad
    BY <2>1, <2>3, <2>7
  <2> QED BY <2>1, <2>3, <2>8
<1> QED BY <1>0, <1>4, <1>6, <1>7, <1>8 DEF j

\* What ends with a token that is neither a line end nor the star of [*.
LEMMA EndsBehind ==
    ASSUME NEW t, NEW k \in Nat, Type(t, k) # "NEWLINE", ~Is(t, k, <<"*">>)
    PROVE  Ends(t, k + 1)
<1>1. (k + 1) - 1 = k /\ (k + 1) - 2 = k - 1
  OBVIOUS
<1>2. <<"]">> # <<"[">>
  OBVIOUS
<1> QED BY <1>1, <1>2 DEF Ends, Clean, InSplat, Unclosed, Is

\* From an opening bracket to behind the closing one.
LEMMA Bracketing ==
    ASSUME NEW t, NEW x, Traced(t, x), NEW k \in 1 .. Len(t), NEW j \in k + 1 .. Len(t),
           Ready(x, k), NEW op \in Openers,
           Is(t, k, op), ~InSplat(t, k), Is(t, j, Closer[op]), ~InSplat(t, j), Alike(x, k + 1, j)
    PROVE  /\ j + 1 \in k + 1 .. Len(t) /\ j + 1 \in 1 .. Len(t)
           /\ Alike(x, k, j + 1) /\ Ends(t, j + 1)
<1>1. j \in 1 .. Len(t) /\ j \in Nat /\ k \in Nat /\ (j + 1) - 1 = j /\ (k + 1) - 1 = k
  BY DEF Traced
<1>2. x[j] = x[k - 1]
  BY <1>1, Pair DEF Ready, Alike
<1>3. Type(t, j) # "NEWLINE" /\ Type(t, j) # "EOF" /\ ~Is(t, j, <<"*">>)
  <2>1. Closer[op] # <<"*">>
    BY Braces DEF Closer, Openers, Others
  <2> QED BY <2>1 DEF Is
<1>4. Ends(t, j + 1)
  BY <1>1, <1>3, EndsBehind
<1>5. j + 1 \in 1 .. Len(t) /\ j < Len(t) /\ Len(t) \in Nat
  BY <1>1, <1>3, NotTheLast
<1> QED BY <1>1, <1>2, <1>4, <1>5 DEF Alike

\* Behind an opening bracket, it is still code.
LEMMA OpenedAlike ==
    ASSUME NEW t, NEW x, Traced(t, x), NEW k \in 1 .. Len(t), Ready(x, k),
           Type(t, k) = "OPERATOR"
    PROVE  Ready(x, k + 1) /\ x[k].modes = x[k - 1].modes /\ x[k].weight.inside = x[k - 1].weight.inside
<1>1. Type(t, k) \notin Turning
  BY DEF Turning, Opens, Closes
<1>2. x[k].modes = x[k - 1].modes
  BY <1>1, Kinds
<1>3. x[k].weight = Weigh(t, x[k - 1].weight, k)
  BY DEF Traced
<1>4. x[k].weight.inside = x[k - 1].weight.inside
  BY <1>3 DEF Weigh
<1>5. (k + 1) - 1 = k
  OBVIOUS
<1> QED BY <1>2, <1>4, <1>5 DEF Ready, Mode

\* Where a bracket is closed without a diagnostic.
LEMMA ClosedFine ==
    ASSUME NEW t, NEW e, NEW node, NEW op, ~Closed(t, e, node, op).bad
    PROVE  ~e.bad /\ Is(t, e.i, op) /\ Closed(t, e, node, op).i = e.i + 1
  BY DEF Closed, Closing, Match, Read

-----------------------------------------------------------------------------
(* What each kind of read keeps, when it raises no diagnostic *)

\* A read that consumes something, in code, and leaves the context as it was.
Eager(t, x, i, r) ==
    ~r.bad => r.i \in i + 1 .. Len(t) /\ Alike(x, i, r.i) /\ Ends(t, r.i) /\ ~Is(t, i, <<"*">>)

\* One that may consume nothing.
Onward(t, x, i, r) ==
    ~r.bad => r.i \in i .. Len(t) /\ Alike(x, i, r.i) /\ (r.i = i \/ Ends(t, r.i))

Listed(t, x, i, r) ==
    ~r.bad => /\ r.i \in i .. Len(t) /\ Alike(x, i, r.i) /\ ~Is(t, i, <<"*">>)
              /\ i > 1 /\ ~Is(t, i - 1, <<"*">>) => Clean(t, r.i)

Neutral(t, x, i, r) == ~r.bad => r.i \in i .. Len(t) /\ Alike(x, i, r.i)

Rules == {"expression", "unary", "primary"} \cup DOMAIN BinaryLevels

Callees == {"", "name"}

SoundInCode(t, x, read) ==
    \A i \in 1 .. Len(t) : Ready(x, i) =>
        /\ \A rule \in Rules : Eager(t, x, i, Further(read, rule, i))
        /\ \A level \in DOMAIN BinaryLevels : Onward(t, x, i, Told(read, "operations", i, level))
        /\ \A callee \in Callees : Onward(t, x, i, Told(read, "postfixes", i, callee))
        /\ Onward(t, x, i, Further(read, "qualified", i))
        /\ \A close \in {"]", ")"} : Listed(t, x, i, Told(read, "elements", i, close))
        /\ Neutral(t, x, i, Further(read, "items", i))

LEMMA ExpressionRead ==
    ASSUME NEW t, NEW x, NEW read, SoundInCode(t, x, read), NEW i \in 1 .. Len(t), Ready(x, i),
           ~Expression(read, i).bad
    PROVE  LET r == Expression(read, i)
           IN  /\ r.i \in i + 1 .. Len(t) /\ r.i \in 1 .. Len(t) /\ Alike(x, i, r.i) /\ Ready(x, r.i)
               /\ Ends(t, r.i) /\ ~Is(t, i, <<"*">>)
<1>1. Eager(t, x, i, Expression(read, i))
  BY DEF SoundInCode, Rules, Expression
<1> QED BY <1>1, Continue DEF Eager

LEMMA RuleRead ==
    ASSUME NEW t, NEW x, NEW read, SoundInCode(t, x, read), NEW i \in 1 .. Len(t), Ready(x, i),
           NEW rule \in Rules, ~Further(read, rule, i).bad
    PROVE  LET r == Further(read, rule, i)
           IN  /\ r.i \in i + 1 .. Len(t) /\ r.i \in 1 .. Len(t) /\ Alike(x, i, r.i) /\ Ready(x, r.i)
               /\ Ends(t, r.i) /\ ~Is(t, i, <<"*">>)
<1>1. Eager(t, x, i, Further(read, rule, i))
  BY DEF SoundInCode
<1> QED BY <1>1, Continue DEF Eager

\* A read that consumes, and one behind it that may.
LEMMA OneThenMore ==
    ASSUME NEW t, NEW x, NEW i \in Nat, NEW j \in i + 1 .. Len(t), Alike(x, i, j), Ends(t, j),
           NEW r, Onward(t, x, j, r), ~r.bad
    PROVE  r.i \in i + 1 .. Len(t) /\ Alike(x, i, r.i) /\ Ends(t, r.i)
  BY DEF Onward, Alike

LEMMA ConditionalSound ==
    ASSUME NEW t, NEW x, NEW read, Traced(t, x), SoundInCode(t, x, read),
           NEW i \in 1 .. Len(t), Ready(x, i)
    PROVE  Eager(t, x, i, Conditional(t, read, i))
<1> DEFINE condition == Further(read, "or", i)
           yes == Expression(read, condition.i + 1)
           no  == Expression(read, yes.i + 1)
           r   == Conditional(t, read, i)
<1> SUFFICES ASSUME ~r.bad
             PROVE  r.i \in i + 1 .. Len(t) /\ Alike(x, i, r.i) /\ Ends(t, r.i) /\ ~Is(t, i, <<"*">>)
  BY DEF Eager
<1>1. ~condition.bad
  BY DEF Conditional, Branches, Read
<1>2. /\ condition.i \in i + 1 .. Len(t) /\ condition.i \in 1 .. Len(t) /\ Alike(x, i, condition.i)
      /\ Ready(x, condition.i) /\ Ends(t, condition.i) /\ ~Is(t, i, <<"*">>)
  <2>1. "or" \in Rules
    BY DEF Rules, BinaryLevels
  <2> QED BY <1>1, <2>1, RuleRead
<1>3. CASE ~Is(t, condition.i, <<"?">>)
  BY <1>2, <1>3 DEF Conditional
<1>4. CASE Is(t, condition.i, <<"?">>)
  <2>1. r = Branches(t, read, condition, yes)
    BY <1>4 DEF Conditional
  <2>2. Is(t, yes.i, <<":">>)
    BY <2>1 DEF Branches, Read
  <2>3. ~yes.bad /\ ~no.bad /\ r.i = no.i
    <3> HIDE DEF condition, yes, r
    <3>1. ~yes.bad /\ ~no.bad
      BY <2>1, <2>2 DEF Branches, Read
    <3>2. r.i = no.i
      BY <2>1, <2>2 DEF Branches, Read
    <3> QED BY <3>1, <3>2
  <2>4. condition.i + 1 \in 1 .. Len(t) /\ Alike(x, condition.i, condition.i + 1)
    BY <1>2, <1>4, NoBrackets, OperatorStep
  <2> HIDE DEF condition, r
  <2>5. yes.i \in condition.i + 2 .. Len(t) /\ yes.i \in 1 .. Len(t) /\ Alike(x, condition.i + 1, yes.i)
        /\ Ready(x, yes.i)
    BY <1>2, <2>3, <2>4, ExpressionRead, Continue
  <2> HIDE DEF yes
  <2>6. yes.i + 1 \in 1 .. Len(t) /\ Alike(x, yes.i, yes.i + 1)
    BY <2>2, <2>5, NoBrackets, OperatorStep
  <2>7. no.i \in yes.i + 2 .. Len(t) /\ Alike(x, yes.i + 1, no.i) /\ Ends(t, no.i)
    BY <2>3, <2>5, <2>6, ExpressionRead, Continue
  <2> HIDE DEF no
  <2>8. no.i \in i + 1 .. Len(t)
    BY <1>2, <2>5, <2>7
  <2>9. Alike(x, i, no.i)
    BY <1>2, <2>4, <2>5, <2>6, <2>7 DEF Alike
  <2> QED BY <1>2, <2>3, <2>7, <2>8, <2>9
<1> QED BY <1>3, <1>4

LEMMA BinarySound ==
    ASSUME NEW t, NEW x, NEW read, Traced(t, x), SoundInCode(t, x, read),
           NEW i \in 1 .. Len(t), Ready(x, i), NEW level \in DOMAIN BinaryLevels
    PROVE  Eager(t, x, i, Binary(read, level, i))
<1> DEFINE left == Further(read, Tighter[level], i)
           rest == Told(read, "operations", left.i, level)
           r    == Binary(read, level, i)
<1> SUFFICES ASSUME ~r.bad
             PROVE  r.i \in i + 1 .. Len(t) /\ Alike(x, i, r.i) /\ Ends(t, r.i) /\ ~Is(t, i, <<"*">>)
  BY DEF Eager
<1>1. ~left.bad /\ ~rest.bad /\ r.i = rest.i
  BY DEF Binary, Read
<1>2. Tighter[level] \in Rules
  BY DEF Tighter, Rules, BinaryLevels
<1>3. /\ left.i \in i + 1 .. Len(t) /\ left.i \in 1 .. Len(t) /\ Alike(x, i, left.i)
      /\ Ready(x, left.i) /\ Ends(t, left.i) /\ ~Is(t, i, <<"*">>)
  BY <1>1, <1>2, RuleRead
<1>4. Onward(t, x, left.i, rest)
  BY <1>3 DEF SoundInCode
<1> HIDE DEF left, rest, r
<1> QED BY <1>1, <1>3, <1>4, OneThenMore

LEMMA OperationsSound ==
    ASSUME NEW t, NEW x, NEW read, Traced(t, x), SoundInCode(t, x, read),
           NEW i \in 1 .. Len(t), Ready(x, i), NEW level \in DOMAIN BinaryLevels
    PROVE  Onward(t, x, i, Operations(t, read, i, level))
<1> DEFINE op    == Token(t, i).text
           right == Further(read, Tighter[level], i + 1)
           rest  == Told(read, "operations", right.i, level)
           r     == Operations(t, read, i, level)
<1> SUFFICES ASSUME ~r.bad
             PROVE  r.i \in i .. Len(t) /\ Alike(x, i, r.i) /\ (r.i = i \/ Ends(t, r.i))
  BY DEF Onward
<1>1. CASE ~(Type(t, i) = "OPERATOR" /\ op \in BinaryLevels[level])
  <2>1. r.i = i
    BY <1>1 DEF Operations, None, Read
  <2> QED BY <2>1 DEF Alike, Traced
<1>2. CASE Type(t, i) = "OPERATOR" /\ op \in BinaryLevels[level]
  <2>1. ~right.bad /\ ~rest.bad /\ r.i = rest.i
    BY <1>2 DEF Operations, Prefixed, Read
  <2>2. Is(t, i, op) /\ op \notin Brackets
    BY <1>2, NoBrackets DEF Is
  <2>3. i + 1 \in 1 .. Len(t) /\ Alike(x, i, i + 1) /\ Ready(x, i + 1)
    BY <2>2, OperatorStep, Continue
  <2>4. Tighter[level] \in Rules
    BY DEF Tighter, Rules, BinaryLevels
  <2>5. /\ right.i \in i + 2 .. Len(t) /\ right.i \in 1 .. Len(t) /\ Alike(x, i + 1, right.i)
        /\ Ready(x, right.i) /\ Ends(t, right.i)
    BY <2>1, <2>3, <2>4, RuleRead
  <2>6. Onward(t, x, right.i, rest)
    BY <2>5 DEF SoundInCode
  <2>7. Alike(x, i, right.i)
    BY <2>3, <2>5 DEF Alike
  <2> HIDE DEF right, rest, r
  <2>8. r.i \in i + 1 .. Len(t) /\ Alike(x, i, r.i) /\ Ends(t, r.i)
    BY <2>1, <2>5, <2>6, <2>7, OneThenMore
  <2> QED BY <2>8
<1> QED BY <1>1, <1>2

LEMMA GetAttrSound ==
    ASSUME NEW t, NEW x, Traced(t, x), NEW i \in 1 .. Len(t), Is(t, i, <<".">>),
           i + 1 \in 1 .. Len(t), ~GetAttr(t, i + 1).bad
    PROVE  LET r == GetAttr(t, i + 1)
           IN  r.i \in i + 2 .. Len(t) /\ Alike(x, i + 1, r.i) /\ Ends(t, r.i)
<1>0. (i + 1) + 1 = i + 2 /\ i + 1 \in Nat
  OBVIOUS
<1>1. CASE Is(t, i + 1, <<"*">>)
  <2>1. GetAttr(t, i + 1).i = i + 2
    BY <1>1 DEF GetAttr, Read
  <2>2. i + 2 \in i + 2 .. Len(t) /\ Alike(x, i + 1, i + 2)
    BY <1>0, <1>1, NoBrackets, OperatorStep
  <2>3. Ends(t, i + 2)
    <3>1. ~Is(t, i, <<"[">>)
      BY DEF Is
    <3>2. (i + 2) - 1 = i + 1 /\ (i + 2) - 2 = i
      OBVIOUS
    <3> QED BY <1>1, <3>1, <3>2 DEF Ends, Clean, InSplat, Unclosed, Is
  <2> QED BY <2>1, <2>2, <2>3
<1>2. CASE ~Is(t, i + 1, <<"*">>)
  <2>1. Type(t, i + 1) \in {"IDENT", "NUMBER"} /\ GetAttr(t, i + 1).i = i + 2
    BY <1>2 DEF GetAttr, Read
  <2>2. i + 2 \in i + 2 .. Len(t) /\ Alike(x, i + 1, i + 2)
    BY <1>0, <2>1, PlainStep
  <2>3. Ends(t, i + 2)
    BY <1>0, <1>2, <2>1, EndsBehind
  <2> QED BY <2>1, <2>2, <2>3
<1> QED BY <1>1, <1>2

LEMMA IndexSound ==
    ASSUME NEW t, NEW x, NEW read, Traced(t, x), SoundInCode(t, x, read),
           NEW i \in 1 .. Len(t), Ready(x, i), Is(t, i, <<"[">>), i + 1 \in 1 .. Len(t),
           ~Index(t, read, i + 1).bad
    PROVE  LET r == Index(t, read, i + 1)
           IN  r.i \in i + 2 .. Len(t) /\ Alike(x, i, r.i) /\ Ends(t, r.i)
<1> DEFINE r   == Index(t, read, i + 1)
           key == Expression(read, i + 1)
<1>0. i \in Nat /\ Len(t) \in Nat /\ (i + 1) - 1 = i /\ (i + 2) - 1 = i + 1 /\ (i + 2) - 2 = i
      /\ (i + 1) + 1 = i + 2 /\ (i + 2) + 1 = i + 3 /\ (i + 3) - 1 = i + 2
  BY DEF Traced
<1>1. CASE Is(t, i + 1, <<"*">>)
  <2>1. InSplat(t, i)
    BY <1>1 DEF InSplat
  <2>2. Alike(x, i, i + 1)
    BY <2>1, OperatorStep
  <2>3. i + 2 \in 1 .. Len(t) /\ Alike(x, i + 1, i + 2)
    BY <1>0, <1>1, NoBrackets, OperatorStep
  <2>4. r.i = Match(t, i + 2, <<"]">>)
    BY <1>0, <1>1 DEF Index, Read
  <2>5. CASE Is(t, i + 2, <<"]">>)
    <3>1. r.i = i + 3
      BY <1>0, <2>4, <2>5 DEF Match
    <3>2. InSplat(t, i + 2)
      BY <1>0, <1>1, <2>5 DEF InSplat, Unclosed
    <3>3. i + 3 \in 1 .. Len(t) /\ Alike(x, i + 2, i + 3)
      BY <1>0, <2>3, <2>5, <3>2, OperatorStep
    <3>4. Ends(t, i + 3)
      BY <1>0, <2>5, EndsBehind, i + 2 \in Nat DEF Is
    <3> HIDE DEF r
    <3> QED BY <1>0, <2>2, <2>3, <3>1, <3>3, <3>4 DEF Alike, r
  <2>6. CASE ~Is(t, i + 2, <<"]">>)
    <3>1. r.i = i + 2
      BY <2>4, <2>6 DEF Match
    <3>2. Ends(t, i + 2)
      BY <1>0, <1>1, <2>6 DEF Ends, Clean, Is
    <3> HIDE DEF r
    <3> QED BY <1>0, <2>2, <2>3, <3>1, <3>2 DEF Alike, r
  <2> QED BY <2>5, <2>6
<1>2. CASE ~Is(t, i + 1, <<"*">>)
  <2>1. ~Closed(t, key, [by |-> "index", key |-> key.node], <<"]">>).bad
        /\ r = Closed(t, key, [by |-> "index", key |-> key.node], <<"]">>)
    BY <1>2 DEF Index
  <2>2. ~key.bad /\ Is(t, key.i, <<"]">>) /\ r.i = key.i + 1
    BY <2>1, ClosedFine
  <2>3. ~InSplat(t, i)
    BY <1>2 DEF InSplat, Is
  <2>4. Ready(x, i + 1)
    BY OpenedAlike DEF Is
  <2> HIDE DEF r
  <2>5. key.i \in i + 2 .. Len(t) /\ Alike(x, i + 1, key.i) /\ Ends(t, key.i)
    BY <1>0, <2>2, <2>4, ExpressionRead
  <2> HIDE DEF key
  <2>6. ~InSplat(t, key.i)
    BY <2>2, <2>5 DEF Ends, Clean
  <2>7. <<"[">> \in Openers /\ Closer[<<"[">>] = <<"]">>
    BY DEF Openers, Closer
  <2>8. key.i \in i + 1 .. Len(t)
    BY <1>0, <2>5
  <2>9. key.i + 1 \in i + 1 .. Len(t) /\ Alike(x, i, key.i + 1) /\ Ends(t, key.i + 1)
    BY <2>2, <2>3, <2>5, <2>6, <2>7, <2>8, Bracketing
  <2> QED BY <1>0, <2>2, <2>5, <2>9 DEF r
<1> QED BY <1>1, <1>2

LEMMA CallSound ==
    ASSUME NEW t, NEW x, NEW read, Traced(t, x), SoundInCode(t, x, read),
           NEW i \in 1 .. Len(t), Ready(x, i), Is(t, i, <<"(">>), i + 1 \in 1 .. Len(t),
           ~Call(t, read, i + 1).bad
    PROVE  LET r == Call(t, read, i + 1)
           IN  r.i \in i + 2 .. Len(t) /\ Alike(x, i, r.i) /\ Ends(t, r.i)
<1> DEFINE r    == Call(t, read, i + 1)
           args == Told(read, "elements", i + 1, ")")
<1>0. i \in Nat /\ Len(t) \in Nat /\ (i + 1) - 1 = i
  BY DEF Traced
<1>1. ~args.bad /\ Is(t, args.i, <<")">>) /\ r.i = args.i + 1
  BY ClosedFine DEF Call
<1>2. Ready(x, i + 1)
  BY OpenedAlike DEF Is
<1>3. Listed(t, x, i + 1, args)
  BY <1>2 DEF SoundInCode
<1> HIDE DEF args, r
<1>4. args.i \in i + 1 .. Len(t) /\ Alike(x, i + 1, args.i)
  BY <1>1, <1>3 DEF Listed
<1>5. ~InSplat(t, i) /\ ~InSplat(t, args.i)
  BY <1>1 DEF InSplat, Is
<1>6. <<"(">> \in Openers /\ Closer[<<"(">>] = <<")">>
  BY DEF Openers, Closer
<1>7. args.i + 1 \in i + 1 .. Len(t) /\ Alike(x, i, args.i + 1) /\ Ends(t, args.i + 1)
  BY <1>1, <1>4, <1>5, <1>6, Bracketing
<1> QED BY <1>0, <1>1, <1>4, <1>7 DEF r

LEMMA SuffixSound ==
    ASSUME NEW t, NEW x, NEW read, Traced(t, x), SoundInCode(t, x, read),
           NEW i \in 1 .. Len(t), Ready(x, i),
           Is(t, i, <<".">>) \/ Is(t, i, <<"[">>) \/ Is(t, i, <<"(">>), ~Suffix(t, read, i).bad
    PROVE  LET r == Suffix(t, read, i)
           IN  r.i \in i + 2 .. Len(t) /\ Alike(x, i, r.i) /\ Ends(t, r.i)
<1>1. i + 1 \in 1 .. Len(t)
  BY NotTheLast DEF Is
<1>2. CASE Is(t, i, <<".">>)
  <2>1. Suffix(t, read, i) = GetAttr(t, i + 1)
    BY <1>2 DEF Suffix, Is
  <2>2. Alike(x, i, i + 1)
    BY <1>2, NoBrackets, OperatorStep
  <2> QED BY <1>1, <1>2, <2>1, <2>2, GetAttrSound DEF Alike
<1>3. CASE Is(t, i, <<"[">>)
  <2>1. Suffix(t, read, i) = Index(t, read, i + 1)
    BY <1>3 DEF Suffix, Is
  <2> QED BY <1>1, <1>3, <2>1, IndexSound
<1>4. CASE Is(t, i, <<"(">>)
  <2>1. Suffix(t, read, i) = Call(t, read, i + 1)
    BY <1>4 DEF Suffix, Is
  <2> QED BY <1>1, <1>4, <2>1, CallSound
<1> QED BY <1>2, <1>3, <1>4

LEMMA PostfixesSound ==
    ASSUME NEW t, NEW x, NEW read, Traced(t, x), SoundInCode(t, x, read),
           NEW i \in 1 .. Len(t), Ready(x, i), NEW callee
    PROVE  Onward(t, x, i, Postfixes(t, read, i, callee))
<1> DEFINE one  == Suffix(t, read, i)
           name == IF callee = "name" /\ one.node.by \in {"step", "nothing"} THEN "name" ELSE ""
           rest == Told(read, "postfixes", one.i, name)
           r    == Postfixes(t, read, i, callee)
           more == Is(t, i, <<".">>) \/ Is(t, i, <<"[">>) \/ (Is(t, i, <<"(">>) /\ callee = "name")
<1> SUFFICES ASSUME ~r.bad
             PROVE  r.i \in i .. Len(t) /\ Alike(x, i, r.i) /\ (r.i = i \/ Ends(t, r.i))
  BY DEF Onward
<1>1. CASE ~more
  <2>1. r.i = i
    BY <1>1 DEF Postfixes, None, Read
  <2> QED BY <2>1 DEF Alike, Traced
<1>2. CASE more
  <2>1. ~one.bad /\ ~rest.bad /\ r.i = rest.i
    BY <1>2 DEF Postfixes, Prefixed, Read
  <2>2. one.i \in i + 2 .. Len(t) /\ Alike(x, i, one.i) /\ Ends(t, one.i)
    BY <1>2, <2>1, SuffixSound
  <2>3. name \in Callees
    BY DEF Callees
  <2> HIDE DEF name, one, r
  <2>4. one.i \in 1 .. Len(t) /\ Ready(x, one.i) /\ one.i \in i + 1 .. Len(t)
    BY <2>2, Continue DEF Traced
  <2>5. Onward(t, x, one.i, rest)
    BY <2>3, <2>4 DEF SoundInCode
  <2> HIDE DEF rest
  <2>6. r.i \in i + 1 .. Len(t) /\ Alike(x, i, r.i) /\ Ends(t, r.i)
    BY <2>1, <2>2, <2>4, <2>5, OneThenMore
  <2> QED BY <2>6
<1> QED BY <1>1, <1>2

LEMMA PostfixSound ==
    ASSUME NEW t, NEW x, NEW read, Traced(t, x), SoundInCode(t, x, read),
           NEW i \in 1 .. Len(t), Ready(x, i)
    PROVE  Eager(t, x, i, Postfix(read, i))
<1> DEFINE e    == Further(read, "primary", i)
           name == IF e.node.kind = "scope" THEN "name" ELSE ""
           rest == Told(read, "postfixes", e.i, name)
           r    == Postfix(read, i)
<1> SUFFICES ASSUME ~r.bad
             PROVE  r.i \in i + 1 .. Len(t) /\ Alike(x, i, r.i) /\ Ends(t, r.i) /\ ~Is(t, i, <<"*">>)
  BY DEF Eager
<1>1. ~e.bad /\ ~rest.bad /\ r.i = rest.i
  BY DEF Postfix, Read
<1>2. "primary" \in Rules
  BY DEF Rules
<1>3. /\ e.i \in i + 1 .. Len(t) /\ e.i \in 1 .. Len(t) /\ Alike(x, i, e.i)
      /\ Ready(x, e.i) /\ Ends(t, e.i) /\ ~Is(t, i, <<"*">>)
  BY <1>1, <1>2, RuleRead
<1>4. name \in Callees
  BY DEF Callees
<1> HIDE DEF name, e, r
<1>5. Onward(t, x, e.i, rest)
  BY <1>3, <1>4 DEF SoundInCode
<1> HIDE DEF rest
<1> QED BY <1>1, <1>3, <1>5, OneThenMore

LEMMA UnarySound ==
    ASSUME NEW t, NEW x, NEW read, Traced(t, x), SoundInCode(t, x, read),
           NEW i \in 1 .. Len(t), Ready(x, i)
    PROVE  Eager(t, x, i, Unary(t, read, i))
<1> DEFINE operand == Further(read, "unary", i + 1)
           r       == Unary(t, read, i)
<1>1. CASE ~(Is(t, i, <<"!">>) \/ Is(t, i, <<"-">>))
  BY <1>1, PostfixSound DEF Unary
<1>2. CASE Is(t, i, <<"!">>) \/ Is(t, i, <<"-">>)
  <2> SUFFICES ASSUME ~r.bad
               PROVE  r.i \in i + 1 .. Len(t) /\ Alike(x, i, r.i) /\ Ends(t, r.i) /\ ~Is(t, i, <<"*">>)
    BY DEF Eager
  <2>1. ~operand.bad /\ r.i = operand.i
    BY <1>2 DEF Unary, Read
  <2>2. i + 1 \in 1 .. Len(t) /\ Alike(x, i, i + 1) /\ ~Is(t, i, <<"*">>)
    <3>1. i + 1 \in 1 .. Len(t) /\ Alike(x, i, i + 1)
      BY <1>2, NoBrackets, OperatorStep
    <3> QED BY <1>2, <3>1 DEF Is
  <2>3. "unary" \in Rules
    BY DEF Rules
  <2>4. operand.i \in i + 2 .. Len(t) /\ Alike(x, i + 1, operand.i) /\ Ends(t, operand.i)
    BY <2>1, <2>2, <2>3, RuleRead, Continue
  <2> HIDE DEF operand, r
  <2> QED BY <2>1, <2>2, <2>4 DEF Alike
<1> QED BY <1>1, <1>2

LEMMA QualifiedSound ==
    ASSUME NEW t, NEW x, NEW read, Traced(t, x), SoundInCode(t, x, read),
           NEW i \in 1 .. Len(t), Ready(x, i)
    PROVE  Onward(t, x, i, Qualified(t, read, i))
<1> DEFINE rest == Further(read, "qualified", i + 2)
           r    == Qualified(t, read, i)
<1>0. i \in Nat /\ Len(t) \in Nat /\ (i + 1) + 1 = i + 2 /\ i + 1 \in Nat
  BY DEF Traced
<1> SUFFICES ASSUME ~r.bad
             PROVE  r.i \in i .. Len(t) /\ Alike(x, i, r.i) /\ (r.i = i \/ Ends(t, r.i))
  BY DEF Onward
<1>1. CASE ~Is(t, i, <<":", ":">>)
  <2>1. r.i = i
    BY <1>1 DEF Qualified, None, Read
  <2> QED BY <1>0, <2>1 DEF Alike
<1>2. CASE Is(t, i, <<":", ":">>)
  <2>1. Type(t, i + 1) = "IDENT"
    BY <1>2 DEF Qualified, Read
  <2>2. ~rest.bad /\ r.i = rest.i
    BY <1>2, <2>1 DEF Qualified, Prefixed, Read
  <2>3. i + 1 \in 1 .. Len(t) /\ Alike(x, i, i + 1)
    BY <1>2, NoBrackets, OperatorStep
  <2>4. i + 2 \in 1 .. Len(t) /\ Alike(x, i + 1, i + 2) /\ Ends(t, i + 2)
    BY <1>0, <2>1, <2>3, PlainStep, EndsBehind DEF Is
  <2>5. Alike(x, i, i + 2) /\ Ready(x, i + 2) /\ i + 2 \in i + 1 .. Len(t)
    BY <1>0, <2>3, <2>4, Continue DEF Alike
  <2>6. Onward(t, x, i + 2, rest)
    BY <2>4, <2>5 DEF SoundInCode
  <2> HIDE DEF rest, r
  <2>7. r.i \in i + 1 .. Len(t) /\ Alike(x, i, r.i) /\ Ends(t, r.i)
    BY <1>0, <2>2, <2>4, <2>5, <2>6, OneThenMore
  <2> QED BY <1>0, <2>7
<1> QED BY <1>1, <1>2

\* Past line ends, and past what may stand there.
LEMMA CleanBehindLines ==
    ASSUME NEW t, NEW x, Traced(t, x), NEW i \in 1 .. Len(t), Clean(t, i)
    PROVE  Clean(t, Lines(t, i))
<1>1. CASE Lines(t, i) = i
  BY <1>1
<1>2. CASE Lines(t, i) # i
  <2>1. Type(t, Lines(t, i) - 1) = "NEWLINE"
    BY <1>2, LinesStay
  <2> QED BY <2>1 DEF Clean, InSplat, Unclosed, Is
<1> QED BY <1>1, <1>2

LEMMA MatchStep ==
    ASSUME NEW t, NEW x, Traced(t, x), NEW i \in 1 .. Len(t), NEW op, op \notin Brackets
    PROVE  LET j == Match(t, i, op)
           IN  /\ j \in i .. Len(t) /\ j \in 1 .. Len(t) /\ Alike(x, i, j)
               /\ Clean(t, i) /\ op # <<"*">> => Clean(t, j)
               /\ j # i => Is(t, i, op) /\ j = i + 1
<1>1. CASE Is(t, i, op)
  <2>1. Match(t, i, op) = i + 1
    BY <1>1 DEF Match
  <2>2. i + 1 \in 1 .. Len(t) /\ i + 1 \in i .. Len(t) /\ Alike(x, i, i + 1)
    BY <1>1, OperatorStep
  <2>3. op # <<"*">> => Clean(t, i + 1)
    BY <1>1, EndsBehind, i \in Nat DEF Ends, Is
  <2> QED BY <1>1, <2>1, <2>2, <2>3
<1>2. CASE ~Is(t, i, op)
  <2>1. Match(t, i, op) = i
    BY <1>2 DEF Match
  <2> QED BY <2>1 DEF Alike, Traced
<1> QED BY <1>1, <1>2

LEMMA ElementsSound ==
    ASSUME NEW t, NEW x, NEW read, Traced(t, x), SoundInCode(t, x, read),
           NEW i \in 1 .. Len(t), Ready(x, i), NEW close \in {"]", ")"}
    PROVE  Listed(t, x, i, Elements(t, read, i, close))
<1> DEFINE start == Lines(t, i)
           one   == Expression(read, start)
           j     == Lines(t, one.i)
           k     == IF close = ")" THEN Match(t, j, <<".", ".", ".">>) ELSE j
           m     == Lines(t, k + 1)
           rest  == Told(read, "elements", m, close)
           r     == Elements(t, read, i, close)
<1>0. i \in Nat /\ Len(t) \in Nat
  BY DEF Traced
<1> SUFFICES ASSUME ~r.bad
             PROVE  /\ r.i \in i .. Len(t) /\ Alike(x, i, r.i) /\ ~Is(t, i, <<"*">>)
                    /\ i > 1 /\ ~Is(t, i - 1, <<"*">>) => Clean(t, r.i)
  BY DEF Listed
<1>1. /\ start \in i .. Len(t) /\ start \in 1 .. Len(t) /\ Alike(x, i, start) /\ Ready(x, start)
      /\ Type(t, i) # "NEWLINE" => start = i
  BY LinesStay, Continue
<1>2. i > 1 /\ ~Is(t, i - 1, <<"*">>) => Clean(t, start)
  <2>1. i > 1 /\ ~Is(t, i - 1, <<"*">>) => Clean(t, i)
    BY DEF Clean, InSplat, Unclosed, Is
  <2> QED BY <2>1, CleanBehindLines
<1>3. CASE Is(t, start, <<close>>) \/ Type(t, i) = "EOF"
  <2>1. r.i = start
    BY <1>3 DEF Elements, None, Read
  <2>2. ~Is(t, i, <<"*">>)
    <3>1. <<close>> # <<"*">>
      OBVIOUS
    <3> QED BY <1>1, <1>3, <3>1 DEF Is
  <2> HIDE DEF r, start
  <2> QED BY <1>1, <1>2, <2>1, <2>2
<1>4. CASE ~(Is(t, start, <<close>>) \/ Type(t, i) = "EOF")
  <2> DEFINE more == IF Is(t, k, <<Comma>>) THEN rest ELSE None(k)
  <2>1. r = Prefixed(<<one.node>>, one.bad, more)
    BY <1>4 DEF Elements
  <2>2. ~one.bad /\ ~more.bad /\ r.i = more.i
    <3> HIDE DEF one, more, r
    <3> QED BY <2>1 DEF Prefixed, Read
  <2> HIDE DEF r, start
  <2>3. /\ one.i \in start + 1 .. Len(t) /\ one.i \in 1 .. Len(t) /\ Alike(x, start, one.i)
        /\ Clean(t, one.i) /\ ~Is(t, start, <<"*">>)
    BY <1>1, <2>2, ExpressionRead DEF Ends
  <2> HIDE DEF one
  <2>4. ~Is(t, i, <<"*">>)
    BY <1>1, <2>3 DEF Is
  <2>5. j \in one.i .. Len(t) /\ j \in 1 .. Len(t) /\ Alike(x, one.i, j) /\ Clean(t, j)
    BY <2>3, LinesStay, CleanBehindLines
  <2> HIDE DEF j
  <2>6. k \in j .. Len(t) /\ k \in 1 .. Len(t) /\ Alike(x, j, k) /\ Clean(t, k)
    <3>1. CASE close = ")"
      <4>1. <<".", ".", ".">> \notin Brackets /\ <<".", ".", ".">> # <<"*">>
        BY NoBrackets
      <4> QED BY <2>5, <3>1, <4>1, MatchStep
    <3>2. CASE close # ")"
      BY <2>5, <3>2 DEF Alike
    <3> QED BY <3>1, <3>2
  <2> HIDE DEF k
  <2>7. k \in i + 1 .. Len(t) /\ Alike(x, i, k)
    BY <1>0, <1>1, <2>3, <2>5, <2>6 DEF Alike
  <2>8. CASE ~Is(t, k, <<Comma>>)
    <3>1. r.i = k
      BY <2>2, <2>8 DEF None, Read
    <3> QED BY <1>0, <2>4, <2>6, <2>7, <3>1
  <2>9. CASE Is(t, k, <<Comma>>)
    <3>1. k + 1 \in k .. Len(t) /\ k + 1 \in 1 .. Len(t) /\ Alike(x, k, k + 1)
      <4>1. k + 1 \in k + 1 .. Len(t) /\ k + 1 \in 1 .. Len(t) /\ Alike(x, k, k + 1)
        BY <2>6, <2>9, NoBrackets, OperatorStep
      <4> QED BY <2>6, <4>1
    <3>2. m \in k + 1 .. Len(t) /\ m \in 1 .. Len(t) /\ Alike(x, k + 1, m)
          /\ (m = k + 1 \/ Type(t, m - 1) = "NEWLINE")
      BY <3>1, LinesStay
    <3>3. m > 1 /\ ~Is(t, m - 1, <<"*">>)
      <4>1. CASE m = k + 1
        <5>1. m > 1 /\ m - 1 = k
          BY <2>6, <4>1
        <5>2. <<Comma>> # <<"*">>
          BY Braces DEF Others
        <5> QED BY <2>9, <5>1, <5>2 DEF Is
      <4>2. CASE Type(t, m - 1) = "NEWLINE"
        BY <2>6, <3>2, <4>2 DEF Is
      <4> QED BY <3>2, <4>1, <4>2
    <3>4. ~rest.bad /\ r.i = rest.i
      BY <2>2, <2>9
    <3> HIDE DEF m
    <3>5. Alike(x, i, m) /\ Ready(x, m)
      BY <2>7, <3>1, <3>2, Continue DEF Alike
    <3>6. Listed(t, x, m, rest)
      BY <3>2, <3>5 DEF SoundInCode
    <3> HIDE DEF rest
    <3>7. rest.i \in m .. Len(t) /\ Alike(x, m, rest.i) /\ Clean(t, rest.i)
      BY <3>3, <3>4, <3>6 DEF Listed
    <3>8. r.i \in i .. Len(t)
      BY <1>0, <2>7, <3>2, <3>4, <3>7
    <3> QED BY <2>4, <3>4, <3>5, <3>7, <3>8 DEF Alike
  <2> QED BY <2>8, <2>9
<1> QED BY <1>3, <1>4

LEMMA ItemsSound ==
    ASSUME NEW t, NEW x, NEW read, Traced(t, x), SoundInCode(t, x, read),
           NEW i \in 1 .. Len(t), Ready(x, i)
    PROVE  Neutral(t, x, i, Items(t, read, i))
<1> DEFINE start == Lines(t, i)
           key   == Expression(read, start)
           value == Expression(read, key.i + 1)
           j     == Lines(t, value.i)
           k     == Match(t, j, <<Comma>>)
           next  == Lines(t, k)
           rest  == Further(read, "items", next)
           r     == Items(t, read, i)
<1>0. i \in Nat /\ Len(t) \in Nat
  BY DEF Traced
<1> SUFFICES ASSUME ~r.bad PROVE r.i \in i .. Len(t) /\ Alike(x, i, r.i)
  BY DEF Neutral
<1>1. start \in i .. Len(t) /\ start \in 1 .. Len(t) /\ Alike(x, i, start) /\ Ready(x, start)
  BY LinesStay, Continue
<1>2. CASE Is(t, start, <<EndBrace>>) \/ Type(t, i) = "EOF"
  <2>1. r.i = start
    BY <1>2 DEF Items, None, Read
  <2> HIDE DEF r, start
  <2> QED BY <1>1, <2>1
<1>3. CASE ~(Is(t, start, <<EndBrace>>) \/ Type(t, i) = "EOF")
  <2>1. r = Item(t, read, key)
    BY <1>3 DEF Items
  <2> HIDE DEF start, key, r
  <2>2. Is(t, key.i, <<"=">>) \/ Is(t, key.i, <<":">>)
    BY <2>1 DEF Item, Prefixed, Read
  <2>3. r = Prefixed(<<Node("key", <<key.node>>), value.node>>, key.bad \/ value.bad, rest)
    BY <2>1, <2>2 DEF Item
  <2> HIDE DEF value, rest
  <2>4. ~key.bad /\ ~value.bad /\ ~rest.bad /\ r.i = rest.i
    BY <2>3 DEF Prefixed, Read
  <2>5. key.i \in start + 1 .. Len(t) /\ key.i \in 1 .. Len(t) /\ Alike(x, start, key.i)
    BY <1>1, <2>4, ExpressionRead DEF key
  <2>6. key.i + 1 \in 1 .. Len(t) /\ Alike(x, key.i, key.i + 1)
    BY <2>2, <2>5, NoBrackets, OperatorStep
  <2>7. Alike(x, i, key.i + 1) /\ Ready(x, key.i + 1)
    BY <1>1, <2>5, <2>6, Continue DEF Alike
  <2>8. value.i \in key.i + 2 .. Len(t) /\ value.i \in 1 .. Len(t) /\ Alike(x, key.i + 1, value.i)
    <3>1. /\ value.i \in (key.i + 1) + 1 .. Len(t) /\ value.i \in 1 .. Len(t)
          /\ Alike(x, key.i + 1, value.i)
      BY <2>4, <2>6, <2>7, ExpressionRead DEF value
    <3> QED BY <2>5, <3>1
  <2>9. j \in value.i .. Len(t) /\ j \in 1 .. Len(t) /\ Alike(x, value.i, j)
    BY <2>8, LinesStay
  <2> HIDE DEF j
  <2>10. k \in j .. Len(t) /\ k \in 1 .. Len(t) /\ Alike(x, j, k)
    <3>1. <<Comma>> \notin Brackets
      BY NoBrackets
    <3> QED BY <2>9, <3>1, MatchStep
  <2> HIDE DEF k
  <2>11. next \in k .. Len(t) /\ next \in 1 .. Len(t) /\ Alike(x, k, next)
    BY <2>10, LinesStay
  <2> HIDE DEF next
  <2>12. Alike(x, i, next) /\ Ready(x, next)
    BY <2>7, <2>8, <2>9, <2>10, <2>11, Continue DEF Alike
  <2>13. Neutral(t, x, next, rest)
    BY <2>11, <2>12 DEF SoundInCode, rest
  <2>14. rest.i \in next .. Len(t) /\ Alike(x, next, rest.i)
    BY <2>4, <2>13 DEF Neutral
  <2>15. r.i \in i .. Len(t)
    <3>1. key.i >= i /\ key.i \in Nat
      BY <1>0, <1>1, <2>5
    <3>2. j >= key.i /\ j \in Nat
      BY <2>8, <2>9, <3>1
    <3>3. next >= j /\ next \in Nat
      BY <2>10, <2>11, <3>2
    <3> QED BY <1>0, <2>4, <2>14, <3>1, <3>2, <3>3
  <2> QED BY <2>4, <2>12, <2>14, <2>15 DEF Alike
<1> QED BY <1>2, <1>3

\* The names of a for.
LEMMA ForNamesStay ==
    ASSUME NEW t, NEW x, Traced(t, x), NEW i \in 1 .. Len(t), Type(t, i) = "IDENT"
    PROVE  LET j == ForNames(t, i)
           IN  j \in i + 1 .. Len(t) /\ j \in 1 .. Len(t) /\ Alike(x, i, j)
<1> DEFINE one == IF Type(t, i + 1) = "IDENT" THEN i + 2 ELSE i + 1
           two == Match(t, one, <<Comma>>)
           j   == ForNames(t, i)
<1>0. i \in Nat /\ Len(t) \in Nat
  BY DEF Traced
<1>1. i + 1 \in 1 .. Len(t) /\ Alike(x, i, i + 1) /\ i \in Nat /\ Len(t) \in Nat
  BY <1>0, PlainStep
<1>2. one \in i + 1 .. Len(t) /\ one \in 1 .. Len(t) /\ Alike(x, i, one)
  <2>1. CASE Type(t, i + 1) = "IDENT"
    <3>1. i + 2 \in 1 .. Len(t) /\ Alike(x, i + 1, i + 2)
      <4>1. (i + 1) + 1 = i + 2
        BY <1>1
      <4> QED BY <1>1, <2>1, <4>1, PlainStep
    <3> QED BY <1>1, <2>1, <3>1 DEF Alike
  <2>2. CASE Type(t, i + 1) # "IDENT"
    BY <1>1, <2>2
  <2> QED BY <2>1, <2>2
<1> HIDE DEF one
<1>3. two \in one .. Len(t) /\ two \in 1 .. Len(t) /\ Alike(x, one, two)
  <2>1. <<Comma>> \notin Brackets
    BY NoBrackets
  <2> QED BY <1>2, <2>1, MatchStep
<1> HIDE DEF two
<1>4. j = IF two > one /\ Type(t, two) = "IDENT" THEN two + 1 ELSE two
  BY DEF ForNames, one, two
<1> HIDE DEF j
<1>5. CASE Type(t, two) = "IDENT"
  <2>1. two + 1 \in 1 .. Len(t) /\ Alike(x, two, two + 1)
    BY <1>3, <1>5, PlainStep
  <2> QED BY <1>1, <1>2, <1>3, <1>4, <2>1 DEF Alike, j
<1>6. CASE Type(t, two) # "IDENT"
  <2>1. j = two
    BY <1>4, <1>6
  <2> QED BY <1>1, <1>2, <1>3, <2>1 DEF Alike, j
<1> QED BY <1>5, <1>6

\* A part of a for, read so far.
Part(t, x, i, e) == e.i \in i + 1 .. Len(t) /\ e.i \in 1 .. Len(t) /\ Alike(x, i, e.i) /\ Clean(t, e.i)

LEMMA PartGrows ==
    ASSUME NEW t, NEW x, Traced(t, x), NEW read, SoundInCode(t, x, read), NEW i \in 1 .. Len(t),
           Ready(x, i), NEW j \in 1 .. Len(t), j >= i, Alike(x, i, j), ~Expression(read, j).bad
    PROVE  Part(t, x, i, Expression(read, j))
<1>1. Ready(x, j)
  BY Continue
<1>2. LET r == Expression(read, j)
      IN  r.i \in j + 1 .. Len(t) /\ r.i \in 1 .. Len(t) /\ Alike(x, j, r.i) /\ Ends(t, r.i)
  BY <1>1, ExpressionRead
<1> QED BY <1>2 DEF Part, Alike, Ends, Traced

LEMMA ForKeySound ==
    ASSUME NEW t, NEW x, NEW read, Traced(t, x), SoundInCode(t, x, read),
           NEW i \in 1 .. Len(t), Ready(x, i), NEW collection,
           ~collection.bad => Part(t, x, i, collection),
           ~ForKey(t, read, collection).bad
    PROVE  Part(t, x, i, ForKey(t, read, collection))
<1> DEFINE j     == Lines(t, collection.i)
           colon == Closing(t, j, <<":">>)
           k     == Lines(t, colon.i)
           e     == Expression(read, k)
           r     == ForKey(t, read, collection)
<1>0. i \in Nat /\ Len(t) \in Nat
  BY DEF Traced
<1>1. ~collection.bad /\ ~colon.bad /\ ~e.bad /\ r.i = e.i
  BY DEF ForKey, Then, Read
<1>2. j \in collection.i .. Len(t) /\ j \in 1 .. Len(t) /\ Alike(x, collection.i, j)
  BY <1>1, LinesStay DEF Part
<1> HIDE DEF j
<1>3. Is(t, j, <<":">>) /\ colon.i = j + 1
  BY <1>1 DEF Closing, Match
<1>4. j + 1 \in 1 .. Len(t) /\ Alike(x, j, j + 1)
  BY <1>2, <1>3, NoBrackets, OperatorStep
<1> HIDE DEF colon
<1>5. k \in j + 1 .. Len(t) /\ k \in 1 .. Len(t) /\ Alike(x, j + 1, k)
  BY <1>3, <1>4, LinesStay
<1> HIDE DEF k
<1>6. k >= i /\ Alike(x, i, k)
  BY <1>0, <1>1, <1>2, <1>4, <1>5 DEF Alike, Part
<1>7. Part(t, x, i, e)
  BY <1>1, <1>5, <1>6, PartGrows
<1> HIDE DEF e
<1> QED BY <1>1, <1>7 DEF Part, r

LEMMA ForValueSound ==
    ASSUME NEW t, NEW x, NEW read, Traced(t, x), SoundInCode(t, x, read),
           NEW i \in 1 .. Len(t), Ready(x, i), NEW sofar, ~sofar.bad => Part(t, x, i, sofar),
           NEW close,
           ~ForValue(t, read, sofar, close).bad
    PROVE  Part(t, x, i, ForValue(t, read, sofar, close))
<1> DEFINE arrow == Lines(t, sofar.i)
           k     == Lines(t, arrow + 1)
           value == Expression(read, k)
           j     == Lines(t, value.i)
           dots  == Match(t, j, <<".", ".", ".">>)
           r     == ForValue(t, read, sofar, close)
<1>0. i \in Nat /\ Len(t) \in Nat
  BY DEF Traced
<1>1. CASE ~(close = EndBrace /\ Is(t, arrow, <<"=", ">">>))
  BY <1>1 DEF ForValue
<1>2. CASE close = EndBrace /\ Is(t, arrow, <<"=", ">">>)
  <2>2. ~sofar.bad /\ ~value.bad /\ r.i = dots
    BY <1>2 DEF ForValue, Read
  <2> HIDE DEF r
  <2>3. arrow \in sofar.i .. Len(t) /\ arrow \in 1 .. Len(t) /\ Alike(x, sofar.i, arrow)
    BY <2>2, LinesStay DEF Part
  <2> HIDE DEF arrow
  <2>4. arrow + 1 \in 1 .. Len(t) /\ Alike(x, arrow, arrow + 1)
    BY <1>2, <2>3, NoBrackets, OperatorStep
  <2>5. k \in arrow + 1 .. Len(t) /\ k \in 1 .. Len(t) /\ Alike(x, arrow + 1, k)
    BY <2>4, LinesStay
  <2> HIDE DEF k
  <2>6. k >= i /\ Alike(x, i, k)
    BY <1>0, <2>2, <2>3, <2>4, <2>5 DEF Alike, Part
  <2>7. Part(t, x, i, value)
    BY <2>2, <2>5, <2>6, PartGrows
  <2> HIDE DEF value
  <2>8. j \in value.i .. Len(t) /\ j \in 1 .. Len(t) /\ Alike(x, value.i, j) /\ Clean(t, j)
    BY <2>7, LinesStay, CleanBehindLines DEF Part
  <2> HIDE DEF j
  <2>9. dots \in j .. Len(t) /\ dots \in 1 .. Len(t) /\ Alike(x, j, dots) /\ Clean(t, dots)
    <3>1. <<".", ".", ".">> \notin Brackets /\ <<".", ".", ".">> # <<"*">>
      BY NoBrackets
    <3> QED BY <2>8, <3>1, MatchStep
  <2> HIDE DEF dots
  <2>10. Part(t, x, i, r)
    BY <1>0, <2>2, <2>7, <2>8, <2>9 DEF Part, Alike
  <2> QED BY <2>2, <2>10 DEF r
<1> QED BY <1>1, <1>2

LEMMA ForTestSound ==
    ASSUME NEW t, NEW x, NEW read, Traced(t, x), SoundInCode(t, x, read),
           NEW i \in 1 .. Len(t), Ready(x, i), NEW sofar, ~sofar.bad => Part(t, x, i, sofar),
           ~ForTest(t, read, sofar).bad
    PROVE  Part(t, x, i, ForTest(t, read, sofar))
<1> DEFINE start == Lines(t, sofar.i)
           e     == Expression(read, start + 1)
           r     == ForTest(t, read, sofar)
<1>0. i \in Nat /\ Len(t) \in Nat
  BY DEF Traced
<1>1. CASE ~IsWord(t, start, "if")
  BY <1>1 DEF ForTest
<1>2. CASE IsWord(t, start, "if")
  <2>2. ~sofar.bad /\ ~e.bad /\ r.i = e.i
    BY <1>2 DEF ForTest, Then, Read
  <2> HIDE DEF r
  <2>3. start \in sofar.i .. Len(t) /\ start \in 1 .. Len(t) /\ Alike(x, sofar.i, start)
    BY <2>2, LinesStay DEF Part
  <2> HIDE DEF start
  <2>4. start + 1 \in 1 .. Len(t) /\ Alike(x, start, start + 1)
    BY <1>2, <2>3, PlainStep DEF IsWord
  <2>5. start + 1 >= i /\ Alike(x, i, start + 1)
    BY <1>0, <2>2, <2>3, <2>4 DEF Alike, Part
  <2>6. Part(t, x, i, e)
    BY <2>2, <2>4, <2>5, PartGrows
  <2> HIDE DEF e
  <2>7. Part(t, x, i, r)
    BY <2>2, <2>6 DEF Part
  <2> QED BY <2>2, <2>7 DEF r
<1> QED BY <1>1, <1>2

\* From the for to the bracket that ends it.
LEMMA ForSound ==
    ASSUME NEW t, NEW x, NEW read, Traced(t, x), SoundInCode(t, x, read),
           NEW i \in 1 .. Len(t), Ready(x, i), Type(t, i) = "IDENT", NEW close,
           ~For(t, read, i, close).bad
    PROVE  \E j \in i + 1 .. Len(t) : /\ Is(t, j, <<close>>) /\ Clean(t, j) /\ Alike(x, i, j)
                                      /\ For(t, read, i, close).i = j + 1
<1> DEFINE names == ForNames(t, i)
           of    == Collection(t, read, names)
           key   == ForKey(t, read, of)
           value == ForValue(t, read, key, close)
           whole == ForTest(t, read, value)
           ended == Read(whole.node, Lines(t, whole.i), whole.bad)
           r     == For(t, read, i, close)
<1>0. i \in Nat /\ Len(t) \in Nat
  BY DEF Traced
<1>1. r = Closed(t, ended, Node("for", <<whole.node>>), <<close>>)
  BY DEF For
<1>2. ~ended.bad /\ Is(t, ended.i, <<close>>) /\ r.i = ended.i + 1
  BY <1>1, ClosedFine
<1>3. ended.i = Lines(t, whole.i) /\ ~whole.bad
  <2> HIDE DEF whole
  <2> QED BY <1>2 DEF Read
<1> HIDE DEF r, ended
<1>4. names \in i + 1 .. Len(t) /\ names \in 1 .. Len(t) /\ Alike(x, i, names)
  BY ForNamesStay
<1>5. ~of.bad => Part(t, x, i, of)
  <2>1. SUFFICES ASSUME ~of.bad PROVE Part(t, x, i, of)
    OBVIOUS
  <2> DEFINE e == Expression(read, names + 1)
  <2> HIDE DEF names
  <2>2. Type(t, names) = "IDENT"
    BY <2>1 DEF Collection, Read
  <2>3. of.i = e.i /\ ~e.bad
    BY <2>1, <2>2 DEF Collection, Read
  <2>4. names + 1 \in 1 .. Len(t) /\ Alike(x, names, names + 1)
    BY <1>4, <2>2, PlainStep
  <2>5. names + 1 >= i /\ Alike(x, i, names + 1)
    BY <1>0, <1>4, <2>4 DEF Alike
  <2>6. Part(t, x, i, e)
    BY <2>3, <2>4, <2>5, PartGrows
  <2> HIDE DEF of, e
  <2> QED BY <2>3, <2>6 DEF Part
<1> HIDE DEF names, of
<1>6. ~key.bad => Part(t, x, i, key)
  BY <1>5, ForKeySound
<1> HIDE DEF key
<1>7. ~value.bad => Part(t, x, i, value)
  BY <1>6, ForValueSound
<1> HIDE DEF value
<1>8. Part(t, x, i, whole)
  BY <1>3, <1>7, ForTestSound
<1> HIDE DEF whole
<1>9. /\ ended.i \in whole.i .. Len(t) /\ Alike(x, whole.i, ended.i) /\ Clean(t, ended.i)
  BY <1>3, <1>8, LinesStay, CleanBehindLines DEF Part
<1>10. ended.i \in i + 1 .. Len(t) /\ Alike(x, i, ended.i)
  BY <1>0, <1>8, <1>9 DEF Part, Alike
<1> QED BY <1>2, <1>9, <1>10 DEF r

LEMMA TupleSound ==
    ASSUME NEW t, NEW x, NEW read, Traced(t, x), SoundInCode(t, x, read),
           NEW i \in 1 .. Len(t), Ready(x, i), Is(t, i, <<"[">>), i + 1 \in 1 .. Len(t),
           ~Tuple(t, read, i + 1).bad
    PROVE  LET r == Tuple(t, read, i + 1)
           IN  r.i \in i + 1 .. Len(t) /\ Alike(x, i, r.i) /\ Ends(t, r.i)
<1> DEFINE start == Lines(t, i + 1)
           r     == Tuple(t, read, i + 1)
<1>0. i \in Nat /\ Len(t) \in Nat /\ (i + 1) - 1 = i
  BY DEF Traced
<1>1. /\ start \in i + 1 .. Len(t) /\ start \in 1 .. Len(t) /\ Alike(x, i + 1, start)
      /\ start = i + 1 \/ Type(t, start - 1) = "NEWLINE"
      /\ Type(t, i + 1) # "NEWLINE" => start = i + 1
  BY LinesStay
<1>2. Ready(x, i + 1) /\ Ready(x, start)
  BY <1>1, OpenedAlike, Continue DEF Is
<1>3. \E j \in start .. Len(t) : /\ Is(t, j, <<"]">>) /\ Clean(t, j) /\ Alike(x, start, j)
                                 /\ r.i = j + 1 /\ ~Is(t, start, <<"*">>)
  <2>1. CASE IsWord(t, start, "for")
    <3>1. r = For(t, read, start, "]")
      BY <2>1 DEF Tuple
    <3> HIDE DEF start, r
    <3>2. PICK j \in start + 1 .. Len(t) : /\ Is(t, j, <<"]">>) /\ Clean(t, j) /\ Alike(x, start, j)
                                          /\ For(t, read, start, "]").i = j + 1
      BY <1>1, <1>2, <2>1, <3>1, ForSound DEF IsWord, r
    <3>3. ~Is(t, start, <<"*">>) /\ j \in start .. Len(t)
      BY <1>1, <2>1 DEF IsWord, Is
    <3> QED BY <3>1, <3>2, <3>3
  <2>2. CASE ~IsWord(t, start, "for")
    <3> DEFINE e == Told(read, "elements", start, "]")
    <3>1. r = Closed(t, e, Node("tuple", e.node), <<"]">>)
      BY <2>2 DEF Tuple, Bracketed
    <3> HIDE DEF start
    <3>2. ~e.bad /\ Is(t, e.i, <<"]">>) /\ r.i = e.i + 1
      BY <3>1, ClosedFine
    <3>3. Listed(t, x, start, e)
      BY <1>1, <1>2 DEF SoundInCode
    <3>4. start > 1 /\ ~Is(t, start - 1, <<"*">>)
      <4>1. ~Is(t, i, <<"*">>)
        BY DEF Is
      <4> QED BY <1>0, <1>1, <4>1 DEF Is
    <3> HIDE DEF e
    <3> QED BY <3>2, <3>3, <3>4 DEF Listed
  <2> QED BY <2>1, <2>2
<1>4. ~InSplat(t, i)
  <2>1. ~Is(t, i + 1, <<"*">>)
    <3> HIDE DEF r, start
    <3>1. CASE start = i + 1
      BY <1>3, <3>1
    <3>2. CASE start # i + 1
      BY <1>1, <3>2 DEF Is
    <3> QED BY <3>1, <3>2
  <2> QED BY <2>1 DEF InSplat, Is
<1> HIDE DEF start
<1>5. PICK j \in start .. Len(t) : Is(t, j, <<"]">>) /\ Clean(t, j) /\ Alike(x, start, j) /\ r.i = j + 1
  BY <1>3
<1>6. j \in i + 1 .. Len(t) /\ Alike(x, i + 1, j) /\ ~InSplat(t, j)
  BY <1>0, <1>1, <1>5 DEF Alike, Clean
<1>7. <<"[">> \in Openers /\ Closer[<<"[">>] = <<"]">>
  BY DEF Openers, Closer
<1>8. j + 1 \in i + 1 .. Len(t) /\ Alike(x, i, j + 1) /\ Ends(t, j + 1)
  BY <1>4, <1>5, <1>6, <1>7, Bracketing
<1> QED BY <1>5, <1>8

LEMMA ObjectSound ==
    ASSUME NEW t, NEW x, NEW read, Traced(t, x), SoundInCode(t, x, read),
           NEW i \in 1 .. Len(t), Ready(x, i), Is(t, i, <<Brace>>), i + 1 \in 1 .. Len(t),
           ~Object(t, read, i + 1).bad
    PROVE  LET r == Object(t, read, i + 1)
           IN  r.i \in i + 1 .. Len(t) /\ Alike(x, i, r.i) /\ Ends(t, r.i)
<1> DEFINE start == Lines(t, i + 1)
           r     == Object(t, read, i + 1)
<1>0. i \in Nat /\ Len(t) \in Nat /\ (i + 1) - 1 = i
  BY DEF Traced
<1>1. start \in i + 1 .. Len(t) /\ start \in 1 .. Len(t) /\ Alike(x, i + 1, start)
  BY LinesStay
<1>2. Ready(x, i + 1) /\ Ready(x, start)
  BY <1>1, OpenedAlike, Continue DEF Is
<1>3. \E j \in start .. Len(t) : Is(t, j, <<EndBrace>>) /\ Alike(x, start, j) /\ r.i = j + 1
  <2>1. CASE IsWord(t, start, "for")
    <3>1. r = For(t, read, start, EndBrace)
      BY <2>1 DEF Object
    <3> HIDE DEF start, r
    <3>2. PICK j \in start + 1 .. Len(t) : /\ Is(t, j, <<EndBrace>>) /\ Clean(t, j) /\ Alike(x, start, j)
                                          /\ For(t, read, start, EndBrace).i = j + 1
      BY <1>1, <1>2, <2>1, <3>1, ForSound DEF IsWord, r
    <3>3. j \in start .. Len(t)
      BY <1>1
    <3> QED BY <3>1, <3>2, <3>3
  <2>2. CASE ~IsWord(t, start, "for")
    <3> DEFINE e == Further(read, "items", start)
    <3>1. r = Closed(t, e, Node("object", e.node), <<EndBrace>>)
      BY <2>2 DEF Object, Bracketed
    <3> HIDE DEF start
    <3>2. ~e.bad /\ Is(t, e.i, <<EndBrace>>) /\ r.i = e.i + 1
      BY <3>1, ClosedFine
    <3>3. Neutral(t, x, start, e)
      BY <1>1, <1>2 DEF SoundInCode
    <3> HIDE DEF e
    <3> QED BY <3>2, <3>3 DEF Neutral
  <2> QED BY <2>1, <2>2
<1> HIDE DEF start
<1>5. PICK j \in start .. Len(t) : Is(t, j, <<EndBrace>>) /\ Alike(x, start, j) /\ r.i = j + 1
  BY <1>3
<1>6. j \in i + 1 .. Len(t) /\ Alike(x, i + 1, j)
  BY <1>0, <1>1, <1>5 DEF Alike
<1>7. <<Brace>> \in Openers /\ Closer[<<Brace>>] = <<EndBrace>> /\ ~InSplat(t, i) /\ ~InSplat(t, j)
  <2>1. <<Brace>> \in Openers /\ Closer[<<Brace>>] = <<EndBrace>>
    BY BracesPair
  <2>2. ~InSplat(t, i)
    BY Braces DEF InSplat, Is, Others
  <2>3. ~InSplat(t, j)
    BY <1>5, Braces DEF InSplat, Is, Others
  <2> QED BY <2>1, <2>2, <2>3
<1>8. j + 1 \in i + 1 .. Len(t) /\ Alike(x, i, j + 1) /\ Ends(t, j + 1)
  BY <1>5, <1>6, <1>7, Bracketing
<1> QED BY <1>5, <1>8

LEMMA ParenthesisSound ==
    ASSUME NEW t, NEW x, NEW read, Traced(t, x), SoundInCode(t, x, read),
           NEW i \in 1 .. Len(t), Ready(x, i), Is(t, i, <<"(">>), i + 1 \in 1 .. Len(t),
           ~Parenthesis(t, read, i + 1).bad
    PROVE  LET r == Parenthesis(t, read, i + 1)
           IN  r.i \in i + 1 .. Len(t) /\ Alike(x, i, r.i) /\ Ends(t, r.i)
<1> DEFINE inner == Expression(read, i + 1)
           r     == Parenthesis(t, read, i + 1)
<1>0. i \in Nat /\ Len(t) \in Nat /\ (i + 1) - 1 = i
  BY DEF Traced
<1>1. ~inner.bad /\ Is(t, inner.i, <<")">>) /\ r.i = inner.i + 1
  BY ClosedFine DEF Parenthesis
<1>2. Ready(x, i + 1)
  BY OpenedAlike DEF Is
<1>3. inner.i \in i + 1 .. Len(t) /\ Alike(x, i + 1, inner.i)
  BY <1>0, <1>1, <1>2, ExpressionRead
<1> HIDE DEF inner
<1>4. ~InSplat(t, i) /\ ~InSplat(t, inner.i)
  BY <1>1 DEF InSplat, Is
<1>5. <<"(">> \in Openers /\ Closer[<<"(">>] = <<")">>
  BY DEF Openers, Closer
<1>6. inner.i + 1 \in i + 1 .. Len(t) /\ Alike(x, i, inner.i + 1) /\ Ends(t, inner.i + 1)
  BY <1>1, <1>3, <1>4, <1>5, Bracketing
<1> QED BY <1>1, <1>6

-----------------------------------------------------------------------------
(* Strings, heredocs and the sequences in them *)

TextEnds == {"CQUOTE", "CHEREDOC"}

\* A text read to its end.
Ended(t, x, i, of, r) ==
    /\ r.i \in i + 1 .. Len(t) /\ r.i \in 1 .. Len(t) /\ Type(t, r.i - 1) = of
    /\ x[i - 1].modes = Append(x[r.i - 1].modes, Closes[of])
    /\ x[r.i - 1].weight = x[i - 1].weight

WholeText(t, x, i, of, r) ==
    /\ Type(t, i) = "EOF" => r.bad
    /\ ~r.bad /\ Mode(x, i) = Closes[of] /\ x[i - 1].weight.inside \in Nat => Ended(t, x, i, of, r)

\* In a sequence opened behind m, or in a text in that sequence.
Skipping(x, i, m) ==
    /\ x[i - 1].weight.inside \in Nat \ {0}
    /\ \/ x[i - 1].modes = Append(m, "interp")
       \/ \E text_ \in Quotation : x[i - 1].modes = Append(Append(m, "interp"), text_)

\* Behind that sequence, or where the file ends.
Left(t, x, i, m, r) ==
    /\ r.i \in i .. Len(t)
    /\ \/ Type(t, r.i) = "EOF"
       \/ /\ x[r.i - 1].modes = m
          /\ x[r.i - 1].weight.inside = x[i - 1].weight.inside - 1
          /\ x[r.i - 1].weight.pending = x[i - 1].weight.pending
          /\ x[r.i - 1].weight.stray = x[i - 1].weight.stray

WholeSequence(t, x, i, r) ==
    /\ Type(t, i) = "EOF" => r.i = i
    /\ \A m \in Seq(Code \cup Quotation) : Skipping(x, i, m) => Left(t, x, i, m, r)

\* A label and the labels of a block: at the end of the file they give up.
LabelLeft(t, x, i, r) ==
    /\ Type(t, i) = "EOF" => r.i = i
    /\ Mode(x, i) = "template" /\ x[i - 1].weight.inside \in Nat =>
          /\ r.i \in i .. Len(t)
          /\ \/ Type(t, r.i) = "EOF"
             \/ /\ x[i - 1].modes = Append(x[r.i - 1].modes, "template")
                /\ x[r.i - 1].weight = x[i - 1].weight

LabelsLeft(t, x, i, r) ==
    /\ Type(t, i) = "EOF" => r.i = i
    /\ Ready(x, i) => r.i \in i .. Len(t) /\ (Type(t, r.i) = "EOF" \/ Alike(x, i, r.i))

SoundInText(t, x, read) ==
    \A i \in 1 .. Len(t) :
        /\ \A of \in TextEnds : WholeText(t, x, i, of, Told(read, "parts", i, of))
        /\ WholeSequence(t, x, i, Further(read, "sequence", i))
        /\ LabelLeft(t, x, i, Further(read, "label", i))
        /\ LabelsLeft(t, x, i, Further(read, "labels", i))

\* A token that is neither a bracket nor the edge of a sequence weighs nothing.
LEMMA Weightless ==
    ASSUME NEW t, NEW x, Traced(t, x), NEW k \in 1 .. Len(t),
           Type(t, k) \notin {"INTERP", "CONTROL", "SEQ_END"},
           Type(t, k) # "OPERATOR" \/ x[k - 1].weight.inside # 0
    PROVE  x[k].weight = x[k - 1].weight
<1> DEFINE v == x[k - 1].weight
           w == x[k].weight
<1>1. x[k] \in Contexts /\ x[k - 1] \in Contexts
  BY Kinds
<1>2. w = Weigh(t, v, k) /\ v.stray \in BOOLEAN
  BY <1>1 DEF Traced, Contexts
<1>3. <<>> \notin Openers \cup Closers
  BY BracketsDiffer
<1>4. Type(t, k) # "OPERATOR" \/ v.inside # 0
  OBVIOUS
<1> HIDE DEF v, w
<1>5. w.inside = v.inside /\ w.pending = v.pending /\ w.stray = v.stray
  BY <1>2, <1>3, <1>4 DEF Weigh
<1> QED BY <1>1, <1>5, WeightsAlike DEF Contexts, v, w

\* From the ${ or %{ of a text to behind its }: the context of the text is back.
LEMMA SequencePassed ==
    ASSUME NEW t, NEW x, NEW read, Traced(t, x), SoundInText(t, x, read), NEW k \in 1 .. Len(t),
           Type(t, k) \in {"INTERP", "CONTROL"}, x[k - 1].weight.inside \in Nat
    PROVE  LET r == Further(read, "sequence", k + 1)
           IN  r.i \in k + 1 .. Len(t) /\ r.i \in 1 .. Len(t) /\ (Type(t, r.i) = "EOF" \/ Alike(x, k, r.i))
<1> DEFINE r == Further(read, "sequence", k + 1)
           m == x[k - 1].modes
<1>1. /\ x[k].modes = Append(m, "interp") /\ m \in Seq(Code \cup Quotation)
      /\ x[k] \in Contexts /\ x[k - 1] \in Contexts
  BY Kinds
<1>2. /\ x[k].weight.inside = x[k - 1].weight.inside + 1
      /\ x[k].weight.pending = x[k - 1].weight.pending /\ x[k].weight.stray = x[k - 1].weight.stray
  BY Enters
<1>3. k + 1 \in 1 .. Len(t) /\ k \in Nat /\ Len(t) \in Nat /\ (k + 1) - 1 = k
  BY NotTheLast
<1>4. Skipping(x, k + 1, m)
  <2>1. x[k].weight.inside \in Nat \ {0}
    BY <1>2
  <2> HIDE DEF m
  <2> QED BY <1>1, <1>3, <2>1 DEF Skipping
<1>5. Left(t, x, k + 1, m, r)
  BY <1>1, <1>3, <1>4 DEF SoundInText, WholeSequence
<1> HIDE DEF r
<1>6. r.i \in k + 1 .. Len(t) /\ r.i \in 1 .. Len(t)
  BY <1>3, <1>5 DEF Left
<1>7. ASSUME Type(t, r.i) # "EOF" PROVE Alike(x, k, r.i)
  <2>1. /\ x[r.i - 1].modes = m
        /\ x[r.i - 1].weight.inside = x[k].weight.inside - 1
        /\ x[r.i - 1].weight.pending = x[k].weight.pending
        /\ x[r.i - 1].weight.stray = x[k].weight.stray
    BY <1>3, <1>5, <1>7 DEF Left
  <2>2. x[r.i - 1] \in Contexts
    BY <1>6, Kinds
  <2>3. x[r.i - 1].weight.inside = x[k - 1].weight.inside
    BY <1>2, <2>1
  <2>4. x[r.i - 1].weight = x[k - 1].weight
    BY <1>1, <1>2, <2>1, <2>2, <2>3, WeightsAlike DEF Contexts
  <2> QED BY <1>1, <2>1, <2>2, <2>4, ContextsAlike DEF Alike
<1> QED BY <1>6, <1>7 DEF r

LEMMA TextStep ==
    ASSUME NEW t, NEW x, NEW i \in Nat, NEW j \in i + 1 .. Len(t), NEW of, NEW r,
           Alike(x, i, j), Mode(x, i) = Closes[of], x[i - 1].weight.inside \in Nat,
           WholeText(t, x, j, of, r), ~r.bad
    PROVE  Ended(t, x, i, of, r)
<1>1. Mode(x, j) = Closes[of] /\ x[j - 1].weight.inside \in Nat
  BY DEF Alike, Mode
<1>2. Ended(t, x, j, of, r)
  BY <1>1 DEF WholeText
<1> QED BY <1>2 DEF Ended, Alike

LEMMA Popped ==
    ASSUME NEW a \in Seq(Code \cup Quotation), NEW b, NEW m \in Code \cup Quotation,
           b = Append(a, m)
    PROVE  Innermost(b) = m
  BY DEF Innermost

LEMMA ModesAlike ==
    ASSUME NEW a \in Seq(Code \cup Quotation), NEW b \in Seq(Code \cup Quotation),
           NEW m \in Code \cup Quotation, NEW n \in Code \cup Quotation,
           Append(a, m) = Append(b, n)
    PROVE  a = b /\ m = n
  BY AppendedAlike

LEMMA InterpAlike ==
    ASSUME NEW a \in Seq(Code \cup Quotation), NEW b \in Seq(Code \cup Quotation),
           Append(a, "interp") = Append(b, "interp")
    PROVE  a = b
<1>1. "interp" \in Code \cup Quotation
  BY DEF Code
<1> QED BY <1>1, ModesAlike

\* In a text there is what may stand there.
LEMMA InAText ==
    ASSUME NEW t, NEW x, Traced(t, x), NEW i \in 1 .. Len(t), NEW of \in TextEnds,
           Mode(x, i) = Closes[of]
    PROVE  Type(t, i) \in {"LITERAL", "INTERP", "CONTROL", of}
<1> DEFINE before == x[i - 1].modes
           after  == x[i].modes
<1>1. Closes["CQUOTE"] = "template" /\ Closes["CHEREDOC"] = "heredoc"
  BY DEF Closes
<1>2. Mode(x, i) \in {"template", "heredoc"} /\ Mode(x, i) = Innermost(before)
  BY <1>1 DEF TextEnds, Mode
<1>3. /\ Innermost(before) \in IF Type(t, i) \in Quoted THEN Quotation ELSE Code
      /\ after \in Seq(Code \cup Quotation)
      /\ Type(t, i) = "CQUOTE" => before = Append(after, "template")
      /\ Type(t, i) = "CHEREDOC" => before = Append(after, "heredoc")
  BY Kinds
<1> HIDE DEF before, after
<1>4. Type(t, i) \in Quoted
  BY <1>2, <1>3 DEF Code
<1>5. {"template", "heredoc"} \subseteq Code \cup Quotation
  BY DEF Quotation
<1>6. /\ Type(t, i) = "CQUOTE" => Innermost(before) = "template"
      /\ Type(t, i) = "CHEREDOC" => Innermost(before) = "heredoc"
  <2>1. \A m \in {"template", "heredoc"} : before = Append(after, m) => Innermost(before) = m
    BY <1>3, <1>5, Popped
  <2> QED BY <1>3, <2>1
<1> QED BY <1>1, <1>2, <1>4, <1>6 DEF TextEnds, Quoted

LEMMA InterpolationSound ==
    ASSUME NEW t, NEW x, NEW read, Traced(t, x), SoundInCode(t, x, read), SoundInText(t, x, read),
           NEW i \in 1 .. Len(t), NEW of \in TextEnds, Type(t, i) = "INTERP",
           Mode(x, i) = Closes[of], x[i - 1].weight.inside \in Nat,
           ~Interpolation(t, read, i + 1, of).bad
    PROVE  Ended(t, x, i, of, Interpolation(t, read, i + 1, of))
<1> DEFINE inner == Expression(read, i + 1)
           rest  == Told(read, "parts", inner.i + 1, of)
           r     == Interpolation(t, read, i + 1, of)
           m     == x[i - 1].modes
<1>1. ~inner.bad /\ Type(t, inner.i) = "SEQ_END" /\ ~rest.bad /\ r.i = rest.i
  BY DEF Interpolation, Prefixed, Read
<1> HIDE DEF r, rest
<1>2. /\ x[i].modes = Append(m, "interp") /\ m \in Seq(Code \cup Quotation)
      /\ x[i] \in Contexts /\ x[i - 1] \in Contexts
  <2> HIDE DEF inner
  <2> QED BY Kinds, SMTT(30)
<1>3. /\ x[i].weight.inside = x[i - 1].weight.inside + 1
      /\ x[i].weight.pending = x[i - 1].weight.pending /\ x[i].weight.stray = x[i - 1].weight.stray
  BY Enters
<1>4. i + 1 \in 1 .. Len(t) /\ i \in Nat /\ Len(t) \in Nat /\ (i + 1) - 1 = i
  BY NotTheLast
<1>5. Ready(x, i + 1)
  <2>1. "interp" \in Code
    BY DEF Code
  <2>2. Innermost(x[i].modes) = "interp"
    BY <1>2, <2>1, Appended
  <2>3. x[i].weight.inside \in Nat
    BY <1>3
  <2> QED BY <1>4, <2>1, <2>2, <2>3 DEF Ready, Mode
<1>6. inner.i \in i + 2 .. Len(t) /\ inner.i \in 1 .. Len(t) /\ Alike(x, i + 1, inner.i)
  BY <1>1, <1>4, <1>5, ExpressionRead
<1> HIDE DEF inner
<1>7. x[inner.i - 1] = x[i]
  BY <1>4, <1>6 DEF Alike
<1>8. /\ x[inner.i - 1].modes = Append(x[inner.i].modes, "interp")
      /\ x[inner.i].modes \in Seq(Code \cup Quotation) /\ x[inner.i] \in Contexts
  <2> DEFINE j == inner.i
  <2>1. j \in 1 .. Len(t) /\ Type(t, j) = "SEQ_END"
    BY <1>1, <1>6
  <2> HIDE DEF j
  <2>2. /\ x[j - 1].modes = Append(x[j].modes, "interp")
        /\ x[j].modes \in Seq(Code \cup Quotation) /\ x[j] \in Contexts
    BY <2>1, Kinds
  <2> QED BY <2>2 DEF j
<1>9. /\ x[inner.i].weight.inside = x[i].weight.inside - 1
      /\ x[inner.i].weight.pending = x[i].weight.pending
      /\ x[inner.i].weight.stray = x[i].weight.stray
  <2> DEFINE j == inner.i
  <2>1. j \in 1 .. Len(t) /\ Type(t, j) = "SEQ_END" /\ x[j - 1] = x[i]
    BY <1>1, <1>6, <1>7
  <2> HIDE DEF j
  <2>2. /\ x[j].weight.inside = x[j - 1].weight.inside - 1
        /\ x[j].weight.pending = x[j - 1].weight.pending
        /\ x[j].weight.stray = x[j - 1].weight.stray
    BY <2>1, Leaves
  <2> QED BY <2>1, <2>2 DEF j
<1>10. inner.i + 1 \in 1 .. Len(t) /\ inner.i + 1 \in i + 1 .. Len(t)
       /\ (inner.i + 1) - 1 = inner.i
  BY <1>1, <1>4, <1>6, NotTheLast
<1>11. x[inner.i] = x[i - 1]
  <2>1. x[inner.i].modes = m
    <3>1. Append(x[inner.i].modes, "interp") = Append(m, "interp")
      BY <1>2, <1>7, <1>8
    <3> HIDE DEF m
    <3> QED BY <1>2, <1>8, <3>1, InterpAlike
  <2>2. x[inner.i].weight.inside = x[i - 1].weight.inside
    BY <1>3, <1>9
  <2>3. x[inner.i].weight = x[i - 1].weight
    BY <1>2, <1>3, <1>8, <1>9, <2>2, WeightsAlike DEF Contexts
  <2> QED BY <1>2, <1>8, <2>1, <2>3, ContextsAlike
<1>12. Alike(x, i, inner.i + 1)
  BY <1>10, <1>11 DEF Alike
<1>13. WholeText(t, x, inner.i + 1, of, rest)
  BY <1>10 DEF SoundInText, rest
<1>14. Ended(t, x, i, of, rest)
  BY <1>1, <1>4, <1>10, <1>12, <1>13, TextStep
<1> QED BY <1>1, <1>14 DEF Ended, r

LEMMA PartsSound ==
    ASSUME NEW t, NEW x, NEW read, Traced(t, x), SoundInCode(t, x, read), SoundInText(t, x, read),
           NEW i \in 1 .. Len(t), NEW of \in TextEnds
    PROVE  WholeText(t, x, i, of, Parts(t, read, i, of))
<1> DEFINE r == Parts(t, read, i, of)
<1>0. i \in Nat /\ Len(t) \in Nat /\ of \notin {"EOF", "LITERAL", "INTERP", "CONTROL"}
  BY DEF Traced, TextEnds
<1>1. Type(t, i) = "EOF" => r.bad
  BY <1>0 DEF Parts, Read
<1> SUFFICES ASSUME ~r.bad, Mode(x, i) = Closes[of], x[i - 1].weight.inside \in Nat
             PROVE  Ended(t, x, i, of, r)
  BY <1>1 DEF WholeText
<1>2. Type(t, i) \in {"LITERAL", "INTERP", "CONTROL", of}
  BY InAText
<1>3. i + 1 \in i + 1 .. Len(t) /\ i + 1 \in 1 .. Len(t) /\ (i + 1) - 1 = i
  BY <1>0, <1>2, NotTheLast
<1>4. CASE Type(t, i) = of
  <2>1. r.i = i + 1
    BY <1>0, <1>4 DEF Parts, None, Read
  <2>2. x[i - 1].modes = Append(x[i].modes, Closes[of])
    BY <1>4, Kinds DEF TextEnds, Closes
  <2>3. Type(t, i) \notin {"INTERP", "CONTROL", "SEQ_END", "OPERATOR"}
    BY <1>4 DEF TextEnds
  <2>4. x[i].weight = x[i - 1].weight
    BY <2>3, Weightless
  <2> HIDE DEF r
  <2> QED BY <1>3, <1>4, <2>1, <2>2, <2>4 DEF Ended, r
<1>5. CASE Type(t, i) = "LITERAL"
  <2> DEFINE rest == Told(read, "parts", i + 1, of)
  <2>1. ~rest.bad /\ r.i = rest.i
    BY <1>0, <1>5 DEF Parts, Prefixed, Read
  <2>2. Alike(x, i, i + 1)
    BY <1>5, PlainStep
  <2>3. WholeText(t, x, i + 1, of, rest)
    BY <1>3 DEF SoundInText
  <2> HIDE DEF rest, r
  <2>4. Ended(t, x, i, of, rest)
    BY <1>0, <1>3, <2>1, <2>2, <2>3, TextStep
  <2> QED BY <2>1, <2>4 DEF Ended, r
<1>6. CASE Type(t, i) = "INTERP"
  <2>1. r = Interpolation(t, read, i + 1, of)
    BY <1>0, <1>6 DEF Parts
  <2> QED BY <1>6, <2>1, InterpolationSound
<1>7. CASE Type(t, i) = "CONTROL"
  <2> DEFINE j    == Further(read, "sequence", i + 1).i
             rest == Told(read, "parts", j, of)
  <2>1. ~rest.bad /\ r.i = rest.i
    BY <1>0, <1>7 DEF Parts, Prefixed, Read
  <2>2. j \in i + 1 .. Len(t) /\ j \in 1 .. Len(t) /\ (Type(t, j) = "EOF" \/ Alike(x, i, j))
    BY <1>7, SequencePassed
  <2>3. WholeText(t, x, j, of, rest)
    BY <2>2 DEF SoundInText
  <2> HIDE DEF rest, r, j
  <2>4. Alike(x, i, j)
    BY <2>1, <2>2, <2>3 DEF WholeText
  <2>5. Ended(t, x, i, of, rest)
    BY <1>0, <2>1, <2>2, <2>3, <2>4, TextStep
  <2> QED BY <2>1, <2>5 DEF Ended, r
<1> QED BY <1>2, <1>4, <1>5, <1>6, <1>7

\* A string or heredoc in code, from the token that opens it.
LEMMA TextPassed ==
    ASSUME NEW t, NEW x, NEW read, Traced(t, x), SoundInText(t, x, read), NEW i \in 1 .. Len(t),
           Ready(x, i), NEW of \in TextEnds,
           Type(t, i) = IF of = "CQUOTE" THEN "OQUOTE" ELSE "OHEREDOC",
           ~Told(read, "parts", i + 1, of).bad
    PROVE  LET r == Told(read, "parts", i + 1, of)
           IN  r.i \in i + 1 .. Len(t) /\ Alike(x, i, r.i) /\ Ends(t, r.i)
<1> DEFINE r == Told(read, "parts", i + 1, of)
           m == x[i - 1].modes
           mode == Closes[of]
<1>1. Type(t, i) \in {"OQUOTE", "OHEREDOC"} /\ of \in {"CQUOTE", "CHEREDOC"}
  BY DEF TextEnds
<1>2. i + 1 \in 1 .. Len(t) /\ i \in Nat /\ Len(t) \in Nat /\ (i + 1) - 1 = i
  BY <1>1, NotTheLast
<1>3. mode \in {"template", "heredoc"} /\ mode \in Code \cup Quotation
  BY <1>1 DEF Closes, Quotation
<1>4. /\ x[i].modes = Append(m, mode) /\ m \in Seq(Code \cup Quotation)
      /\ x[i] \in Contexts /\ x[i - 1] \in Contexts
  BY <1>1, Kinds DEF Closes
<1>5. x[i].weight = x[i - 1].weight
  BY <1>1, Weightless
<1>6. WholeText(t, x, i + 1, of, r)
  BY <1>2 DEF SoundInText
<1> HIDE DEF r, m, mode
<1>7. Mode(x, i + 1) = mode /\ x[(i + 1) - 1].weight.inside \in Nat
  <2>1. Innermost(x[i].modes) = mode
    BY <1>3, <1>4, Popped
  <2>2. x[i].weight.inside \in Nat
    BY <1>5 DEF Ready
  <2> QED BY <1>2, <2>1, <2>2 DEF Mode
<1>8. Ended(t, x, i + 1, of, r)
  BY <1>6, <1>7 DEF WholeText, r, mode
<1> DEFINE j == r.i
<1>9. /\ j \in i + 2 .. Len(t) /\ j \in 1 .. Len(t) /\ Type(t, j - 1) = of
      /\ x[i].modes = Append(x[j - 1].modes, mode) /\ x[j - 1].weight = x[i].weight
  BY <1>2, <1>8 DEF Ended, mode
<1> HIDE DEF j
<1>10. j - 1 \in 1 .. Len(t) /\ j - 1 \in Nat /\ (j - 1) + 1 = j /\ j \in i + 1 .. Len(t)
  BY <1>2, <1>9
<1>11. x[j - 1].modes = m /\ x[j - 1] \in Contexts
  <2>1. x[j - 1] \in Contexts /\ x[j - 1].modes \in Seq(Code \cup Quotation)
    BY <1>10, Kinds
  <2>2. Append(x[j - 1].modes, mode) = Append(m, mode)
    BY <1>4, <1>9
  <2>3. x[j - 1].modes = m
    BY <1>3, <1>4, <2>1, <2>2, ModesAlike
  <2> QED BY <2>1, <2>3
<1>12. Alike(x, i, j)
  BY <1>4, <1>5, <1>9, <1>11, ContextsAlike DEF Alike, m
<1>13. Ends(t, j)
  <2>1. Type(t, j - 1) # "NEWLINE" /\ ~Is(t, j - 1, <<"*">>)
    BY <1>1, <1>9 DEF Is
  <2>2. Ends(t, (j - 1) + 1)
    BY <1>10, <2>1, EndsBehind
  <2> QED BY <1>10, <2>2
<1> QED BY <1>10, <1>12, <1>13 DEF j, r

LEMMA VariableSound ==
    ASSUME NEW t, NEW x, NEW read, Traced(t, x), SoundInCode(t, x, read), NEW i \in 1 .. Len(t),
           Ready(x, i), Type(t, i) = "IDENT", ~Variable(t, read, i).bad
    PROVE  LET r == Variable(t, read, i)
           IN  r.i \in i + 1 .. Len(t) /\ Alike(x, i, r.i) /\ Ends(t, r.i)
<1> DEFINE rest == Further(read, "qualified", i + 1)
           r    == Variable(t, read, i)
<1>1. ~rest.bad /\ r.i = rest.i
  BY DEF Variable, Read
<1>2. i + 1 \in i + 1 .. Len(t) /\ i + 1 \in 1 .. Len(t) /\ Alike(x, i, i + 1) /\ Ready(x, i + 1)
  BY PlainStep, Continue
<1>3. Ends(t, i + 1)
  BY EndsBehind DEF Is
<1>4. Onward(t, x, i + 1, rest)
  BY <1>2 DEF SoundInCode
<1> HIDE DEF rest, r
<1>5. rest.i \in i + 1 .. Len(t) /\ Alike(x, i, rest.i) /\ Ends(t, rest.i)
  BY <1>1, <1>2, <1>3, <1>4, OneThenMore
<1> QED BY <1>1, <1>5 DEF r

LEMMA PrimarySound ==
    ASSUME NEW t, NEW x, NEW read, Traced(t, x), SoundInCode(t, x, read), SoundInText(t, x, read),
           NEW i \in 1 .. Len(t), Ready(x, i)
    PROVE  Eager(t, x, i, Primary(t, read, i))
<1> DEFINE r == Primary(t, read, i)
<1>0. <<Brace>> # <<"[">> /\ <<Brace>> # <<"(">> /\ <<Brace>> # <<"*">>
  BY Braces DEF Others
<1>9. ASSUME Is(t, i, <<"[">>) PROVE r = Tuple(t, read, i + 1)
  <2>1. Type(t, i) = "OPERATOR" /\ ~Is(t, i, <<Brace>>) /\ ~Is(t, i, <<"(">>)
    BY <1>0, <1>9 DEF Is
  <2> QED BY <1>9, <2>1 DEF Primary
<1>10. ASSUME Is(t, i, <<Brace>>) PROVE r = Object(t, read, i + 1)
  <2>1. Type(t, i) = "OPERATOR" /\ ~Is(t, i, <<"[">>) /\ ~Is(t, i, <<"(">>)
    BY <1>0, <1>10 DEF Is
  <2> QED BY <1>10, <2>1 DEF Primary
<1>11. ASSUME Is(t, i, <<"(">>) PROVE r = Parenthesis(t, read, i + 1)
  <2>1. Type(t, i) = "OPERATOR" /\ ~Is(t, i, <<"[">>) /\ ~Is(t, i, <<Brace>>)
    BY <1>0, <1>11 DEF Is
  <2> QED BY <1>11, <2>1 DEF Primary
<1> SUFFICES ASSUME ~r.bad
             PROVE  r.i \in i + 1 .. Len(t) /\ Alike(x, i, r.i) /\ Ends(t, r.i) /\ ~Is(t, i, <<"*">>)
  BY DEF Eager
<1>1. CASE Type(t, i) = "NUMBER"
  <2>1. r.i = i + 1
    BY <1>1 DEF Primary, Read, Is
  <2>2. i + 1 \in i + 1 .. Len(t) /\ Alike(x, i, i + 1)
    BY <1>1, PlainStep
  <2>3. Ends(t, i + 1) /\ ~Is(t, i, <<"*">>)
    BY <1>1, EndsBehind DEF Is
  <2> HIDE DEF r
  <2> QED BY <2>1, <2>2, <2>3
<1>2. CASE Type(t, i) = "OQUOTE"
  <2> DEFINE parts == Told(read, "parts", i + 1, "CQUOTE")
  <2>1. ~parts.bad /\ r.i = parts.i
    BY <1>2 DEF Primary, QuotedTemplate, As, Read, Is
  <2>2. "CQUOTE" \in TextEnds
    BY DEF TextEnds
  <2>3. parts.i \in i + 1 .. Len(t) /\ Alike(x, i, parts.i) /\ Ends(t, parts.i)
    BY <1>2, <2>1, <2>2, TextPassed
  <2> HIDE DEF r, parts
  <2> QED BY <1>2, <2>1, <2>3 DEF Is
<1>3. CASE Type(t, i) = "OHEREDOC"
  <2> DEFINE parts == Told(read, "parts", i + 1, "CHEREDOC")
  <2>1. ~parts.bad /\ r.i = parts.i
    BY <1>3 DEF Primary, Heredoc, As, Read, Is
  <2>2. "CHEREDOC" \in TextEnds
    BY DEF TextEnds
  <2>3. parts.i \in i + 1 .. Len(t) /\ Alike(x, i, parts.i) /\ Ends(t, parts.i)
    BY <1>3, <2>1, <2>2, TextPassed
  <2> HIDE DEF r, parts
  <2> QED BY <1>3, <2>1, <2>3 DEF Is
<1>4. CASE Is(t, i, <<"[">>)
  <2>1. r = Tuple(t, read, i + 1)
    BY <1>4, <1>9
  <2>2. i + 1 \in 1 .. Len(t) /\ ~Is(t, i, <<"*">>)
    BY <1>4, NotTheLast DEF Is
  <2> QED BY <1>4, <2>1, <2>2, TupleSound
<1>5. CASE Is(t, i, <<Brace>>)
  <2>1. r = Object(t, read, i + 1)
    BY <1>5, <1>10
  <2>2. i + 1 \in 1 .. Len(t) /\ ~Is(t, i, <<"*">>)
    BY <1>0, <1>5, NotTheLast DEF Is
  <2> QED BY <1>5, <2>1, <2>2, ObjectSound
<1>6. CASE Is(t, i, <<"(">>)
  <2>1. r = Parenthesis(t, read, i + 1)
    BY <1>6, <1>11
  <2>2. i + 1 \in 1 .. Len(t) /\ ~Is(t, i, <<"*">>)
    BY <1>6, NotTheLast DEF Is
  <2> QED BY <1>6, <2>1, <2>2, ParenthesisSound
<1>7. CASE Type(t, i) = "IDENT"
  <2>1. r = IF Keyword(Token(t, i).text)
            THEN Read(Literal(Keywords[Token(t, i).text[1]]), i + 1, FALSE)
            ELSE Variable(t, read, i)
    BY <1>7 DEF Primary, Is
  <2>2. ~Is(t, i, <<"*">>)
    BY <1>7 DEF Is
  <2>3. CASE Keyword(Token(t, i).text)
    <3>1. r.i = i + 1
      BY <2>1, <2>3 DEF Read
    <3>2. i + 1 \in i + 1 .. Len(t) /\ Alike(x, i, i + 1)
      BY <1>7, PlainStep
    <3>3. Ends(t, i + 1)
      BY <1>7, EndsBehind DEF Is
    <3> HIDE DEF r
    <3> QED BY <2>2, <3>1, <3>2, <3>3
  <2>4. CASE ~Keyword(Token(t, i).text)
    <3>1. r = Variable(t, read, i)
      BY <2>1, <2>4
    <3> QED BY <1>7, <2>2, <3>1, VariableSound
  <2> QED BY <2>3, <2>4
<1>8. CASE ~(\/ Type(t, i) \in {"NUMBER", "OQUOTE", "OHEREDOC", "IDENT"} \/ Is(t, i, <<"[">>)
             \/ Is(t, i, <<Brace>>) \/ Is(t, i, <<"(">>))
  <2>1. r.bad
    BY <1>8 DEF Primary, Read
  <2> QED BY <2>1
<1> QED BY <1>1, <1>2, <1>3, <1>4, <1>5, <1>6, <1>7, <1>8

\* A step that stays in the sequence.
LEMMA SkipsOn ==
    ASSUME NEW t, NEW x, Traced(t, x), NEW i \in 1 .. Len(t), NEW m \in Seq(Code \cup Quotation),
           Skipping(x, i, m), Type(t, i) \notin {"EOF", "SEQ_END", "INTERP", "CONTROL"}
    PROVE  Skipping(x, i + 1, m) /\ x[i].weight = x[i - 1].weight
<1> DEFINE before == x[i - 1].modes
           after  == x[i].modes
           inside == Append(m, "interp")
<1>0. (i + 1) - 1 = i
  OBVIOUS
<1>1. x[i].weight = x[i - 1].weight /\ x[i - 1].weight.inside \in Nat \ {0}
  BY Weightless DEF Skipping
<1>2. /\ before \in Seq(Code \cup Quotation) /\ after \in Seq(Code \cup Quotation)
      /\ Type(t, i) \notin Turning => after = before
      /\ Type(t, i) = "OQUOTE" => after = Append(before, "template")
      /\ Type(t, i) = "OHEREDOC" => after = Append(before, "heredoc")
      /\ Type(t, i) = "CQUOTE" => before = Append(after, "template")
      /\ Type(t, i) = "CHEREDOC" => before = Append(after, "heredoc")
      /\ Innermost(before) \in IF Type(t, i) \in Quoted THEN Quotation ELSE Code
  BY Kinds
<1>3. before = inside \/ \E text_ \in Quotation : before = Append(inside, text_)
  BY DEF Skipping
<1>4. /\ inside \in Seq(Code \cup Quotation) /\ "interp" \in Code \cup Quotation
      /\ "interp" \notin Quotation /\ {"template", "heredoc"} \subseteq Code \cup Quotation
      /\ {"template", "heredoc"} = Quotation
  BY Appended DEF Code, Quotation
<1>5. \A mode \in Quotation : mode \notin Code
  BY DEF Quotation, Code
<1> HIDE DEF before, after
<1>6. after = inside \/ \E text_ \in Quotation : after = Append(inside, text_)
  <2>1. CASE Type(t, i) \notin Turning
    BY <1>2, <1>3, <2>1
  <2>2. CASE Type(t, i) \in {"OQUOTE", "OHEREDOC"}
    <3>1. Innermost(before) \in Code
      BY <1>2, <2>2 DEF Quoted
    <3>2. ASSUME NEW text_ \in Quotation, before = Append(inside, text_) PROVE FALSE
      <4>1. Innermost(before) = text_
        <5> HIDE DEF inside
        <5> QED BY <1>4, <3>2, Popped
      <4> QED BY <1>5, <3>1, <3>2, <4>1
    <3> QED BY <1>2, <1>3, <1>4, <2>2, <3>2
  <2>3. CASE Type(t, i) \in {"CQUOTE", "CHEREDOC"}
    <3>1. PICK text_ \in Quotation : before = Append(after, text_)
      BY <1>2, <1>4, <2>3
    <3>2. before # inside
      <4>1. SUFFICES ASSUME before = inside PROVE FALSE
        OBVIOUS
      <4>2. Append(after, text_) = Append(m, "interp")
        BY <3>1, <4>1
      <4>3. text_ = "interp"
        <5> HIDE DEF inside
        <5> QED BY <1>2, <1>4, <4>2, ModesAlike
      <4> QED BY <1>4, <4>3
    <3>3. PICK other \in Quotation : before = Append(inside, other)
      BY <1>3, <3>2
    <3>4. after = inside
      <4> HIDE DEF inside
      <4>1. Append(after, text_) = Append(inside, other)
        BY <3>1, <3>3
      <4>2. text_ \in Code \cup Quotation /\ other \in Code \cup Quotation
        OBVIOUS
      <4>3. after \in Seq(Code \cup Quotation) /\ inside \in Seq(Code \cup Quotation)
        BY <1>2, <1>4
      <4> QED BY <4>1, <4>2, <4>3, ModesAlike
    <3> QED BY <3>4
  <2> QED BY <2>1, <2>2, <2>3 DEF Turning, Opens, Closes
<1> HIDE DEF inside
<1> QED BY <1>0, <1>1, <1>6 DEF Skipping, inside, after

LEMMA SequenceEnds ==
    ASSUME NEW t, NEW x, Traced(t, x), NEW i \in 1 .. Len(t), NEW m \in Seq(Code \cup Quotation),
           Skipping(x, i, m), Type(t, i) = "SEQ_END"
    PROVE  x[i].modes = m
<1> DEFINE before == x[i - 1].modes
           after  == x[i].modes
           inside == Append(m, "interp")
<1>1. before = Append(after, "interp") /\ after \in Seq(Code \cup Quotation)
  BY Kinds
<1>2. /\ inside \in Seq(Code \cup Quotation) /\ "interp" \in Code \cup Quotation
      /\ "interp" \notin Quotation
  BY Appended DEF Code, Quotation
<1>3. before = inside \/ \E text_ \in Quotation : before = Append(inside, text_)
  BY DEF Skipping
<1> HIDE DEF before, after
<1>4. ASSUME NEW text_ \in Quotation, before = Append(inside, text_) PROVE FALSE
  <2> HIDE DEF inside
  <2>1. text_ \in Code \cup Quotation /\ Append(after, "interp") = Append(inside, text_)
    BY <1>1, <1>4
  <2>2. text_ = "interp"
    BY <1>1, <1>2, <2>1, ModesAlike
  <2> QED BY <1>2, <1>4, <2>2
<1>5. Append(after, "interp") = Append(m, "interp")
  BY <1>1, <1>3, <1>4
<1>6. after = m
  BY <1>1, <1>5, InterpAlike
<1> QED BY <1>6 DEF after

LEMMA SequenceSound ==
    ASSUME NEW t, NEW x, NEW read, Traced(t, x), SoundInText(t, x, read), NEW i \in 1 .. Len(t)
    PROVE  WholeSequence(t, x, i, Sequence(t, read, i))
<1> DEFINE r == Sequence(t, read, i)
<1>0. i \in Nat /\ Len(t) \in Nat
  BY DEF Traced
<1>1. Type(t, i) = "EOF" => r.i = i
  BY DEF Sequence, None, Read
<1> SUFFICES ASSUME NEW m \in Seq(Code \cup Quotation), Skipping(x, i, m)
             PROVE  Left(t, x, i, m, r)
  BY <1>1 DEF WholeSequence
<1>2. CASE Type(t, i) = "EOF"
  <2> HIDE DEF r
  <2> QED BY <1>0, <1>1, <1>2 DEF Left
<1>3. CASE Type(t, i) = "SEQ_END"
  <2>1. r.i = i + 1
    BY <1>3 DEF Sequence, None, Read
  <2>2. x[i].modes = m
    BY <1>3, SequenceEnds
  <2>3. /\ x[i].weight.inside = x[i - 1].weight.inside - 1
        /\ x[i].weight.pending = x[i - 1].weight.pending /\ x[i].weight.stray = x[i - 1].weight.stray
    BY <1>3, Leaves
  <2>4. i + 1 \in i .. Len(t) /\ (i + 1) - 1 = i
    BY <1>0, <1>3, NotTheLast
  <2> HIDE DEF r
  <2> QED BY <2>1, <2>2, <2>3, <2>4 DEF Left
<1>4. CASE Type(t, i) \in {"INTERP", "CONTROL"}
  <2> DEFINE j == Further(read, "sequence", i + 1).i
  <2>1. r = Further(read, "sequence", j)
    BY <1>4 DEF Sequence
  <2>2. j \in i + 1 .. Len(t) /\ j \in 1 .. Len(t) /\ (Type(t, j) = "EOF" \/ Alike(x, i, j))
    BY <1>4, SequencePassed DEF Skipping
  <2> HIDE DEF r, j
  <2>3. WholeSequence(t, x, j, r)
    BY <2>1, <2>2 DEF SoundInText
  <2>4. CASE Type(t, j) = "EOF"
    <3>1. r.i = j /\ j \in i .. Len(t)
      BY <1>0, <2>2, <2>3, <2>4 DEF WholeSequence
    <3> QED BY <2>4, <3>1 DEF Left
  <2>5. CASE Alike(x, i, j)
    <3>1. Skipping(x, j, m)
      BY <2>5 DEF Skipping, Alike
    <3>2. Left(t, x, j, m, r)
      BY <2>3, <3>1 DEF WholeSequence
    <3> QED BY <1>0, <2>2, <2>5, <3>2 DEF Left, Alike
  <2> QED BY <2>2, <2>4, <2>5
<1>5. CASE Type(t, i) \notin {"EOF", "SEQ_END", "INTERP", "CONTROL"}
  <2>1. r = Further(read, "sequence", i + 1)
    BY <1>5 DEF Sequence
  <2>2. Skipping(x, i + 1, m) /\ x[i].weight = x[i - 1].weight
    BY <1>5, SkipsOn
  <2>3. i + 1 \in 1 .. Len(t) /\ (i + 1) - 1 = i
    BY <1>0, <1>5, NotTheLast
  <2> HIDE DEF r
  <2>4. Left(t, x, i + 1, m, r)
    BY <2>1, <2>2, <2>3 DEF SoundInText, WholeSequence
  <2> QED BY <1>0, <2>2, <2>3, <2>4 DEF Left
<1> QED BY <1>2, <1>3, <1>4, <1>5

LEMMA LabelSound ==
    ASSUME NEW t, NEW x, NEW read, Traced(t, x), SoundInText(t, x, read), NEW i \in 1 .. Len(t)
    PROVE  LabelLeft(t, x, i, Label(t, read, i))
<1> DEFINE r == Label(t, read, i)
<1>0. i \in Nat /\ Len(t) \in Nat
  BY DEF Traced
<1>1. Type(t, i) = "EOF" => r.i = i
  BY DEF Label, None, Read
<1> SUFFICES ASSUME Mode(x, i) = "template", x[i - 1].weight.inside \in Nat
             PROVE  /\ r.i \in i .. Len(t)
                    /\ \/ Type(t, r.i) = "EOF"
                       \/ /\ x[i - 1].modes = Append(x[r.i - 1].modes, "template")
                          /\ x[r.i - 1].weight = x[i - 1].weight
  BY <1>1 DEF LabelLeft
<1>2. Type(t, i) \in {"LITERAL", "INTERP", "CONTROL", "CQUOTE"}
  <2>1. "CQUOTE" \in TextEnds /\ Mode(x, i) = Closes["CQUOTE"]
    BY DEF TextEnds, Closes
  <2> QED BY <2>1, InAText
<1>3. i + 1 \in i + 1 .. Len(t) /\ i + 1 \in 1 .. Len(t) /\ (i + 1) - 1 = i
  BY <1>0, <1>2, NotTheLast
<1>4. ASSUME NEW j \in i + 1 .. Len(t), j \in 1 .. Len(t), Type(t, j) = "EOF" \/ Alike(x, i, j),
             r.i = Further(read, "label", j).i
      PROVE  /\ r.i \in i .. Len(t)
             /\ \/ Type(t, r.i) = "EOF"
                \/ /\ x[i - 1].modes = Append(x[r.i - 1].modes, "template")
                   /\ x[r.i - 1].weight = x[i - 1].weight
  <2> DEFINE next == Further(read, "label", j)
  <2> HIDE DEF r
  <2>1. LabelLeft(t, x, j, next)
    BY <1>4 DEF SoundInText
  <2>2. CASE Type(t, j) = "EOF"
    <3>1. r.i = j
      BY <1>4, <2>1, <2>2 DEF LabelLeft
    <3> QED BY <1>0, <2>2, <3>1
  <2>3. CASE Alike(x, i, j)
    <3>1. Mode(x, j) = "template" /\ x[j - 1].weight.inside \in Nat
      BY <2>3 DEF Alike, Mode
    <3>2. r.i = next.i
      BY <1>4
    <3> HIDE DEF next
    <3>3. /\ next.i \in j .. Len(t)
          /\ \/ Type(t, next.i) = "EOF"
             \/ /\ x[j - 1].modes = Append(x[next.i - 1].modes, "template")
                /\ x[next.i - 1].weight = x[j - 1].weight
      BY <2>1, <3>1 DEF LabelLeft
    <3> QED BY <1>0, <2>3, <3>2, <3>3 DEF Alike
  <2> QED BY <1>4, <2>2, <2>3
<1>5. CASE Type(t, i) = "CQUOTE"
  <2>1. r.i = i + 1
    BY <1>5 DEF Label, None, Read
  <2>2. x[i - 1].modes = Append(x[i].modes, "template")
    BY <1>5, Kinds
  <2>3. x[i].weight = x[i - 1].weight
    BY <1>5, Weightless
  <2> HIDE DEF r
  <2> QED BY <1>0, <1>3, <2>1, <2>2, <2>3
<1>6. CASE Type(t, i) = "LITERAL"
  <2>1. r.i = Further(read, "label", i + 1).i
    BY <1>6 DEF Label, Prefixed, Read
  <2>2. Alike(x, i, i + 1)
    BY <1>6, PlainStep
  <2> QED BY <1>3, <1>4, <2>1, <2>2
<1>7. CASE Type(t, i) \in {"INTERP", "CONTROL"}
  <2> DEFINE j == Further(read, "sequence", i + 1).i
  <2>1. r = Further(read, "label", j)
    BY <1>7 DEF Label
  <2>2. j \in i + 1 .. Len(t) /\ j \in 1 .. Len(t) /\ (Type(t, j) = "EOF" \/ Alike(x, i, j))
    BY <1>7, SequencePassed
  <2> HIDE DEF r, j
  <2> QED BY <1>4, <2>1, <2>2
<1> QED BY <1>2, <1>5, <1>6, <1>7

LEMMA LabelsSound ==
    ASSUME NEW t, NEW x, NEW read, Traced(t, x), SoundInText(t, x, read), NEW i \in 1 .. Len(t)
    PROVE  LabelsLeft(t, x, i, Labels(t, read, i))
<1> DEFINE r == Labels(t, read, i)
<1>0. i \in Nat /\ Len(t) \in Nat
  BY DEF Traced
<1>1. Type(t, i) = "EOF" => r.i = i
  BY DEF Labels, None, Read
<1> SUFFICES ASSUME Ready(x, i)
             PROVE  r.i \in i .. Len(t) /\ (Type(t, r.i) = "EOF" \/ Alike(x, i, r.i))
  BY <1>1 DEF LabelsLeft
<1>2. ASSUME NEW j \in i + 1 .. Len(t), j \in 1 .. Len(t), Type(t, j) = "EOF" \/ Alike(x, i, j),
             r.i = Further(read, "labels", j).i
      PROVE  r.i \in i .. Len(t) /\ (Type(t, r.i) = "EOF" \/ Alike(x, i, r.i))
  <2> DEFINE next == Further(read, "labels", j)
  <2> HIDE DEF r
  <2>1. LabelsLeft(t, x, j, next)
    BY <1>2 DEF SoundInText
  <2>2. CASE Type(t, j) = "EOF"
    <3>1. r.i = j
      BY <1>2, <2>1, <2>2 DEF LabelsLeft
    <3> QED BY <1>0, <2>2, <3>1
  <2>3. CASE Alike(x, i, j)
    <3>1. Ready(x, j) /\ r.i = next.i
      BY <1>2, <2>3, Continue
    <3> HIDE DEF next
    <3>2. next.i \in j .. Len(t) /\ (Type(t, next.i) = "EOF" \/ Alike(x, j, next.i))
      BY <2>1, <3>1 DEF LabelsLeft
    <3> QED BY <1>0, <2>3, <3>1, <3>2 DEF Alike
  <2> QED BY <1>2, <2>2, <2>3
<1>3. CASE Type(t, i) = "IDENT"
  <2>1. r.i = Further(read, "labels", i + 1).i
    BY <1>3 DEF Labels, Prefixed, Read
  <2>2. i + 1 \in i + 1 .. Len(t) /\ i + 1 \in 1 .. Len(t) /\ Alike(x, i, i + 1)
    BY <1>3, PlainStep
  <2> QED BY <1>2, <2>1, <2>2
<1>4. CASE Type(t, i) = "OQUOTE"
  <2> DEFINE label == Further(read, "label", i + 1)
             m     == x[i - 1].modes
  <2>1. r.i = Further(read, "labels", label.i).i
    BY <1>4 DEF Labels, Prefixed, Read
  <2>2. i + 1 \in 1 .. Len(t) /\ (i + 1) - 1 = i
    BY <1>0, <1>4, NotTheLast
  <2>3. /\ x[i].modes = Append(m, "template") /\ m \in Seq(Code \cup Quotation)
        /\ x[i] \in Contexts /\ x[i - 1] \in Contexts
    BY <1>4, Kinds
  <2>4. x[i].weight = x[i - 1].weight
    BY <1>4, Weightless
  <2>5. "template" \in Code \cup Quotation
    BY DEF Quotation
  <2>6. LabelLeft(t, x, i + 1, label)
    BY <2>2 DEF SoundInText
  <2> HIDE DEF r, label, m
  <2>7. Mode(x, i + 1) = "template" /\ x[(i + 1) - 1].weight.inside \in Nat
    <3>1. Innermost(x[i].modes) = "template"
      BY <2>3, <2>5, Popped
    <3> QED BY <2>2, <2>4, <3>1 DEF Mode, Ready
  <2> DEFINE j == label.i
  <2>8. /\ j \in i + 1 .. Len(t)
        /\ \/ Type(t, j) = "EOF"
           \/ /\ x[i].modes = Append(x[j - 1].modes, "template")
              /\ x[j - 1].weight = x[i].weight
    BY <2>2, <2>6, <2>7 DEF LabelLeft
  <2> HIDE DEF j
  <2>9. Type(t, j) = "EOF" \/ Alike(x, i, j)
    <3> SUFFICES ASSUME Type(t, j) # "EOF" PROVE Alike(x, i, j)
      OBVIOUS
    <3>1. j - 1 \in 1 .. Len(t)
      BY <1>0, <2>8
    <3>2. x[j - 1] \in Contexts /\ x[j - 1].modes \in Seq(Code \cup Quotation)
      BY <3>1, Kinds
    <3>3. Append(x[j - 1].modes, "template") = Append(m, "template")
      BY <2>3, <2>8
    <3>4. x[j - 1].modes = m
      BY <2>3, <2>5, <3>2, <3>3, ModesAlike
    <3> QED BY <2>3, <2>4, <2>8, <3>2, <3>4, ContextsAlike DEF Alike, m
  <2>10. j \in 1 .. Len(t)
    BY <1>0, <2>8
  <2> QED BY <1>2, <2>1, <2>8, <2>9, <2>10 DEF j
<1>5. CASE Type(t, i) \notin {"IDENT", "OQUOTE"}
  <2>1. r.i = i
    BY <1>5 DEF Labels, None, Read
  <2> HIDE DEF r
  <2> QED BY <1>0, <2>1 DEF Alike
<1> QED BY <1>3, <1>4, <1>5

-----------------------------------------------------------------------------
(* Expressions as the parser builds them: finitely deep, with all their parts *)

Arity == [literal |-> 0, scope |-> 0, relative |-> 1, wrap |-> 1, parentheses |-> 1, key |-> 1,
          unary |-> 1, binary |-> 2, index |-> 2, conditional |-> 3]

WellFormed(e) ==
    /\ Len(e.parts) \in Nat /\ DOMAIN e.parts = 1 .. Len(e.parts)
    /\ e.kind \in DOMAIN Arity => Len(e.parts) = Arity[e.kind]

IsText(s) == \E S : s \in Seq(S)

\* A reference starts with a name; a step behind it is no second one.
Leads(step) == step.by # "root" /\ (step.by = "attr" => IsText(step.key))

Rooted(steps) ==
    /\ \E S : steps \in Seq(S)
    /\ steps # <<>> /\ steps[1].by = "root" /\ IsText(steps[1].key) /\ steps[1].key # <<>>
    /\ \A k \in 2 .. Len(steps) : Leads(steps[k])

Whole(e) ==
    /\ {"kind", "parts"} \subseteq DOMAIN e /\ WellFormed(e)
    /\ e.kind = "scope" => "steps" \in DOMAIN e /\ Rooted(e.steps)

\* Expressions of growing height, and the parts of each among those below it.
Grows(f) ==
    /\ f[0] = {}
    /\ \A m \in Nat : /\ f[m] \subseteq f[m + 1]
                      /\ \A e \in f[m + 1] : /\ Whole(e)
                                             /\ \A k \in DOMAIN e.parts : e.parts[k] \in f[m]

Built(e) == \E f : Grows(f) /\ \E m \in Nat : e \in f[m]

LEMMA Rises ==
    ASSUME NEW f, Grows(f), NEW i \in Nat, NEW j \in Nat, i <= j
    PROVE  f[i] \subseteq f[j]
<1> DEFINE Bad == {m \in Nat : i <= m /\ ~(f[i] \subseteq f[m])}
<1>1. ASSUME Bad # {} PROVE FALSE
  <2>1. PICK m \in Bad : \A k \in Bad : m <= k
    <3>1. Bad \in SUBSET Nat
      OBVIOUS
    <3> HIDE DEF Bad
    <3> QED BY <1>1, <3>1, LeastOf
  <2>2. m \in Nat /\ i <= m /\ m # i /\ ~(f[i] \subseteq f[m])
    BY <2>1
  <2>3. m - 1 \in Nat /\ i <= m - 1 /\ (m - 1) + 1 = m /\ m - 1 < m
    BY <2>2
  <2>4. f[i] \subseteq f[m - 1]
    BY <2>1, <2>3
  <2>5. f[m - 1] \subseteq f[(m - 1) + 1]
    BY <2>3 DEF Grows
  <2> QED BY <2>2, <2>3, <2>4, <2>5
<1> QED BY <1>1

LEMMA BuiltIsWhole ==
    ASSUME NEW e, Built(e)
    PROVE  Whole(e) /\ \A k \in DOMAIN e.parts : Built(e.parts[k])
<1>1. PICK f : Grows(f) /\ \E m \in Nat : e \in f[m]
  BY DEF Built
<1>0. PICK m \in Nat : e \in f[m]
  BY <1>1
<1>2. m # 0
  BY <1>0, <1>1 DEF Grows
<1>3. m - 1 \in Nat /\ (m - 1) + 1 = m
  BY <1>2
<1>4. Whole(e) /\ \A k \in DOMAIN e.parts : e.parts[k] \in f[m - 1]
  BY <1>0, <1>1, <1>3 DEF Grows
<1> QED BY <1>1, <1>3, <1>4 DEF Built

\* A bound for finitely many.
LEMMA AboveAll ==
    ASSUME NEW n \in Nat, NEW h \in [1 .. n -> Nat]
    PROVE  \E m \in Nat : \A k \in 1 .. n : h[k] <= m
<1> DEFINE Bad == {j \in 0 .. n : ~\E m \in Nat : \A k \in 1 .. j : h[k] <= m}
<1>1. ASSUME Bad # {} PROVE FALSE
  <2>1. PICK j \in Bad : \A i \in Bad : j <= i
    <3>1. Bad \in SUBSET Nat
      OBVIOUS
    <3> HIDE DEF Bad
    <3> QED BY <1>1, <3>1, LeastOf
  <2>2. j \in 0 .. n /\ ~\E m \in Nat : \A k \in 1 .. j : h[k] <= m
    BY <2>1
  <2>3. CASE j = 0
    <3>1. \A k \in 1 .. j : h[k] <= 0
      BY <2>3
    <3> QED BY <2>2, <3>1
  <2>4. CASE j # 0
    <3>1. j - 1 \in 0 .. n /\ j - 1 < j /\ j \in 1 .. n
      BY <2>2, <2>4
    <3>2. PICK m \in Nat : \A k \in 1 .. j - 1 : h[k] <= m
      <4>1. j - 1 \notin Bad
        <5> HIDE DEF Bad
        <5> QED BY <2>1, <2>2, <3>1
      <4> QED BY <3>1, <4>1
    <3> DEFINE u == m + h[j]
    <3>3. h[j] \in Nat /\ u \in Nat /\ m <= u /\ h[j] <= u
      BY <3>1
    <3>4. ASSUME NEW k \in 1 .. j PROVE h[k] <= u
      <4>1. k \in 1 .. n /\ h[k] \in Nat /\ (k = j \/ k \in 1 .. j - 1)
        BY <2>2
      <4> HIDE DEF u
      <4> QED BY <3>2, <3>3, <4>1
    <3> HIDE DEF u
    <3> QED BY <2>2, <3>3, <3>4
  <2> QED BY <2>3, <2>4
<1>2. n \in 0 .. n
  OBVIOUS
<1>3. n \notin Bad
  <2> HIDE DEF Bad
  <2> QED BY <1>1
<1> QED BY <1>2, <1>3

LEMMA NodeBuilt ==
    ASSUME NEW e, Whole(e), \A k \in DOMAIN e.parts : Built(e.parts[k])
    PROVE  Built(e)
<1> DEFINE n == Len(e.parts)
           Holds(k, f, m) == Grows(f) /\ m \in Nat /\ e.parts[k] \in f[m]
           c == [k \in 1 .. n |-> CHOOSE p : Holds(k, p[1], p[2])]
           h == [k \in 1 .. n |-> c[k][2]]
           below == [m \in Nat |-> UNION {c[k][1][m] : k \in 1 .. n}]
           g == [m \in Nat |-> below[m] \cup
                    {x \in {e} : m # 0 /\ \A k \in 1 .. n : e.parts[k] \in below[m - 1]}]
<1>1. n \in Nat /\ DOMAIN e.parts = 1 .. n
  BY DEF Whole, WellFormed
<1> HIDE DEF n
<1>2. ASSUME NEW k \in 1 .. n PROVE Holds(k, c[k][1], c[k][2])
  <2>0. PICK f : Grows(f) /\ \E m \in Nat : e.parts[k] \in f[m]
    BY <1>1 DEF Built
  <2>1. PICK m \in Nat : e.parts[k] \in f[m]
    BY <2>0
  <2> DEFINE q == <<f, m>>
  <2>2. Holds(k, q[1], q[2])
    BY <2>0, <2>1
  <2>3. \E p : Holds(k, p[1], p[2])
    <3> HIDE DEF Holds, q
    <3> QED BY <2>2
  <2>4. c[k] = CHOOSE p : Holds(k, p[1], p[2])
    OBVIOUS
  <2> HIDE DEF c, Holds
  <2> QED BY <2>3, <2>4
<1>3. ASSUME NEW k \in 1 .. n
      PROVE  Grows(c[k][1]) /\ h[k] \in Nat /\ e.parts[k] \in c[k][1][h[k]]
  <2>1. h[k] = c[k][2]
    <3> HIDE DEF c
    <3> QED OBVIOUS
  <2> HIDE DEF c, h
  <2> QED BY <1>2, <2>1
<1>4. h \in [1 .. n -> Nat]
  <2>1. h = [k \in 1 .. n |-> h[k]]
    <3> HIDE DEF c
    <3> QED OBVIOUS
  <2> HIDE DEF h
  <2> QED BY <1>3, <2>1
<1>5. \A m \in Nat : below[m] = UNION {c[k][1][m] : k \in 1 .. n}
  <2> HIDE DEF c
  <2> QED OBVIOUS
<1>6. \A m \in Nat : g[m] = below[m] \cup
          {x \in {e} : m # 0 /\ \A k \in 1 .. n : e.parts[k] \in below[m - 1]}
  <2> HIDE DEF below
  <2> QED OBVIOUS
<1> HIDE DEF c, h, below, g, Holds
<1>7. PICK top \in Nat : \A k \in 1 .. n : h[k] <= top
  BY <1>1, <1>4, AboveAll
<1>8. ASSUME NEW k \in 1 .. n PROVE e.parts[k] \in below[top]
  <2>1. c[k][1][h[k]] \subseteq c[k][1][top]
    BY <1>3, <1>7, Rises
  <2> QED BY <1>3, <1>5, <2>1
<1>9. ASSUME NEW m \in Nat
      PROVE  /\ below[m] \subseteq below[m + 1]
             /\ \A x \in below[m + 1] : /\ Whole(x)
                                        /\ \A k \in DOMAIN x.parts : x.parts[k] \in below[m]
  <2>1. m + 1 \in Nat
    OBVIOUS
  <2>2. ASSUME NEW x \in below[m] PROVE x \in below[m + 1]
    <3>1. PICK k \in 1 .. n : x \in c[k][1][m]
      BY <1>5
    <3>2. x \in c[k][1][m + 1]
      BY <1>3, <3>1 DEF Grows
    <3> QED BY <1>5, <2>1, <3>2
  <2>3. ASSUME NEW x \in below[m + 1]
        PROVE  Whole(x) /\ \A k \in DOMAIN x.parts : x.parts[k] \in below[m]
    <3>1. PICK k \in 1 .. n : x \in c[k][1][m + 1]
      BY <1>5, <2>1
    <3>2. Whole(x) /\ \A j \in DOMAIN x.parts : x.parts[j] \in c[k][1][m]
      BY <1>3, <3>1 DEF Grows
    <3> QED BY <1>5, <3>2
  <2> QED BY <2>2, <2>3
<1>10. below[0] = {}
  BY <1>3, <1>5 DEF Grows
<1>11. ASSUME NEW m \in Nat
       PROVE  /\ g[m] \subseteq g[m + 1]
              /\ \A x \in g[m + 1] : Whole(x) /\ \A k \in DOMAIN x.parts : x.parts[k] \in g[m]
  <2>1. m + 1 \in Nat /\ m + 1 # 0 /\ (m + 1) - 1 = m
    OBVIOUS
  <2>2. g[m + 1] = below[m + 1] \cup {x \in {e} : \A k \in 1 .. n : e.parts[k] \in below[m]}
    BY <1>6, <2>1
  <2>3. below[m] \subseteq g[m]
    BY <1>6
  <2>4. ASSUME NEW x \in g[m + 1]
        PROVE  Whole(x) /\ \A k \in DOMAIN x.parts : x.parts[k] \in g[m]
    <3>1. CASE x \in below[m + 1]
      BY <1>9, <2>3, <3>1
    <3>2. CASE x \notin below[m + 1]
      BY <1>1, <2>2, <2>3, <2>4, <3>2
    <3> QED BY <3>1, <3>2
  <2>5. ASSUME NEW x \in g[m] PROVE x \in g[m + 1]
    <3>1. CASE x \in below[m]
      BY <1>9, <2>2, <3>1
    <3>2. CASE x \notin below[m]
      <4>1. x = e /\ m # 0 /\ \A k \in 1 .. n : e.parts[k] \in below[m - 1]
        BY <1>6, <2>5, <3>2
      <4>2. m - 1 \in Nat /\ (m - 1) + 1 = m
        BY <4>1
      <4>3. below[m - 1] \subseteq below[(m - 1) + 1]
        BY <1>9, <4>2
      <4>4. \A k \in 1 .. n : e.parts[k] \in below[m]
        BY <4>1, <4>2, <4>3
      <4> QED BY <2>2, <4>1, <4>4
    <3> QED BY <3>1, <3>2
  <2> QED BY <2>4, <2>5
<1>12. g[0] = {}
  BY <1>6, <1>10
<1>13. e \in g[top + 1]
  <2>1. top + 1 \in Nat /\ top + 1 # 0 /\ (top + 1) - 1 = top
    BY <1>7
  <2> QED BY <1>6, <1>8, <2>1
<1>14. Grows(g)
  BY <1>11, <1>12 DEF Grows
<1>15. top + 1 \in Nat
  OBVIOUS
<1> QED BY <1>13, <1>14, <1>15 DEF Built

\* Lists of expressions, and of what comes behind one.
Expressions(s) == \E S : s \in Seq(S) /\ \A e \in S : Built(e)

Apt(what, x) ==
    CASE what = "expression" -> Built(x)
      [] what = "suffix" ->
            /\ x.by \in {"operator", "step", "splat", "index", "call"}
            /\ x.by = "operator" => Built(x.right)
            /\ x.by = "step" => Leads(x.step)
            /\ x.by = "index" => Built(x.key)
            /\ x.by = "call" => Expressions(x.args)

AllApt(what, s) == \E S : s \in Seq(S) /\ \A x \in S : Apt(what, x)

LEMMA NoneApt == ASSUME NEW what PROVE AllApt(what, <<>>)
<1> DEFINE S == {}
<1>1. <<>> \in Seq(S) /\ \A x \in S : Apt(what, x)
  OBVIOUS
<1> HIDE DEF S
<1> QED BY <1>1 DEF AllApt

LEMMA OneApt ==
    ASSUME NEW what, NEW x, Apt(what, x)
    PROVE  AllApt(what, <<x>>)
<1> DEFINE S == {x}
<1>1. <<x>> \in Seq(S) /\ \A y \in S : Apt(what, y)
  OBVIOUS
<1> HIDE DEF S
<1> QED BY <1>1 DEF AllApt

LEMMA MoreApt ==
    ASSUME NEW what, NEW r, NEW s, AllApt(what, r), AllApt(what, s)
    PROVE  AllApt(what, r \o s)
<1>1. PICK R : r \in Seq(R) /\ \A x \in R : Apt(what, x)
  BY DEF AllApt
<1>2. PICK S : s \in Seq(S) /\ \A x \in S : Apt(what, x)
  BY DEF AllApt
<1>3. r \in Seq(R \cup S) /\ s \in Seq(R \cup S)
  BY <1>1, <1>2
<1>4. r \o s \in Seq(R \cup S)
  BY <1>3
<1>5. \A x \in R \cup S : Apt(what, x)
  BY <1>1, <1>2
<1> QED BY <1>4, <1>5 DEF AllApt

LEMMA EachApt ==
    ASSUME NEW what, NEW s, AllApt(what, s)
    PROVE  /\ Len(s) \in Nat /\ DOMAIN s = 1 .. Len(s)
           /\ \A k \in 1 .. Len(s) : Apt(what, s[k])
<1>1. PICK S : s \in Seq(S) /\ \A x \in S : Apt(what, x)
  BY DEF AllApt
<1> QED BY <1>1

LEMMA AptExpressions ==
    /\ \A e : Apt("expression", e) <=> Built(e)
    /\ \A s : AllApt("expression", s) <=> Expressions(s)
<1>1. \A e : Apt("expression", e) <=> Built(e)
  BY DEF Apt
<1> QED BY <1>1 DEF AllApt, Expressions

LEMMA TwoExpressions ==
    ASSUME NEW a, NEW b, Built(a), Built(b)
    PROVE  Expressions(<<a, b>>)
<1> DEFINE S == {a, b}
<1>1. <<a, b>> \in Seq(S) /\ \A x \in S : Built(x)
  OBVIOUS
<1> HIDE DEF S
<1> QED BY <1>1 DEF Expressions

LEMMA ThreeExpressions ==
    ASSUME NEW a, NEW b, NEW c, Built(a), Built(b), Built(c)
    PROVE  Expressions(<<a, b, c>>)
<1> DEFINE S == {a, b, c}
<1>1. <<a, b, c>> \in Seq(S) /\ \A x \in S : Built(x)
  OBVIOUS
<1> HIDE DEF S
<1> QED BY <1>1 DEF Expressions

LEMMA OneExpression ==
    ASSUME NEW a, Built(a)
    PROVE  Expressions(<<a>>)
  BY OneApt, AptExpressions

\* A node is built from its parts.
LEMMA Assembled ==
    ASSUME NEW e, {"kind", "parts"} \subseteq DOMAIN e, Expressions(e.parts),
           e.kind \in DOMAIN Arity => Len(e.parts) = Arity[e.kind], e.kind # "scope"
    PROVE  Built(e)
<1>1. PICK S : e.parts \in Seq(S) /\ \A x \in S : Built(x)
  BY DEF Expressions
<1>2. Len(e.parts) \in Nat /\ DOMAIN e.parts = 1 .. Len(e.parts)
  BY <1>1
<1>3. \A k \in DOMAIN e.parts : Built(e.parts[k])
  BY <1>1
<1>4. Whole(e)
  BY <1>2 DEF Whole, WellFormed
<1> QED BY <1>3, <1>4, NodeBuilt

LEMMA NodesBuilt ==
    ASSUME NEW parts, Expressions(parts), NEW kind, kind # "scope",
           kind \in DOMAIN Arity => Len(parts) = Arity[kind]
    PROVE  Built(Node(kind, parts))
<1> DEFINE e == Node(kind, parts)
<1>1. {"kind", "parts"} \subseteq DOMAIN e /\ e.parts = parts /\ e.kind = kind
  BY DEF Node
<1> HIDE DEF e
<1>2. Built(e)
  BY <1>1, Assembled
<1> QED BY <1>2 DEF e

LEMMA OperationBuilt ==
    ASSUME NEW parts, Expressions(parts), NEW op,
           NEW kind \in {"unary", "binary"}, Len(parts) = Arity[kind]
    PROVE  Built(Operation(kind, op, parts))
<1> DEFINE e == Operation(kind, op, parts)
<1>1. {"kind", "parts"} \subseteq DOMAIN e /\ e.parts = parts /\ e.kind = kind
  BY DEF Operation
<1> HIDE DEF e
<1>2. Built(e)
  BY <1>1, Assembled
<1> QED BY <1>2 DEF e

LEMMA LiteralBuilt == ASSUME NEW v PROVE Built(Literal(v))
<1> DEFINE e == Literal(v)
<1>1. {"kind", "parts"} \subseteq DOMAIN e /\ e.parts = <<>> /\ e.kind = "literal"
  BY DEF Literal
<1> HIDE DEF e
<1>2. Expressions(e.parts) /\ Len(e.parts) = Arity["literal"]
  BY <1>1, NoneApt, AptExpressions DEF Arity
<1>3. Built(e)
  BY <1>1, <1>2, Assembled
<1> QED BY <1>3 DEF e

LEMMA ScopeBuilt ==
    ASSUME NEW e, {"kind", "parts", "steps"} \subseteq DOMAIN e, e.kind = "scope",
           e.parts = <<>>, Rooted(e.steps)
    PROVE  Built(e)
<1>1. Len(e.parts) = 0 /\ DOMAIN e.parts = {} /\ Arity["scope"] = 0 /\ 1 .. 0 = {}
  BY DEF Arity
<1>2. Whole(e)
  BY <1>1 DEF Whole, WellFormed
<1> QED BY <1>1, <1>2, NodeBuilt

LEMMA ScopedBuilt ==
    ASSUME NEW steps, Rooted(steps)
    PROVE  Built(Scoped(steps))
<1> DEFINE e == Scoped(steps)
<1>1. /\ {"kind", "parts", "steps"} \subseteq DOMAIN e /\ e.kind = "scope" /\ e.parts = <<>>
      /\ e.steps = steps
  BY DEF Scoped
<1> HIDE DEF e
<1>2. Built(e)
  BY <1>1, ScopeBuilt
<1> QED BY <1>2 DEF e

LEMMA MoreSteps ==
    ASSUME NEW steps, Rooted(steps), NEW step, Leads(step)
    PROVE  Rooted(Append(steps, step))
<1>1. PICK S : steps \in Seq(S)
  BY DEF Rooted
<1> DEFINE R == S \cup {step}
           more == Append(steps, step)
<1>2. steps \in Seq(R) /\ step \in R
  BY <1>1
<1> HIDE DEF R
<1>3. /\ more \in Seq(R) /\ more # <<>> /\ Len(more) = Len(steps) + 1 /\ Len(steps) \in Nat
      /\ more[Len(steps) + 1] = step /\ \A k \in 1 .. Len(steps) : more[k] = steps[k]
  BY <1>2
<1>4. Len(steps) # 0 /\ 1 \in 1 .. Len(steps)
  BY <1>1, EmptySeq DEF Rooted
<1> HIDE DEF more
<1>5. more[1].by = "root" /\ IsText(more[1].key) /\ more[1].key # <<>>
  BY <1>3, <1>4 DEF Rooted
<1>6. ASSUME NEW k \in 2 .. Len(more) PROVE Leads(more[k])
  <2>1. k = Len(steps) + 1 \/ (k \in 2 .. Len(steps) /\ k \in 1 .. Len(steps))
    BY <1>3
  <2> QED BY <1>3, <1>6, <2>1 DEF Rooted
<1> QED BY <1>3, <1>5, <1>6 DEF Rooted, more

LEMMA SuffixedBuilt ==
    ASSUME NEW e, Built(e), NEW suffix, Apt("suffix", suffix)
    PROVE  Built(Suffixed(e, suffix))
<1>1. /\ suffix.by \in {"operator", "step", "splat", "index", "call"}
      /\ suffix.by = "operator" => Built(suffix.right)
      /\ suffix.by = "step" => Leads(suffix.step)
      /\ suffix.by = "index" => Built(suffix.key)
      /\ suffix.by = "call" => Expressions(suffix.args)
  BY DEF Apt
<1>2. CASE suffix.by = "operator"
  <2>1. Suffixed(e, suffix) = Operation("binary", suffix.op, <<e, suffix.right>>)
    BY <1>2 DEF Suffixed
  <2>2. Len(<<e, suffix.right>>) = Arity["binary"]
    BY DEF Arity
  <2>3. Expressions(<<e, suffix.right>>)
    BY <1>1, <1>2, TwoExpressions
  <2> QED BY <2>1, <2>2, <2>3, OperationBuilt
<1>3. CASE suffix.by = "step"
  <2>1. CASE e.kind \notin {"scope", "relative"}
    <3> DEFINE r == Relative(e, <<suffix.step>>)
    <3>1. Suffixed(e, suffix) = r
      BY <1>3, <2>1 DEF Suffixed
    <3>2. {"kind", "parts"} \subseteq DOMAIN r /\ r.parts = <<e>> /\ r.kind = "relative"
      BY DEF Relative
    <3> HIDE DEF r
    <3>3. Len(r.parts) = Arity["relative"] /\ Expressions(r.parts)
      BY <3>2, OneExpression DEF Arity
    <3> QED BY <3>1, <3>2, <3>3, Assembled
  <2>2. CASE e.kind \in {"scope", "relative"}
    <3> DEFINE r == [e EXCEPT !.steps = Append(@, suffix.step)]
    <3>1. Suffixed(e, suffix) = r
      BY <1>3, <2>2 DEF Suffixed
    <3>2. Whole(e) /\ \A k \in DOMAIN e.parts : Built(e.parts[k])
      BY BuiltIsWhole
    <3>3. DOMAIN r = DOMAIN e /\ r.kind = e.kind /\ r.parts = e.parts
      BY <3>2 DEF Whole
    <3>4. e.kind = "scope" => r.steps = Append(e.steps, suffix.step)
      BY <3>2 DEF Whole
    <3> HIDE DEF r
    <3>5. r.kind = "scope" => Rooted(r.steps)
      <4>1. e.kind = "scope" => Rooted(e.steps)
        BY <3>2 DEF Whole
      <4> QED BY <1>1, <1>3, <3>3, <3>4, <4>1, MoreSteps
    <3>6. Whole(r)
      BY <3>2, <3>3, <3>5 DEF Whole, WellFormed
    <3> QED BY <3>1, <3>2, <3>3, <3>6, NodeBuilt
  <2> QED BY <2>1, <2>2
<1>4. CASE suffix.by = "splat"
  <2>1. Suffixed(e, suffix) = Node("splat", <<e>>)
    BY <1>4 DEF Suffixed
  <2> QED BY <2>1, OneExpression, NodesBuilt DEF Arity
<1>5. CASE suffix.by = "index"
  <2>1. Suffixed(e, suffix) = Node("index", <<e, suffix.key>>)
    BY <1>5 DEF Suffixed
  <2>2. Len(<<e, suffix.key>>) = Arity["index"]
    BY DEF Arity
  <2>3. Expressions(<<e, suffix.key>>)
    BY <1>1, <1>5, TwoExpressions
  <2> QED BY <2>1, <2>2, <2>3, NodesBuilt
<1>6. CASE suffix.by = "call"
  <2>1. Suffixed(e, suffix) = Node("call", suffix.args)
    BY <1>6 DEF Suffixed
  <2> QED BY <1>1, <1>6, <2>1, NodesBuilt DEF Arity
<1> QED BY <1>1, <1>2, <1>3, <1>4, <1>5, <1>6

Grown(g, e, s, n) ==
    g = [k \in 0 .. n |-> IF k = 0 THEN e ELSE Suffixed(g[k - 1], s[k])]

LEMMA GrownExists ==
    ASSUME NEW e, NEW s, NEW n \in Nat
    PROVE  \E g : Grown(g, e, s, n)
<1> DEFINE S == {m \in Nat : ~\E f : Grown(f, e, s, m)}
           Next_(g, m) == IF m = 0 THEN e ELSE Suffixed(g[m - 1], s[m])
<1> SUFFICES ASSUME S # {} PROVE FALSE
  OBVIOUS
<1>1. PICK m \in S : \A k \in S : m <= k
  <2>1. S \in SUBSET Nat
    OBVIOUS
  <2> HIDE DEF S
  <2> QED BY <2>1, LeastOf
<1>2. PICK g : m # 0 => Grown(g, e, s, m - 1)
  <2>1. m # 0 => m - 1 \in Nat /\ m - 1 \notin S
    BY <1>1
  <2> QED BY <2>1
<1> DEFINE w == [k \in 0 .. m |-> IF k = m THEN Next_(g, m) ELSE g[k]]
<1>3. ASSUME NEW k \in 0 .. m PROVE w[k] = Next_(w, k)
  <2>1. CASE k = m
    <3>1. m # 0 => w[m - 1] = g[m - 1]
      BY <1>1
    <3>2. Next_(w, m) = Next_(g, m)
      <4> HIDE DEF w
      <4> QED BY <3>1
    <3>3. w[m] = Next_(g, m)
      <4> HIDE DEF Next_
      <4> QED BY <1>1
    <3> HIDE DEF w, Next_
    <3> QED BY <2>1, <3>2, <3>3
  <2>2. CASE k # m
    <3>1. m # 0 /\ k \in 0 .. m - 1 /\ (k # 0 => k - 1 \in 0 .. m - 1 /\ k - 1 # m)
      BY <1>1, <2>2
    <3>2. g[k] = Next_(g, k)
      BY <1>2, <3>1 DEF Grown
    <3>3. w[k] = g[k] /\ (k # 0 => w[k - 1] = g[k - 1])
      <4> HIDE DEF Next_
      <4> QED BY <1>1, <2>2, <3>1
    <3>4. Next_(w, k) = Next_(g, k)
      <4> HIDE DEF w
      <4> QED BY <3>3
    <3> HIDE DEF w, Next_
    <3> QED BY <3>2, <3>3, <3>4
  <2> QED BY <2>1, <2>2
<1>4. w = [k \in 0 .. m |-> w[k]]
  <2> HIDE DEF Next_
  <2> QED OBVIOUS
<1> HIDE DEF w
<1>5. Grown(w, e, s, m)
  <2>1. w = [k \in 0 .. m |-> Next_(w, k)]
    <3> HIDE DEF Next_
    <3> QED BY <1>3, <1>4
  <2> QED BY <2>1 DEF Grown
<1> QED BY <1>1, <1>5

LEMMA ChainBuilt ==
    ASSUME NEW e, Built(e), NEW s, AllApt("suffix", s)
    PROVE  Built(Chain(e, s))
<1> DEFINE n == Len(s)
           g == CHOOSE f : Grown(f, e, s, n)
<1>1. Chain(e, s) = g[n]
  BY DEF Chain, Grown
<1>2. n \in Nat /\ \A k \in 1 .. n : Apt("suffix", s[k])
  BY EachApt
<1> HIDE DEF n
<1>3. Grown(g, e, s, n)
  BY <1>2, GrownExists
<1> HIDE DEF g
<1> DEFINE Bad == {k \in 0 .. n : ~Built(g[k])}
<1>4. ASSUME Bad # {} PROVE FALSE
  <2>1. PICK k \in Bad : \A i \in Bad : k <= i
    <3>1. Bad \in SUBSET Nat
      OBVIOUS
    <3> HIDE DEF Bad
    <3> QED BY <1>4, <3>1, LeastOf
  <2>2. k \in 0 .. n /\ ~Built(g[k])
    BY <2>1
  <2>3. k # 0 /\ k \in 1 .. n /\ k - 1 \in 0 .. n /\ k - 1 < k
    BY <1>2, <1>3, <2>2 DEF Grown
  <2>4. Built(g[k - 1])
    BY <2>1, <2>3
  <2>5. g[k] = Suffixed(g[k - 1], s[k])
    BY <1>3, <2>2, <2>3 DEF Grown
  <2> QED BY <1>2, <2>2, <2>3, <2>4, <2>5, SuffixedBuilt
<1> QED BY <1>1, <1>2, <1>4

-----------------------------------------------------------------------------
(* What each read yields, when it raises no diagnostic *)

Yields(t, r)          == ~r.bad => r.i \in 1 .. Len(t) /\ Built(r.node)
YieldsAll(t, what, r) == ~r.bad => r.i \in 1 .. Len(t) /\ AllApt(what, r.node)
YieldsText(t, r)      == ~r.bad => r.i \in 1 .. Len(t) /\ IsText(r.node)

Productive(t, read) ==
    \A i \in 1 .. Len(t) :
        /\ \A rule \in Rules : Yields(t, Further(read, rule, i))
        /\ \A level \in DOMAIN BinaryLevels :
              YieldsAll(t, "suffix", Told(read, "operations", i, level))
        /\ \A callee \in Callees : YieldsAll(t, "suffix", Told(read, "postfixes", i, callee))
        /\ YieldsText(t, Further(read, "qualified", i))
        /\ \A of \in TextEnds : YieldsAll(t, "expression", Told(read, "parts", i, of))
        /\ \A close \in {"]", ")"} : YieldsAll(t, "expression", Told(read, "elements", i, close))
        /\ YieldsAll(t, "expression", Further(read, "items", i))
        /\ Further(read, "sequence", i).i \in 1 .. Len(t)

EndsOnce(t) == /\ Len(t) \in Nat \ {0}
               /\ \A k \in 1 .. Len(t) : t[k].type = "EOF" <=> k = Len(t)

\* What the lexer says of the texts of tokens.
Spelled(t) ==
    /\ EndsOnce(t)
    /\ \A k \in 1 .. Len(t) : IsText(t[k].text) /\ (t[k].type = "IDENT" => t[k].text # <<>>)

LEMMA TokenIs ==
    ASSUME NEW t, Spelled(t), NEW k \in 1 .. Len(t)
    PROVE  /\ Token(t, k) = t[k] /\ k \in Nat /\ Len(t) \in Nat
           /\ Type(t, k) = "EOF" <=> k = Len(t)
           /\ IsText(Token(t, k).text) /\ (Type(t, k) = "IDENT" => Token(t, k).text # <<>>)
           /\ Type(t, k) # "EOF" => k + 1 \in 1 .. Len(t)
           /\ \A op : Is(t, k, op) => k + 1 \in 1 .. Len(t)
<1>1. Len(t) \in Nat /\ k \in Nat /\ ~(k > Len(t))
  BY DEF Spelled, EndsOnce
<1>2. Token(t, k) = t[k]
  BY <1>1 DEF Token
<1>3. Type(t, k) = "EOF" <=> k = Len(t)
  BY <1>2 DEF Type, Spelled, EndsOnce
<1>4. Type(t, k) # "EOF" => k + 1 \in 1 .. Len(t)
  BY <1>1, <1>3
<1> QED BY <1>1, <1>2, <1>3, <1>4 DEF Spelled, Type, Is

LEMMA LinesIn ==
    ASSUME NEW t, Spelled(t), NEW i \in 1 .. Len(t)
    PROVE  Lines(t, i) \in 1 .. Len(t)
<1> DEFINE S == {j \in i .. Len(t) : Type(t, j) # "NEWLINE"}
<1>0. Len(t) \in 1 .. Len(t) /\ Len(t) \in Nat /\ i \in Nat
  BY DEF Spelled, EndsOnce
<1>1. Len(t) \in S
  <2>1. Type(t, Len(t)) = "EOF"
    BY <1>0, TokenIs
  <2> QED BY <1>0, <2>1
<1>2. \E n \in S : \A m \in S : n <= m
  <2>1. S \in SUBSET Nat /\ S # {}
    BY <1>0, <1>1
  <2> HIDE DEF S
  <2> QED BY <2>1, LeastOf
<1>3. Lines(t, i) = CHOOSE n \in S : \A m \in S : n <= m
  BY DEF Lines, Min
<1>4. Lines(t, i) \in S
  <2> HIDE DEF S
  <2> QED BY <1>2, <1>3
<1> QED BY <1>0, <1>4

LEMMA MatchIn ==
    ASSUME NEW t, Spelled(t), NEW i \in 1 .. Len(t), NEW op
    PROVE  Match(t, i, op) \in 1 .. Len(t)
  BY TokenIs DEF Match

LEMMA ClosedIn ==
    ASSUME NEW t, Spelled(t), NEW e, ~e.bad => e.i \in 1 .. Len(t), NEW node, NEW op,
           ~Closed(t, e, node, op).bad
    PROVE  /\ ~e.bad /\ e.i \in 1 .. Len(t) /\ Closed(t, e, node, op).i \in 1 .. Len(t)
           /\ Closed(t, e, node, op).node = node
<1>1. ~e.bad /\ Is(t, e.i, op) /\ Closed(t, e, node, op).i = e.i + 1
  BY ClosedFine
<1>2. Closed(t, e, node, op).node = node
  BY DEF Closed, Read
<1> QED BY <1>1, <1>2, TokenIs

LEMMA RuleYields ==
    ASSUME NEW t, NEW read, Productive(t, read), NEW rule \in Rules, NEW i \in 1 .. Len(t),
           ~Further(read, rule, i).bad
    PROVE  Further(read, rule, i).i \in 1 .. Len(t) /\ Built(Further(read, rule, i).node)
  BY DEF Productive, Yields

LEMMA ExpressionYields ==
    ASSUME NEW t, NEW read, Productive(t, read), NEW i \in 1 .. Len(t), ~Expression(read, i).bad
    PROVE  Expression(read, i).i \in 1 .. Len(t) /\ Built(Expression(read, i).node)
<1>1. "expression" \in Rules
  BY DEF Rules
<1> QED BY <1>1, RuleYields DEF Expression

\* One in front of the others.
LEMMA PrefixedYields ==
    ASSUME NEW t, NEW what, NEW nodes, NEW bad, NEW rest, ~Prefixed(nodes, bad, rest).bad,
           ~bad => AllApt(what, nodes), ~bad => YieldsAll(t, what, rest)
    PROVE  YieldsAll(t, what, Prefixed(nodes, bad, rest))
<1> DEFINE r == Prefixed(nodes, bad, rest)
<1>1. ~bad /\ ~rest.bad /\ r.i = rest.i /\ r.node = nodes \o rest.node
  BY DEF Prefixed, Read
<1>2. AllApt(what, nodes \o rest.node) /\ rest.i \in 1 .. Len(t)
  BY <1>1, MoreApt DEF YieldsAll
<1> HIDE DEF r
<1>3. YieldsAll(t, what, r)
  BY <1>1, <1>2 DEF YieldsAll
<1> QED BY <1>3 DEF r

LEMMA NoneYields ==
    ASSUME NEW t, NEW what, NEW i \in 1 .. Len(t)
    PROVE  YieldsAll(t, what, None(i))
<1>1. None(i).i = i /\ None(i).node = <<>>
  BY DEF None, Read
<1> QED BY <1>1, NoneApt DEF YieldsAll

LEMMA ConditionalYields ==
    ASSUME NEW t, Spelled(t), NEW read, Productive(t, read), NEW i \in 1 .. Len(t)
    PROVE  Yields(t, Conditional(t, read, i))
<1> DEFINE condition == Further(read, "or", i)
           yes == Expression(read, condition.i + 1)
           no  == Expression(read, yes.i + 1)
           r   == Conditional(t, read, i)
<1> SUFFICES ASSUME ~r.bad PROVE r.i \in 1 .. Len(t) /\ Built(r.node)
  BY DEF Yields
<1>1. ~condition.bad
  BY DEF Conditional, Branches, Read
<1>2. condition.i \in 1 .. Len(t) /\ Built(condition.node)
  <2>1. "or" \in Rules
    BY DEF Rules, BinaryLevels
  <2> QED BY <1>1, <2>1, RuleYields
<1>3. CASE ~Is(t, condition.i, <<"?">>)
  BY <1>2, <1>3 DEF Conditional
<1>4. CASE Is(t, condition.i, <<"?">>)
  <2> DEFINE parts == <<condition.node, yes.node, no.node>>
  <2>1. r = Branches(t, read, condition, yes)
    BY <1>4 DEF Conditional
  <2>2. Is(t, yes.i, <<":">>)
    BY <2>1 DEF Branches, Read
  <2> HIDE DEF condition, yes, r
  <2>3. r = Read(Node("conditional", parts), no.i, condition.bad \/ yes.bad \/ no.bad)
    BY <2>1, <2>2 DEF Branches
  <2>4. ~yes.bad /\ ~no.bad /\ r.i = no.i /\ r.node = Node("conditional", parts)
    <3> HIDE DEF no, parts
    <3> QED BY <2>3 DEF Read
  <2>5. condition.i + 1 \in 1 .. Len(t)
    BY <1>2, <1>4, TokenIs
  <2>6. yes.i \in 1 .. Len(t) /\ Built(yes.node)
    BY <2>4, <2>5, ExpressionYields DEF yes
  <2>7. yes.i + 1 \in 1 .. Len(t)
    BY <2>2, <2>6, TokenIs
  <2>8. no.i \in 1 .. Len(t) /\ Built(no.node)
    BY <2>4, <2>7, ExpressionYields
  <2>9. Expressions(parts) /\ Len(parts) = Arity["conditional"]
    <3> HIDE DEF no
    <3> QED BY <1>2, <2>6, <2>8, ThreeExpressions DEF Arity
  <2> HIDE DEF no, parts
  <2>10. Built(r.node)
    BY <2>4, <2>9, NodesBuilt
  <2> QED BY <2>4, <2>8, <2>10
<1> QED BY <1>3, <1>4

LEMMA BinaryYields ==
    ASSUME NEW t, NEW read, Productive(t, read), NEW i \in 1 .. Len(t),
           NEW level \in DOMAIN BinaryLevels
    PROVE  Yields(t, Binary(read, level, i))
<1> DEFINE left == Further(read, Tighter[level], i)
           rest == Told(read, "operations", left.i, level)
           r    == Binary(read, level, i)
<1> SUFFICES ASSUME ~r.bad PROVE r.i \in 1 .. Len(t) /\ Built(r.node)
  BY DEF Yields
<1>1. ~left.bad /\ ~rest.bad /\ r.i = rest.i /\ r.node = Chain(left.node, rest.node)
  BY DEF Binary, Read
<1>2. Tighter[level] \in Rules
  BY DEF Tighter, Rules, BinaryLevels
<1>3. left.i \in 1 .. Len(t) /\ Built(left.node)
  BY <1>1, <1>2, RuleYields
<1>4. YieldsAll(t, "suffix", rest)
  BY <1>3 DEF Productive
<1> HIDE DEF left, rest, r
<1> QED BY <1>1, <1>3, <1>4, ChainBuilt DEF YieldsAll

LEMMA OperationsYields ==
    ASSUME NEW t, Spelled(t), NEW read, Productive(t, read), NEW i \in 1 .. Len(t),
           NEW level \in DOMAIN BinaryLevels
    PROVE  YieldsAll(t, "suffix", Operations(t, read, i, level))
<1> DEFINE op    == Token(t, i).text
           right == Further(read, Tighter[level], i + 1)
           rest  == Told(read, "operations", right.i, level)
           r     == Operations(t, read, i, level)
           entry == [by |-> "operator", op |-> op, right |-> right.node]
<1> SUFFICES ASSUME ~r.bad PROVE YieldsAll(t, "suffix", r)
  BY DEF YieldsAll
<1>1. CASE ~(Type(t, i) = "OPERATOR" /\ op \in BinaryLevels[level])
  <2>1. r = None(i)
    BY <1>1 DEF Operations
  <2> QED BY <2>1, NoneYields
<1>2. CASE Type(t, i) = "OPERATOR" /\ op \in BinaryLevels[level]
  <2>1. r = Prefixed(<<entry>>, right.bad, rest)
    BY <1>2 DEF Operations
  <2>2. i + 1 \in 1 .. Len(t)
    BY <1>2, TokenIs
  <2>3. Tighter[level] \in Rules
    BY DEF Tighter, Rules, BinaryLevels
  <2>4. ~right.bad => right.i \in 1 .. Len(t) /\ Built(right.node)
    BY <2>2, <2>3, RuleYields
  <2>5. ~right.bad => YieldsAll(t, "suffix", rest)
    BY <2>4 DEF Productive
  <2>6. ~right.bad => AllApt("suffix", <<entry>>)
    <3>1. entry.by = "operator" /\ entry.right = right.node
      OBVIOUS
    <3> HIDE DEF entry, right
    <3>2. ~right.bad => Apt("suffix", entry)
      BY <2>4, <3>1 DEF Apt
    <3> QED BY <3>2, OneApt
  <2> HIDE DEF entry, right, rest, r
  <2> QED BY <2>1, <2>5, <2>6, PrefixedYields
<1> QED BY <1>1, <1>2

LEMMA GetAttrYields ==
    ASSUME NEW t, Spelled(t), NEW i \in 1 .. Len(t), ~GetAttr(t, i).bad
    PROVE  LET r == GetAttr(t, i)
           IN  r.i \in 1 .. Len(t) /\ Apt("suffix", r.node)
<1> DEFINE r == GetAttr(t, i)
           step == IF Type(t, i) = "NUMBER" THEN At(NumberOf(Token(t, i).text))
                                            ELSE Attr(Token(t, i).text)
<1>1. CASE Is(t, i, <<"*">>)
  <2>1. r.i = i + 1 /\ r.node = [by |-> "splat"]
    <3>1. Type(t, i) \notin {"IDENT", "NUMBER"}
      BY <1>1 DEF Is
    <3>2. r = Read([by |-> "splat"], i + 1, FALSE)
      BY <1>1, <3>1 DEF GetAttr
    <3> QED BY <3>2 DEF Read
  <2>2. i + 1 \in 1 .. Len(t) /\ r.node.by = "splat"
    BY <1>1, <2>1, TokenIs
  <2> HIDE DEF r
  <2> QED BY <2>1, <2>2 DEF Apt, r
<1>2. CASE ~Is(t, i, <<"*">>)
  <2>1. Type(t, i) \in {"IDENT", "NUMBER"}
    BY <1>2 DEF GetAttr, Read
  <2>2. r.i = i + 1 /\ r.node = [by |-> "step", step |-> step]
    BY <1>2, <2>1 DEF GetAttr, Read
  <2>3. i + 1 \in 1 .. Len(t) /\ IsText(Token(t, i).text)
    BY <2>1, TokenIs
  <2>4. Leads(step)
    <3>1. CASE Type(t, i) = "NUMBER"
      BY <3>1 DEF At, Leads
    <3>2. CASE Type(t, i) # "NUMBER"
      BY <2>3, <3>2 DEF Attr, Leads
    <3> QED BY <3>1, <3>2
  <2> HIDE DEF step
  <2>5. r.node.by = "step" /\ r.node.step = step
    BY <2>2
  <2> HIDE DEF r
  <2> QED BY <2>2, <2>3, <2>4, <2>5 DEF Apt, r
<1> QED BY <1>1, <1>2

LEMMA IndexYields ==
    ASSUME NEW t, Spelled(t), NEW read, Productive(t, read), NEW i \in 1 .. Len(t),
           ~Index(t, read, i).bad
    PROVE  LET r == Index(t, read, i)
           IN  r.i \in 1 .. Len(t) /\ Apt("suffix", r.node)
<1> DEFINE key  == Expression(read, i)
           node == [by |-> "index", key |-> key.node]
           r    == Index(t, read, i)
<1>1. CASE Is(t, i, <<"*">>)
  <2>1. r.i = Match(t, i + 1, <<"]">>) /\ r.node = [by |-> "splat"]
    BY <1>1 DEF Index, Read
  <2>2. r.i \in 1 .. Len(t) /\ r.node.by = "splat"
    BY <1>1, <2>1, TokenIs, MatchIn
  <2> HIDE DEF r
  <2> QED BY <2>2 DEF Apt, r
<1>2. CASE ~Is(t, i, <<"*">>)
  <2>1. r = Closed(t, key, node, <<"]">>)
    BY <1>2 DEF Index
  <2>2. ~key.bad => key.i \in 1 .. Len(t) /\ Built(key.node)
    BY ExpressionYields
  <2>3. node.by = "index" /\ node.key = key.node
    OBVIOUS
  <2> HIDE DEF key, node, r
  <2>4. ~key.bad /\ r.i \in 1 .. Len(t) /\ r.node = node
    BY <2>1, <2>2, ClosedIn DEF r
  <2> QED BY <2>2, <2>3, <2>4 DEF Apt, r
<1> QED BY <1>1, <1>2

LEMMA CallYields ==
    ASSUME NEW t, Spelled(t), NEW read, Productive(t, read), NEW i \in 1 .. Len(t),
           ~Call(t, read, i).bad
    PROVE  LET r == Call(t, read, i)
           IN  r.i \in 1 .. Len(t) /\ Apt("suffix", r.node)
<1> DEFINE args == Told(read, "elements", i, ")")
           node == [by |-> "call", args |-> args.node]
           r    == Call(t, read, i)
<1>1. r = Closed(t, args, node, <<")">>)
  BY DEF Call
<1>2. ~args.bad => args.i \in 1 .. Len(t) /\ Expressions(args.node)
  <2>1. YieldsAll(t, "expression", args)
    BY DEF Productive
  <2> HIDE DEF args
  <2> QED BY <2>1, AptExpressions DEF YieldsAll
<1>3. node.by = "call" /\ node.args = args.node
  OBVIOUS
<1> HIDE DEF args, node, r
<1>4. ~args.bad /\ r.i \in 1 .. Len(t) /\ r.node = node
  BY <1>1, <1>2, ClosedIn DEF r
<1> QED BY <1>2, <1>3, <1>4 DEF Apt, r

LEMMA SuffixYields ==
    ASSUME NEW t, Spelled(t), NEW read, Productive(t, read), NEW i \in 1 .. Len(t),
           Type(t, i) = "OPERATOR", ~Suffix(t, read, i).bad
    PROVE  LET r == Suffix(t, read, i)
           IN  r.i \in 1 .. Len(t) /\ Apt("suffix", r.node)
<1>0. i + 1 \in 1 .. Len(t)
  BY TokenIs
<1>1. CASE Is(t, i, <<".">>)
  <2>1. Suffix(t, read, i) = GetAttr(t, i + 1)
    BY <1>1 DEF Suffix, Is
  <2> QED BY <1>0, <2>1, GetAttrYields
<1>2. CASE ~Is(t, i, <<".">>) /\ Is(t, i, <<"[">>)
  <2>1. Suffix(t, read, i) = Index(t, read, i + 1)
    BY <1>2 DEF Suffix
  <2> QED BY <1>0, <2>1, IndexYields
<1>3. CASE ~Is(t, i, <<".">>) /\ ~Is(t, i, <<"[">>)
  <2>1. Suffix(t, read, i) = Call(t, read, i + 1)
    BY <1>3 DEF Suffix
  <2> QED BY <1>0, <2>1, CallYields
<1> QED BY <1>1, <1>2, <1>3

LEMMA PostfixesYields ==
    ASSUME NEW t, Spelled(t), NEW read, Productive(t, read), NEW i \in 1 .. Len(t),
           NEW callee \in Callees
    PROVE  YieldsAll(t, "suffix", Postfixes(t, read, i, callee))
<1> DEFINE one  == Suffix(t, read, i)
           name == IF callee = "name" /\ one.node.by \in {"step", "nothing"} THEN "name" ELSE ""
           rest == Told(read, "postfixes", one.i, name)
           r    == Postfixes(t, read, i, callee)
           follows == Is(t, i, <<".">>) \/ Is(t, i, <<"[">>) \/ (Is(t, i, <<"(">>) /\ callee = "name")
<1> SUFFICES ASSUME ~r.bad PROVE YieldsAll(t, "suffix", r)
  BY DEF YieldsAll
<1>1. name \in Callees
  BY Zenon DEF Callees
<1> HIDE DEF name
<1>2. CASE ~follows
  <2>1. r = None(i)
    BY Zenon, <1>2 DEF Postfixes
  <2> QED BY <2>1, NoneYields
<1>3. CASE follows
  <2>1. r = Prefixed(<<one.node>>, one.bad, rest)
    BY Zenon, <1>3 DEF Postfixes, name
  <2>2. Type(t, i) = "OPERATOR"
    BY <1>3 DEF Is
  <2>3. ~one.bad => one.i \in 1 .. Len(t) /\ Apt("suffix", one.node)
    BY <2>2, SuffixYields
  <2>4. ~one.bad => YieldsAll(t, "suffix", rest)
    BY <1>1, <2>3 DEF Productive
  <2> HIDE DEF one, rest, r
  <2>5. ~one.bad => AllApt("suffix", <<one.node>>)
    BY <2>3, OneApt
  <2> QED BY <2>1, <2>4, <2>5, PrefixedYields
<1> QED BY <1>2, <1>3

LEMMA PostfixYields ==
    ASSUME NEW t, NEW read, Productive(t, read), NEW i \in 1 .. Len(t)
    PROVE  Yields(t, Postfix(read, i))
<1> DEFINE e    == Further(read, "primary", i)
           name == IF e.node.kind = "scope" THEN "name" ELSE ""
           rest == Told(read, "postfixes", e.i, name)
           r    == Postfix(read, i)
<1> SUFFICES ASSUME ~r.bad PROVE r.i \in 1 .. Len(t) /\ Built(r.node)
  BY DEF Yields
<1>1. r = Read(Chain(e.node, rest.node), rest.i, e.bad \/ rest.bad)
  BY Zenon DEF Postfix
<1>2. name \in Callees
  BY Zenon DEF Callees
<1> HIDE DEF name, r
<1>3. ~e.bad /\ ~rest.bad /\ r.i = rest.i /\ r.node = Chain(e.node, rest.node)
  BY <1>1 DEF Read
<1>4. e.i \in 1 .. Len(t) /\ Built(e.node)
  <2>1. "primary" \in Rules
    BY DEF Rules
  <2> QED BY <1>3, <2>1, RuleYields
<1>5. YieldsAll(t, "suffix", rest)
  BY <1>2, <1>4 DEF Productive
<1> HIDE DEF e, rest
<1> QED BY <1>3, <1>4, <1>5, ChainBuilt DEF YieldsAll

LEMMA UnaryYields ==
    ASSUME NEW t, Spelled(t), NEW read, Productive(t, read), NEW i \in 1 .. Len(t)
    PROVE  Yields(t, Unary(t, read, i))
<1> DEFINE operand == Further(read, "unary", i + 1)
           r == Unary(t, read, i)
           parts == <<operand.node>>
<1> SUFFICES ASSUME ~r.bad PROVE r.i \in 1 .. Len(t) /\ Built(r.node)
  BY DEF Yields
<1>1. CASE ~(Is(t, i, <<"!">>) \/ Is(t, i, <<"-">>))
  <2>1. r = Postfix(read, i)
    BY <1>1 DEF Unary
  <2>2. Yields(t, r)
    BY <2>1, PostfixYields
  <2> QED BY <2>2 DEF Yields
<1>2. CASE Is(t, i, <<"!">>) \/ Is(t, i, <<"-">>)
  <2>1. r = Read(Operation("unary", Token(t, i).text, parts), operand.i, operand.bad)
    BY <1>2 DEF Unary
  <2>2. i + 1 \in 1 .. Len(t)
    BY <1>2, TokenIs
  <2> HIDE DEF r, operand, parts
  <2>3. ~operand.bad /\ r.i = operand.i /\ r.node = Operation("unary", Token(t, i).text, parts)
    BY <2>1 DEF Read
  <2>4. operand.i \in 1 .. Len(t) /\ Built(operand.node)
    <3>1. "unary" \in Rules
      BY DEF Rules
    <3> QED BY <2>2, <2>3, <3>1, RuleYields DEF operand
  <2>5. Expressions(parts) /\ Len(parts) = Arity["unary"]
    BY <2>4, OneExpression DEF parts, Arity
  <2> QED BY <2>3, <2>4, <2>5, OperationBuilt
<1> QED BY <1>1, <1>2

LEMMA MoreText ==
    ASSUME NEW r, NEW s, IsText(r), IsText(s)
    PROVE  /\ IsText(r \o s) /\ Len(r \o s) = Len(r) + Len(s) /\ Len(r) \in Nat /\ Len(s) \in Nat
           /\ r # <<>> => r \o s # <<>>
<1>1. PICK R : r \in Seq(R)
  BY DEF IsText
<1>2. PICK S : s \in Seq(S)
  BY DEF IsText
<1>3. r \in Seq(R \cup S) /\ s \in Seq(R \cup S)
  BY <1>1, <1>2
<1>4. r \o s \in Seq(R \cup S) /\ Len(r \o s) = Len(r) + Len(s) /\ Len(r) \in Nat /\ Len(s) \in Nat
  BY <1>3
<1>5. r # <<>> => Len(r) # 0
  BY <1>1, EmptySeq
<1>6. r # <<>> => r \o s # <<>>
  <2> DEFINE w == r \o s
  <2>1. Len(w) = Len(r) + Len(s) /\ Len(r) \in Nat /\ Len(s) \in Nat
    BY <1>4
  <2> HIDE DEF w
  <2>2. r # <<>> => w # <<>>
    BY <1>5, <2>1, EmptySeq
  <2> QED BY <2>2 DEF w
<1> QED BY <1>4, <1>6 DEF IsText

LEMMA QualifiedYields ==
    ASSUME NEW t, Spelled(t), NEW read, Productive(t, read), NEW i \in 1 .. Len(t)
    PROVE  YieldsText(t, Qualified(t, read, i))
<1> DEFINE rest == Further(read, "qualified", i + 2)
           r    == Qualified(t, read, i)
           text_ == Token(t, i + 1).text
<1> SUFFICES ASSUME ~r.bad PROVE r.i \in 1 .. Len(t) /\ IsText(r.node)
  BY DEF YieldsText
<1>1. CASE ~Is(t, i, <<":", ":">>)
  <2>1. r.i = i /\ r.node = <<>>
    BY <1>1 DEF Qualified, None, Read
  <2>2. <<>> \in Seq({})
    OBVIOUS
  <2> QED BY <2>1, <2>2 DEF IsText
<1>2. CASE Is(t, i, <<":", ":">>)
  <2>1. Type(t, i + 1) = "IDENT"
    BY <1>2 DEF Qualified, Read
  <2>2. r = Prefixed(<<":", ":">> \o text_, FALSE, rest)
    BY <1>2, <2>1 DEF Qualified
  <2>3. i + 1 \in 1 .. Len(t) /\ (i + 1) + 1 = i + 2
    BY <1>2, TokenIs
  <2>4. i + 2 \in 1 .. Len(t) /\ IsText(text_)
    BY <2>1, <2>3, TokenIs
  <2>5. YieldsText(t, rest)
    BY <2>4 DEF Productive
  <2>6. IsText(<<":", ":">>)
    <3>1. <<":", ":">> \in Seq({":"})
      OBVIOUS
    <3> QED BY <3>1 DEF IsText
  <2> HIDE DEF r, rest, text_
  <2>7. IsText(<<":", ":">> \o text_)
    BY <2>4, <2>6, MoreText
  <2> DEFINE nodes == <<":", ":">> \o text_
  <2> HIDE DEF nodes
  <2>8. ~rest.bad /\ r.i = rest.i /\ r.node = nodes \o rest.node
    BY <2>2 DEF Prefixed, Read, nodes
  <2>9. IsText(r.node)
    BY <2>5, <2>7, <2>8, MoreText DEF YieldsText, nodes
  <2> QED BY <2>5, <2>8, <2>9 DEF YieldsText
<1> QED BY <1>1, <1>2

LEMMA VariableYields ==
    ASSUME NEW t, Spelled(t), NEW read, Productive(t, read), NEW i \in 1 .. Len(t),
           Type(t, i) = "IDENT"
    PROVE  Yields(t, Variable(t, read, i))
<1> DEFINE rest == Further(read, "qualified", i + 1)
           r    == Variable(t, read, i)
           name == Token(t, i).text \o rest.node
           steps == <<Root(name)>>
<1> SUFFICES ASSUME ~r.bad PROVE r.i \in 1 .. Len(t) /\ Built(r.node)
  BY DEF Yields
<1>1. ~rest.bad /\ r.i = rest.i /\ r.node = Scoped(steps)
  BY DEF Variable, Read
<1>2. i + 1 \in 1 .. Len(t) /\ IsText(Token(t, i).text) /\ Token(t, i).text # <<>>
  BY TokenIs
<1>3. YieldsText(t, rest)
  BY <1>2 DEF Productive
<1> HIDE DEF rest, r
<1>4. IsText(name) /\ name # <<>> /\ rest.i \in 1 .. Len(t)
  BY <1>1, <1>2, <1>3, MoreText DEF YieldsText
<1> HIDE DEF name
<1>5. Rooted(steps)
  <2> DEFINE S == {Root(name)}
  <2>1. steps \in Seq(S)
    OBVIOUS
  <2>2. steps # <<>> /\ steps[1] = Root(name) /\ 2 .. Len(steps) = {}
    OBVIOUS
  <2>3. steps[1].by = "root" /\ steps[1].key = name
    BY DEF Root
  <2> HIDE DEF S, steps
  <2> QED BY <1>4, <2>1, <2>2, <2>3 DEF Rooted
<1> HIDE DEF steps
<1> QED BY <1>1, <1>4, <1>5, ScopedBuilt

LEMMA SequenceIn ==
    ASSUME NEW t, Spelled(t), NEW read, Productive(t, read), NEW i \in 1 .. Len(t)
    PROVE  Sequence(t, read, i).i \in 1 .. Len(t)
<1> DEFINE inner == Further(read, "sequence", i + 1)
<1>0. \A j \in 1 .. Len(t) : Further(read, "sequence", j).i \in 1 .. Len(t)
  BY DEF Productive
<1>1. CASE Type(t, i) = "EOF"
  BY <1>1 DEF Sequence, None, Read
<1>2. CASE Type(t, i) = "SEQ_END"
  <2>1. i + 1 \in 1 .. Len(t)
    BY <1>2, TokenIs
  <2> QED BY <1>2, <2>1 DEF Sequence, None, Read
<1>3. CASE Type(t, i) \notin {"EOF", "SEQ_END"}
  <2>1. i + 1 \in 1 .. Len(t)
    BY <1>3, TokenIs
  <2>2. inner.i \in 1 .. Len(t)
    BY <1>0, <2>1
  <2>3. Sequence(t, read, i) \in {Further(read, "sequence", inner.i), inner}
    BY <1>3 DEF Sequence
  <2> HIDE DEF inner
  <2> QED BY <1>0, <2>2, <2>3
<1> QED BY <1>1, <1>2, <1>3

-----------------------------------------------------------------------------
LEMMA InterpolationYields ==
    ASSUME NEW t, Spelled(t), NEW read, Productive(t, read), NEW i \in 1 .. Len(t),
           NEW of \in TextEnds
    PROVE  YieldsAll(t, "expression", Interpolation(t, read, i, of))
<1> DEFINE inner == Expression(read, i)
           ended == Type(t, inner.i) = "SEQ_END"
           j     == IF ended THEN inner.i + 1 ELSE inner.i
           rest  == Told(read, "parts", j, of)
           bad   == inner.bad \/ ~ended
           r     == Interpolation(t, read, i, of)
<1> SUFFICES ASSUME ~r.bad PROVE YieldsAll(t, "expression", r)
  BY DEF YieldsAll
<1>1. r = Prefixed(<<inner.node>>, bad, rest)
  BY DEF Interpolation
<1>2. ~inner.bad => inner.i \in 1 .. Len(t) /\ Built(inner.node)
  BY ExpressionYields
<1>3. ~bad => j \in 1 .. Len(t)
  BY <1>2, TokenIs
<1> HIDE DEF j
<1>4. ~bad => YieldsAll(t, "expression", rest)
  BY <1>3 DEF Productive
<1>5. ~bad => AllApt("expression", <<inner.node>>)
  BY <1>2, OneApt, AptExpressions
<1> HIDE DEF inner, ended, bad, rest, r
<1> QED BY <1>1, <1>4, <1>5, PrefixedYields

LEMMA LiteralApt == ASSUME NEW v PROVE AllApt("expression", <<Literal(v)>>)
  BY LiteralBuilt, OneApt, AptExpressions

LEMMA PartsYields ==
    ASSUME NEW t, Spelled(t), NEW read, Productive(t, read), NEW i \in 1 .. Len(t),
           NEW of \in TextEnds
    PROVE  YieldsAll(t, "expression", Parts(t, read, i, of))
<1> DEFINE rest   == Told(read, "parts", i + 1, of)
           j      == Further(read, "sequence", i + 1).i
           beyond == Told(read, "parts", j, of)
           r      == Parts(t, read, i, of)
<1>0. of \notin {"EOF", "LITERAL", "INTERP", "CONTROL"}
  BY DEF TextEnds
<1> SUFFICES ASSUME ~r.bad PROVE YieldsAll(t, "expression", r)
  BY DEF YieldsAll
<1>1. Type(t, i) # "EOF"
  BY <1>0 DEF Parts, Read
<1>2. i + 1 \in 1 .. Len(t)
  BY <1>1, TokenIs
<1>3. YieldsAll(t, "expression", rest)
  BY <1>2 DEF Productive
<1>4. CASE Type(t, i) = of
  <2>1. r = None(i + 1)
    BY <1>0, <1>4 DEF Parts
  <2> QED BY <1>2, <2>1, NoneYields
<1>5. CASE Type(t, i) = "LITERAL"
  <2>1. r = Prefixed(<<Literal(StringVal(Token(t, i).text))>>, FALSE, rest)
    BY <1>0, <1>5 DEF Parts
  <2> HIDE DEF r, rest
  <2> QED BY <1>3, <2>1, LiteralApt, PrefixedYields
<1>6. CASE Type(t, i) = "INTERP"
  <2>1. r = Interpolation(t, read, i + 1, of)
    BY <1>0, <1>6 DEF Parts
  <2> QED BY <1>2, <2>1, InterpolationYields
<1>7. CASE Type(t, i) = "CONTROL"
  <2>1. r = Prefixed(<<Literal(UnknownVal)>>, FALSE, beyond)
    BY <1>0, <1>7 DEF Parts
  <2>2. j \in 1 .. Len(t)
    BY <1>2 DEF Productive
  <2> HIDE DEF j, r
  <2>3. YieldsAll(t, "expression", beyond)
    BY <2>2 DEF Productive
  <2> HIDE DEF beyond
  <2> QED BY <2>1, <2>3, LiteralApt, PrefixedYields
<1>8. CASE Type(t, i) \notin {of, "LITERAL", "INTERP", "CONTROL"}
  <2>1. r = rest
    BY <1>1, <1>8 DEF Parts
  <2> QED BY <1>3, <2>1
<1> QED BY <1>4, <1>5, <1>6, <1>7, <1>8

LEMMA TemplateBuilt ==
    ASSUME NEW parts, AllApt("expression", parts)
    PROVE  Built(TemplateNode(parts)) /\ Built(Node("template", parts))
<1>1. Expressions(parts)
  BY AptExpressions
<1>2. Built(Node("template", parts))
  <2>1. "template" \notin DOMAIN Arity
    BY DEF Arity
  <2> QED BY <1>1, <2>1, NodesBuilt
<1>3. CASE parts = <<>>
  <2>1. TemplateNode(parts) = Literal(StringVal(<<>>))
    BY <1>3 DEF TemplateNode
  <2> QED BY <1>2, <2>1, LiteralBuilt
<1>4. CASE parts # <<>> /\ Len(parts) = 1 /\ parts[1].kind # "literal"
  <2>1. TemplateNode(parts) = Node("wrap", parts)
    BY <1>4 DEF TemplateNode
  <2>2. Len(parts) = Arity["wrap"]
    BY <1>4 DEF Arity
  <2> QED BY <1>1, <1>2, <2>1, <2>2, NodesBuilt
<1>5. CASE ~(parts = <<>>) /\ ~(Len(parts) = 1 /\ parts[1].kind # "literal")
  <2>1. TemplateNode(parts) = Node("template", parts)
    BY <1>5 DEF TemplateNode
  <2> QED BY <1>2, <2>1
<1> QED BY <1>2, <1>3, <1>4, <1>5

LEMMA QuotedYields ==
    ASSUME NEW t, Spelled(t), NEW read, Productive(t, read), NEW i \in 1 .. Len(t),
           i + 1 \in 1 .. Len(t)
    PROVE  Yields(t, QuotedTemplate(read, i)) /\ Yields(t, Heredoc(read, i))
<1>1. ASSUME NEW of \in TextEnds
      PROVE  LET parts == Told(read, "parts", i + 1, of)
             IN  ~parts.bad => /\ parts.i \in 1 .. Len(t) /\ Built(TemplateNode(parts.node))
                               /\ Built(Node("template", parts.node))
  <2> DEFINE parts == Told(read, "parts", i + 1, of)
  <2>1. YieldsAll(t, "expression", parts)
    BY DEF Productive
  <2> HIDE DEF parts
  <2>2. ~parts.bad => /\ parts.i \in 1 .. Len(t) /\ Built(TemplateNode(parts.node))
                      /\ Built(Node("template", parts.node))
    BY <2>1, TemplateBuilt DEF YieldsAll
  <2> QED BY <2>2 DEF parts
<1>2. Yields(t, QuotedTemplate(read, i))
  <2> DEFINE parts == Told(read, "parts", i + 1, "CQUOTE")
             node == TemplateNode(parts.node)
  <2>1. QuotedTemplate(read, i) = Read(node, parts.i, parts.bad)
    BY DEF QuotedTemplate, As
  <2>2. "CQUOTE" \in TextEnds
    BY DEF TextEnds
  <2>3. ~parts.bad => parts.i \in 1 .. Len(t) /\ Built(node)
    BY <1>1, <2>2
  <2> HIDE DEF parts, node
  <2> QED BY <2>1, <2>3 DEF Yields, Read
<1>3. Yields(t, Heredoc(read, i))
  <2> DEFINE parts == Told(read, "parts", i + 1, "CHEREDOC")
             node == Node("template", parts.node)
  <2>1. Heredoc(read, i) = Read(node, parts.i, parts.bad)
    BY DEF Heredoc, As
  <2>2. "CHEREDOC" \in TextEnds
    BY DEF TextEnds
  <2>3. ~parts.bad => parts.i \in 1 .. Len(t) /\ Built(node)
    BY <1>1, <2>2
  <2> HIDE DEF parts, node
  <2> QED BY <2>1, <2>3 DEF Yields, Read
<1> QED BY <1>2, <1>3

LEMMA ElementsYield ==
    ASSUME NEW t, Spelled(t), NEW read, Productive(t, read), NEW i \in 1 .. Len(t),
           NEW close \in {"]", ")"}
    PROVE  YieldsAll(t, "expression", Elements(t, read, i, close))
<1> DEFINE start == Lines(t, i)
           one   == Expression(read, start)
           j     == Lines(t, one.i)
           k     == IF close = ")" THEN Match(t, j, <<".", ".", ".">>) ELSE j
           m     == Lines(t, k + 1)
           rest  == Told(read, "elements", m, close)
           more  == IF Is(t, k, <<Comma>>) THEN rest ELSE None(k)
           r     == Elements(t, read, i, close)
<1> SUFFICES ASSUME ~r.bad PROVE YieldsAll(t, "expression", r)
  BY DEF YieldsAll
<1>1. start \in 1 .. Len(t)
  BY LinesIn
<1>2. CASE Is(t, start, <<close>>) \/ Type(t, i) = "EOF"
  <2>1. r = None(start)
    BY <1>2 DEF Elements
  <2> HIDE DEF start, r
  <2> QED BY <1>1, <2>1, NoneYields
<1>3. CASE ~(Is(t, start, <<close>>) \/ Type(t, i) = "EOF")
  <2>1. r = Prefixed(<<one.node>>, one.bad, more)
    BY <1>3 DEF Elements
  <2> HIDE DEF r, start
  <2>2. ~one.bad => one.i \in 1 .. Len(t) /\ Built(one.node)
    BY <1>1, ExpressionYields
  <2>3. ~one.bad => AllApt("expression", <<one.node>>)
    BY <2>2, OneApt, AptExpressions
  <2> HIDE DEF one
  <2>4. ~one.bad => YieldsAll(t, "expression", more)
    <3> SUFFICES ASSUME ~one.bad PROVE YieldsAll(t, "expression", more)
      OBVIOUS
    <3>1. j \in 1 .. Len(t)
      BY <2>2, LinesIn
    <3> HIDE DEF j
    <3>2. k \in 1 .. Len(t)
      BY <3>1, MatchIn
    <3> HIDE DEF k
    <3>3. CASE Is(t, k, <<Comma>>)
      <4>1. k + 1 \in 1 .. Len(t)
        BY <3>2, <3>3, TokenIs
      <4>2. m \in 1 .. Len(t)
        BY <4>1, LinesIn
      <4> HIDE DEF m
      <4>3. YieldsAll(t, "expression", rest)
        BY <4>2 DEF Productive
      <4> QED BY <3>3, <4>3
    <3>4. CASE ~Is(t, k, <<Comma>>)
      <4>1. more = None(k)
        BY <3>4
      <4> QED BY <3>2, <4>1, NoneYields
    <3> QED BY <3>3, <3>4
  <2> HIDE DEF more
  <2> QED BY <2>1, <2>3, <2>4, PrefixedYields
<1> QED BY <1>2, <1>3

LEMMA ItemsYield ==
    ASSUME NEW t, Spelled(t), NEW read, Productive(t, read), NEW i \in 1 .. Len(t)
    PROVE  YieldsAll(t, "expression", Items(t, read, i))
<1> DEFINE start == Lines(t, i)
           key   == Expression(read, start)
           value == Expression(read, key.i + 1)
           j     == Lines(t, value.i)
           k     == Match(t, j, <<Comma>>)
           next  == Lines(t, k)
           rest  == Further(read, "items", next)
           nodes == <<Node("key", <<key.node>>), value.node>>
           r     == Items(t, read, i)
<1> SUFFICES ASSUME ~r.bad PROVE YieldsAll(t, "expression", r)
  BY DEF YieldsAll
<1>1. start \in 1 .. Len(t)
  BY LinesIn
<1>2. CASE Is(t, start, <<EndBrace>>) \/ Type(t, i) = "EOF"
  <2>1. r = None(start)
    BY <1>2 DEF Items
  <2> HIDE DEF r, start
  <2> QED BY <1>1, <2>1, NoneYields
<1>3. CASE ~(Is(t, start, <<EndBrace>>) \/ Type(t, i) = "EOF")
  <2>1. r = Item(t, read, key)
    BY <1>3 DEF Items
  <2> HIDE DEF start, key, r
  <2>2. Is(t, key.i, <<"=">>) \/ Is(t, key.i, <<":">>)
    BY <2>1 DEF Item, Prefixed, Read
  <2>3. r = Prefixed(nodes, key.bad \/ value.bad, rest)
    BY <2>1, <2>2 DEF Item
  <2>4. ~key.bad => key.i \in 1 .. Len(t) /\ Built(key.node)
    BY <1>1, ExpressionYields DEF key
  <2>5. ~key.bad => key.i + 1 \in 1 .. Len(t)
    BY <2>2, <2>4, TokenIs
  <2> HIDE DEF nodes, rest
  <2>6. ~(key.bad \/ value.bad) => value.i \in 1 .. Len(t) /\ Built(value.node)
    BY <2>5, ExpressionYields
  <2> HIDE DEF value
  <2>7. ~(key.bad \/ value.bad) => AllApt("expression", nodes)
    <3> SUFFICES ASSUME ~(key.bad \/ value.bad) PROVE Expressions(nodes)
      BY AptExpressions
    <3>1. Len(<<key.node>>) = Arity["key"]
      BY DEF Arity
    <3>2. Expressions(<<key.node>>)
      BY <2>4, OneExpression
    <3>3. Built(Node("key", <<key.node>>))
      BY <3>1, <3>2, NodesBuilt
    <3> QED BY <2>6, <3>3, TwoExpressions DEF nodes
  <2>8. ~(key.bad \/ value.bad) => YieldsAll(t, "expression", rest)
    <3> SUFFICES ASSUME ~(key.bad \/ value.bad) PROVE YieldsAll(t, "expression", rest)
      OBVIOUS
    <3>1. j \in 1 .. Len(t)
      BY <2>6, LinesIn
    <3> HIDE DEF j
    <3>2. k \in 1 .. Len(t)
      BY <3>1, MatchIn
    <3> HIDE DEF k
    <3>3. next \in 1 .. Len(t)
      BY <3>2, LinesIn
    <3> HIDE DEF next
    <3> QED BY <3>3 DEF Productive, rest
  <2> QED BY <2>3, <2>7, <2>8, PrefixedYields
<1> QED BY <1>2, <1>3

LEMMA ForNamesIn ==
    ASSUME NEW t, Spelled(t), NEW i \in 1 .. Len(t), Type(t, i) = "IDENT"
    PROVE  ForNames(t, i) \in 1 .. Len(t)
<1> DEFINE one == IF Type(t, i + 1) = "IDENT" THEN i + 2 ELSE i + 1
           two == Match(t, one, <<Comma>>)
<1>1. i + 1 \in 1 .. Len(t) /\ (i + 1) + 1 = i + 2
  BY TokenIs
<1>2. one \in 1 .. Len(t)
  <2>1. CASE Type(t, i + 1) = "IDENT"
    <3>1. (i + 1) + 1 \in 1 .. Len(t)
      BY <1>1, <2>1, TokenIs
    <3> QED BY <1>1, <2>1, <3>1
  <2>2. CASE Type(t, i + 1) # "IDENT"
    BY <1>1, <2>2
  <2> QED BY <2>1, <2>2
<1> HIDE DEF one
<1>3. two \in 1 .. Len(t)
  BY <1>2, MatchIn
<1> HIDE DEF two
<1>4. ForNames(t, i) = IF two > one /\ Type(t, two) = "IDENT" THEN two + 1 ELSE two
  BY DEF ForNames, one, two
<1>5. Type(t, two) = "IDENT" => two + 1 \in 1 .. Len(t)
  BY <1>3, TokenIs
<1> QED BY <1>3, <1>4, <1>5

\* What a for was built from, so far.
ForPart(t, e) == ~e.bad => e.i \in 1 .. Len(t) /\ Built(e.node)

LEMMA ForYields ==
    ASSUME NEW t, Spelled(t), NEW read, Productive(t, read), NEW i \in 1 .. Len(t),
           Type(t, i) = "IDENT", NEW close
    PROVE  Yields(t, For(t, read, i, close))
<1> DEFINE names == ForNames(t, i)
           of    == Collection(t, read, names)
           key   == ForKey(t, read, of)
           value == ForValue(t, read, key, close)
           whole == ForTest(t, read, value)
           ended == Read(whole.node, Lines(t, whole.i), whole.bad)
           node  == Node("for", <<whole.node>>)
           r     == For(t, read, i, close)
<1> SUFFICES ASSUME ~r.bad PROVE r.i \in 1 .. Len(t) /\ Built(r.node)
  BY DEF Yields
<1>1. r = Closed(t, ended, node, <<close>>)
  BY DEF For
<1>2. names \in 1 .. Len(t)
  BY ForNamesIn
<1> HIDE DEF names
<1>3. ForPart(t, of)
  <2>1. SUFFICES ASSUME ~of.bad PROVE of.i \in 1 .. Len(t) /\ Built(of.node)
    BY DEF ForPart
  <2>2. Type(t, names) = "IDENT"
    BY <2>1 DEF Collection, Read
  <2> DEFINE e == Expression(read, names + 1)
  <2>3. of.i = e.i /\ of.node = e.node /\ ~e.bad
    BY <2>1, <2>2 DEF Collection, Read
  <2>4. names + 1 \in 1 .. Len(t)
    BY <1>2, <2>2, TokenIs
  <2> HIDE DEF of
  <2> QED BY <2>3, <2>4, ExpressionYields
<1> HIDE DEF of
<1>4. ForPart(t, key)
  <2>1. SUFFICES ASSUME ~key.bad PROVE key.i \in 1 .. Len(t) /\ Built(key.node)
    BY DEF ForPart
  <2> DEFINE j     == Lines(t, of.i)
             colon == Closing(t, j, <<":">>)
             k     == Lines(t, colon.i)
             e     == Expression(read, k)
  <2>2. ~of.bad /\ ~colon.bad /\ ~e.bad /\ key.i = e.i /\ key.node = of.node
    BY <2>1 DEF ForKey, Then, Read
  <2> HIDE DEF key
  <2>3. j \in 1 .. Len(t)
    BY <1>3, <2>2, LinesIn DEF ForPart
  <2> HIDE DEF j
  <2>4. colon.i \in 1 .. Len(t)
    BY <2>3, MatchIn DEF Closing
  <2> HIDE DEF colon
  <2>5. k \in 1 .. Len(t)
    BY <2>4, LinesIn
  <2> HIDE DEF k
  <2> QED BY <1>3, <2>2, <2>5, ExpressionYields DEF ForPart
<1> HIDE DEF key
<1>5. ForPart(t, value)
  <2>1. SUFFICES ASSUME ~value.bad PROVE value.i \in 1 .. Len(t) /\ Built(value.node)
    BY DEF ForPart
  <2> DEFINE arrow == Lines(t, key.i)
             k     == Lines(t, arrow + 1)
             e     == Expression(read, k)
             j     == Lines(t, e.i)
             dots  == Match(t, j, <<".", ".", ".">>)
  <2>2. CASE ~(close = EndBrace /\ Is(t, arrow, <<"=", ">">>))
    <3>1. value = key
      BY <2>2 DEF ForValue
    <3> HIDE DEF value
    <3> QED BY <1>4, <2>1, <3>1 DEF ForPart
  <2>3. CASE close = EndBrace /\ Is(t, arrow, <<"=", ">">>)
    <3>1. ~key.bad /\ ~e.bad /\ value.i = dots /\ value.node = key.node
      BY <2>1, <2>3 DEF ForValue, Read
    <3> HIDE DEF value
    <3>2. arrow \in 1 .. Len(t)
      BY <1>4, <3>1, LinesIn DEF ForPart
    <3> HIDE DEF arrow
    <3>3. arrow + 1 \in 1 .. Len(t)
      BY <2>3, <3>2, TokenIs
    <3>4. k \in 1 .. Len(t)
      BY <3>3, LinesIn
    <3> HIDE DEF k
    <3>5. e.i \in 1 .. Len(t)
      BY <3>1, <3>4, ExpressionYields
    <3> HIDE DEF e
    <3>6. j \in 1 .. Len(t)
      BY <3>5, LinesIn
    <3> HIDE DEF j
    <3>7. dots \in 1 .. Len(t)
      BY <3>6, MatchIn
    <3> HIDE DEF dots
    <3> QED BY <1>4, <3>1, <3>7 DEF ForPart
  <2> QED BY <2>2, <2>3
<1> HIDE DEF value
<1>6. ForPart(t, whole)
  <2>1. SUFFICES ASSUME ~whole.bad PROVE whole.i \in 1 .. Len(t) /\ Built(whole.node)
    BY DEF ForPart
  <2> DEFINE start == Lines(t, value.i)
             e     == Expression(read, start + 1)
  <2>2. CASE ~IsWord(t, start, "if")
    <3>1. whole = value
      BY <2>2 DEF ForTest
    <3> HIDE DEF whole
    <3> QED BY <1>5, <2>1, <3>1 DEF ForPart
  <2>3. CASE IsWord(t, start, "if")
    <3>1. ~value.bad /\ ~e.bad /\ whole.i = e.i /\ whole.node = value.node
      BY <2>1, <2>3 DEF ForTest, Then, Read
    <3> HIDE DEF whole
    <3>2. start \in 1 .. Len(t)
      BY <1>5, <3>1, LinesIn DEF ForPart
    <3>3. start + 1 \in 1 .. Len(t)
      BY <2>3, <3>2, TokenIs DEF IsWord
    <3> HIDE DEF start
    <3>4. e.i \in 1 .. Len(t)
      BY <3>1, <3>3, ExpressionYields
    <3> HIDE DEF e
    <3> QED BY <1>5, <3>1, <3>4 DEF ForPart
  <2> QED BY <2>2, <2>3
<1> HIDE DEF whole
<1>7. ~ended.bad => ended.i \in 1 .. Len(t) /\ Built(whole.node)
  <2>1. ended.i = Lines(t, whole.i) /\ ended.bad = whole.bad
    BY DEF Read
  <2> HIDE DEF ended
  <2> QED BY <1>6, <2>1, LinesIn DEF ForPart
<1>8. Built(whole.node) => Built(node)
  <2>1. "for" \notin DOMAIN Arity
    BY DEF Arity
  <2> QED BY <2>1, OneExpression, NodesBuilt
<1> HIDE DEF r, ended, node
<1>9. ~ended.bad /\ r.i \in 1 .. Len(t) /\ r.node = node
  BY <1>1, <1>7, ClosedIn
<1> QED BY <1>7, <1>8, <1>9

LEMMA BracketedYields ==
    ASSUME NEW t, Spelled(t), NEW e, YieldsAll(t, "expression", e), NEW op,
           NEW kind \in {"tuple", "object"}
    PROVE  Yields(t, Bracketed(t, e, kind, op))
<1> DEFINE node == Node(kind, e.node)
           r    == Bracketed(t, e, kind, op)
<1> SUFFICES ASSUME ~r.bad PROVE r.i \in 1 .. Len(t) /\ Built(r.node)
  BY DEF Yields
<1>1. r = Closed(t, e, node, op)
  BY DEF Bracketed
<1>2. ~e.bad => Built(node)
  <2>1. kind \notin DOMAIN Arity /\ kind # "scope"
    BY DEF Arity
  <2> QED BY <2>1, NodesBuilt, AptExpressions DEF YieldsAll
<1> HIDE DEF r, node
<1>3. ~e.bad /\ r.i \in 1 .. Len(t) /\ r.node = node
  BY <1>1, ClosedIn DEF YieldsAll
<1> QED BY <1>2, <1>3

LEMMA TupleYields ==
    ASSUME NEW t, Spelled(t), NEW read, Productive(t, read), NEW i \in 1 .. Len(t)
    PROVE  Yields(t, Tuple(t, read, i))
<1> DEFINE start == Lines(t, i)
           e     == Told(read, "elements", start, "]")
<1>1. start \in 1 .. Len(t)
  BY LinesIn
<1>2. CASE IsWord(t, start, "for")
  <2>1. Tuple(t, read, i) = For(t, read, start, "]") /\ Type(t, start) = "IDENT"
    BY <1>2 DEF Tuple, IsWord
  <2> HIDE DEF start
  <2> QED BY <1>1, <2>1, ForYields
<1>3. CASE ~IsWord(t, start, "for")
  <2>1. Tuple(t, read, i) = Bracketed(t, e, "tuple", <<"]">>)
    BY <1>3 DEF Tuple
  <2> HIDE DEF start
  <2>2. YieldsAll(t, "expression", e)
    BY <1>1 DEF Productive
  <2> HIDE DEF e
  <2> QED BY <2>1, <2>2, BracketedYields
<1> QED BY <1>2, <1>3

LEMMA ObjectYields ==
    ASSUME NEW t, Spelled(t), NEW read, Productive(t, read), NEW i \in 1 .. Len(t)
    PROVE  Yields(t, Object(t, read, i))
<1> DEFINE start == Lines(t, i)
           e     == Further(read, "items", start)
<1>1. start \in 1 .. Len(t)
  BY LinesIn
<1>2. CASE IsWord(t, start, "for")
  <2>1. Object(t, read, i) = For(t, read, start, EndBrace) /\ Type(t, start) = "IDENT"
    BY <1>2 DEF Object, IsWord
  <2> HIDE DEF start
  <2> QED BY <1>1, <2>1, ForYields
<1>3. CASE ~IsWord(t, start, "for")
  <2>1. Object(t, read, i) = Bracketed(t, e, "object", <<EndBrace>>)
    BY <1>3 DEF Object
  <2> HIDE DEF start
  <2>2. YieldsAll(t, "expression", e)
    BY <1>1 DEF Productive
  <2> HIDE DEF e
  <2> QED BY <2>1, <2>2, BracketedYields
<1> QED BY <1>2, <1>3

LEMMA ParenthesisYields ==
    ASSUME NEW t, Spelled(t), NEW read, Productive(t, read), NEW i \in 1 .. Len(t)
    PROVE  Yields(t, Parenthesis(t, read, i))
<1> DEFINE inner == Expression(read, i)
           node  == Node("parentheses", <<inner.node>>)
           r     == Parenthesis(t, read, i)
<1> SUFFICES ASSUME ~r.bad PROVE r.i \in 1 .. Len(t) /\ Built(r.node)
  BY DEF Yields
<1>1. r = Closed(t, inner, node, <<")">>)
  BY DEF Parenthesis
<1>2. ~inner.bad => inner.i \in 1 .. Len(t) /\ Built(inner.node)
  BY ExpressionYields
<1> HIDE DEF inner
<1>3. ~inner.bad => Built(node)
  <2>1. Len(<<inner.node>>) = Arity["parentheses"]
    BY DEF Arity
  <2> QED BY <1>2, <2>1, OneExpression, NodesBuilt
<1> HIDE DEF r, node
<1>4. ~inner.bad /\ r.i \in 1 .. Len(t) /\ r.node = node
  BY <1>1, <1>2, ClosedIn
<1> QED BY <1>3, <1>4

LEMMA PrimaryYields ==
    ASSUME NEW t, Spelled(t), NEW read, Productive(t, read), NEW i \in 1 .. Len(t)
    PROVE  Yields(t, Primary(t, read, i))
<1> DEFINE r == Primary(t, read, i)
<1>0. <<Brace>> # <<"[">> /\ <<Brace>> # <<"(">> /\ <<Brace>> # <<"*">>
  BY Braces DEF Others
<1> SUFFICES ASSUME ~r.bad PROVE Yields(t, r)
  BY DEF Yields
<1>1. CASE Type(t, i) = "NUMBER"
  <2> DEFINE node == Literal(NumberVal(NumberOf(Token(t, i).text)))
  <2>1. r = Read(node, i + 1, FALSE)
    BY <1>1 DEF Primary, Is
  <2>2. i + 1 \in 1 .. Len(t) /\ Built(node)
    BY <1>1, TokenIs, LiteralBuilt
  <2> HIDE DEF node
  <2> QED BY <2>1, <2>2 DEF Yields, Read
<1>2. CASE Type(t, i) = "OQUOTE"
  <2>1. r = QuotedTemplate(read, i)
    BY <1>2 DEF Primary, Is
  <2> QED BY <1>2, <2>1, TokenIs, QuotedYields
<1>3. CASE Type(t, i) = "OHEREDOC"
  <2>1. r = Heredoc(read, i)
    BY <1>3 DEF Primary, Is
  <2> QED BY <1>3, <2>1, TokenIs, QuotedYields
<1>4. CASE Is(t, i, <<"[">>)
  <2>1. Type(t, i) = "OPERATOR" /\ ~Is(t, i, <<Brace>>) /\ ~Is(t, i, <<"(">>)
    BY <1>0, <1>4 DEF Is
  <2>2. r = Tuple(t, read, i + 1)
    BY <1>4, <2>1 DEF Primary
  <2> QED BY <1>4, <2>2, TokenIs, TupleYields
<1>5. CASE Is(t, i, <<Brace>>)
  <2>1. Type(t, i) = "OPERATOR" /\ ~Is(t, i, <<"[">>) /\ ~Is(t, i, <<"(">>)
    BY <1>0, <1>5 DEF Is
  <2>2. r = Object(t, read, i + 1)
    BY <1>5, <2>1 DEF Primary
  <2> QED BY <1>5, <2>2, TokenIs, ObjectYields
<1>6. CASE Is(t, i, <<"(">>)
  <2>1. Type(t, i) = "OPERATOR" /\ ~Is(t, i, <<"[">>) /\ ~Is(t, i, <<Brace>>)
    BY <1>0, <1>6 DEF Is
  <2>2. r = Parenthesis(t, read, i + 1)
    BY <1>6, <2>1 DEF Primary
  <2> QED BY <1>6, <2>2, TokenIs, ParenthesisYields
<1>7. CASE Type(t, i) = "IDENT"
  <2> DEFINE node == Literal(Keywords[Token(t, i).text[1]])
  <2>1. r = IF Keyword(Token(t, i).text) THEN Read(node, i + 1, FALSE) ELSE Variable(t, read, i)
    BY <1>7 DEF Primary, Is
  <2>2. i + 1 \in 1 .. Len(t) /\ Built(node)
    BY <1>7, TokenIs, LiteralBuilt
  <2> HIDE DEF node, r
  <2>3. CASE Keyword(Token(t, i).text)
    BY <2>1, <2>2, <2>3 DEF Yields, Read
  <2>4. CASE ~Keyword(Token(t, i).text)
    BY <1>7, <2>1, <2>4, VariableYields
  <2> QED BY <2>3, <2>4 DEF r
<1>8. CASE ~(\/ Type(t, i) \in {"NUMBER", "OQUOTE", "OHEREDOC", "IDENT"} \/ Is(t, i, <<"[">>)
             \/ Is(t, i, <<Brace>>) \/ Is(t, i, <<"(">>))
  <2>1. r.bad
    BY <1>8 DEF Primary, Read
  <2> QED BY <2>1
<1> QED BY <1>1, <1>2, <1>3, <1>4, <1>5, <1>6, <1>7, <1>8

-----------------------------------------------------------------------------
(* Bodies *)

\* What CommentsStayOutside says of an argument; and it has a whole expression.
Ranged(t, a) ==
    \E n \in DOMAIN t : /\ t[n].first > a.first /\ t[n].next = a.next
                        /\ t[n].type \notin {"NEWLINE", "EOF"} \/ Unclosed(t, n)

\* A token starts behind where any name before it does.
Placed(t) ==
    /\ DOMAIN t = 1 .. Len(t)
    /\ \A k, n \in 1 .. Len(t) : k < n /\ t[k].type = "IDENT" => t[k].first < t[n].first

\* The statements of a body: arguments with their ranges, blocks whose bodies are in B.
Proper(t, a)    == Ranged(t, a) /\ Built(a.expr)
AreArguments(t, s) == \E S : s \in Seq(S) /\ \A a \in S : Proper(t, a)
Blocks(B, s)    == \E S : s \in Seq(S) /\ \A b \in S : b.body \in B

BodyEnds == {"", EndBrace}
Over(t, j, end) == Type(t, j) = "EOF" \/ (end # "" /\ Is(t, j, <<end>>))

StatementRead(t, x, i, B, r) ==
    ~r.bad => /\ r.i \in i + 1 .. Len(t) /\ r.i \in 1 .. Len(t) /\ Alike(x, i, r.i)
              /\ AreArguments(t, r.node.attributes) /\ Blocks(B, r.node.blocks)

StatementsRead(t, x, i, end, B, r) ==
    ~r.bad => /\ r.i \in i .. Len(t) /\ Alike(x, i, r.i) /\ Over(t, r.i, end)
              /\ AreArguments(t, r.node.attributes) /\ Blocks(B, r.node.blocks)

BodyRead(t, x, i, end, B, r) ==
    ~r.bad => /\ r.i \in i .. Len(t) /\ Alike(x, i, r.i) /\ Over(t, r.i, end)
              /\ r.node \in B
              /\ \A name \in DOMAIN r.node.attributes : Proper(t, r.node.attributes[name])
              /\ Blocks(B, r.node.blocks)

SoundInBodies(t, x, B, read) ==
    \A i \in 1 .. Len(t) : \A end \in BodyEnds : Ready(x, i) =>
        /\ StatementsRead(t, x, i, end, B, Told(read, "statements", i, end))
        /\ BodyRead(t, x, i, end, B, Told(read, "body", i, end))

LEMMA OneArgument ==
    ASSUME NEW t, NEW a, Proper(t, a)
    PROVE  AreArguments(t, <<a>>)
<1>1. <<a>> \in Seq({a}) /\ \A b \in {a} : Proper(t, b)
  OBVIOUS
<1> DEFINE S == {a}
<1>2. <<a>> \in Seq(S) /\ \A b \in S : Proper(t, b)
  BY <1>1
<1> HIDE DEF S
<1> QED BY <1>2 DEF AreArguments

LEMMA OneBlock ==
    ASSUME NEW B, NEW b, b.body \in B
    PROVE  Blocks(B, <<b>>)
<1>1. <<b>> \in Seq({b}) /\ \A c \in {b} : c.body \in B
  OBVIOUS
<1> DEFINE S == {b}
<1>2. <<b>> \in Seq(S) /\ \A c \in S : c.body \in B
  BY <1>1
<1> HIDE DEF S
<1> QED BY <1>2 DEF Blocks

LEMMA NoStatements == ASSUME NEW t, NEW B PROVE AreArguments(t, <<>>) /\ Blocks(B, <<>>)
<1> DEFINE S == {}
<1>1. <<>> \in Seq(S) /\ (\A a \in S : Proper(t, a)) /\ (\A b \in S : b.body \in B)
  OBVIOUS
<1> HIDE DEF S
<1> QED BY <1>1 DEF AreArguments, Blocks

LEMMA MoreArguments ==
    ASSUME NEW t, NEW r, NEW s, AreArguments(t, r), AreArguments(t, s)
    PROVE  AreArguments(t, r \o s)
<1>1. PICK R : r \in Seq(R) /\ \A a \in R : Proper(t, a)
  BY DEF AreArguments
<1>2. PICK S : s \in Seq(S) /\ \A a \in S : Proper(t, a)
  BY DEF AreArguments
<1>3. r \in Seq(R \cup S) /\ s \in Seq(R \cup S)
  BY <1>1, <1>2
<1>4. r \o s \in Seq(R \cup S)
  BY <1>3
<1>5. \A a \in R \cup S : Proper(t, a)
  BY <1>1, <1>2
<1> QED BY <1>4, <1>5 DEF AreArguments

LEMMA MoreBlocks ==
    ASSUME NEW B, NEW r, NEW s, Blocks(B, r), Blocks(B, s)
    PROVE  Blocks(B, r \o s)
<1>1. PICK R : r \in Seq(R) /\ \A b \in R : b.body \in B
  BY DEF Blocks
<1>2. PICK S : s \in Seq(S) /\ \A b \in S : b.body \in B
  BY DEF Blocks
<1>3. r \in Seq(R \cup S) /\ s \in Seq(R \cup S)
  BY <1>1, <1>2
<1>4. r \o s \in Seq(R \cup S)
  BY <1>3
<1>5. \A b \in R \cup S : b.body \in B
  BY <1>1, <1>2
<1> QED BY <1>4, <1>5 DEF Blocks

\* "The attribute ends where its expression ends."
LEMMA RangeOfArgument ==
    ASSUME NEW t, NEW x, Traced(t, x), Placed(t), NEW i \in 1 .. Len(t), Type(t, i) = "IDENT",
           NEW e, e.i \in i + 3 .. Len(t), Ends(t, e.i), NEW a, a.first = Token(t, i).first,
           a.next = EndOf(t, e)
    PROVE  Ranged(t, a)
<1>0. i \in Nat /\ Len(t) \in Nat /\ e.i \in Nat
  BY DEF Traced
<1> DEFINE n == IF Unclosed(t, e.i) THEN e.i ELSE e.i - 1
<1>1. n \in 1 .. Len(t) /\ i < n
  BY <1>0
<1>2. Type(t, n) \notin {"NEWLINE", "EOF"} \/ Unclosed(t, n)
  <2>1. CASE Unclosed(t, e.i)
    BY <2>1
  <2>2. CASE ~Unclosed(t, e.i)
    <3>1. Type(t, e.i - 1) # "NEWLINE"
      BY DEF Ends
    <3>2. Type(t, e.i - 1) # "EOF"
      <4>1. e.i - 1 \in 1 .. Len(t) /\ e.i - 1 # Len(t)
        BY <1>0
      <4> QED BY <4>1 DEF Traced
    <3> QED BY <2>2, <3>1, <3>2
  <2> QED BY <2>1, <2>2
<1>3. a.next = Token(t, n).next
  BY DEF EndOf
<1> HIDE DEF n
<1>4. Token(t, n) = t[n] /\ Token(t, i) = t[i] /\ Type(t, n) = t[n].type /\ Type(t, i) = t[i].type
  BY <1>0, <1>1 DEF Token, Type
<1>5. t[i].first < t[n].first /\ n \in DOMAIN t
  BY <1>1, <1>4 DEF Placed
<1>6. t[n].first > a.first
  BY <1>4, <1>5
<1> QED BY <1>2, <1>3, <1>4, <1>5, <1>6 DEF Ranged

LEMMA AttributeSound ==
    ASSUME NEW t, NEW x, NEW read, Traced(t, x), Placed(t), Spelled(t), SoundInCode(t, x, read),
           Productive(t, read), NEW B,
           NEW i \in 1 .. Len(t), Ready(x, i), Type(t, i) = "IDENT", Is(t, i + 1, <<"=">>)
    PROVE  StatementRead(t, x, i, B, Attribute(t, read, i))
<1> DEFINE e     == Expression(read, i + 2)
           entry == [name |-> Token(t, i).text, expr |-> e.node,
                     first |-> Token(t, i).first, next |-> EndOf(t, e)]
           r     == Attribute(t, read, i)
<1>0. i \in Nat /\ Len(t) \in Nat /\ (i + 1) + 1 = i + 2 /\ i + 1 \in Nat
  BY DEF Traced
<1> SUFFICES ASSUME ~r.bad
             PROVE  /\ r.i \in i + 1 .. Len(t) /\ r.i \in 1 .. Len(t) /\ Alike(x, i, r.i)
                    /\ AreArguments(t, r.node.attributes) /\ Blocks(B, r.node.blocks)
  BY DEF StatementRead
<1>1. ~e.bad /\ r.i = e.i /\ r.node.attributes = <<entry>> /\ r.node.blocks = <<>>
  BY DEF Attribute, Read
<1>2. i + 1 \in 1 .. Len(t) /\ Alike(x, i, i + 1)
  BY PlainStep
<1>3. i + 2 \in 1 .. Len(t) /\ Alike(x, i + 1, i + 2)
  BY <1>0, <1>2, NoBrackets, OperatorStep
<1>4. Ready(x, i + 2) /\ Alike(x, i, i + 2)
  BY <1>2, <1>3, Continue DEF Alike
<1>5. e.i \in i + 3 .. Len(t) /\ Alike(x, i + 2, e.i) /\ Ends(t, e.i)
  <2>1. e.i \in (i + 2) + 1 .. Len(t) /\ Alike(x, i + 2, e.i) /\ Ends(t, e.i)
    BY <1>1, <1>3, <1>4, ExpressionRead
  <2> HIDE DEF e
  <2> QED BY <1>0, <2>1
<1>6. Proper(t, entry)
  <2>1. entry.first = Token(t, i).first /\ entry.next = EndOf(t, e) /\ entry.expr = e.node
    OBVIOUS
  <2>2. Built(e.node)
    BY <1>1, <1>3, ExpressionYields
  <2> HIDE DEF e, entry
  <2>3. Ranged(t, entry)
    BY <1>5, <2>1, RangeOfArgument
  <2> QED BY <2>1, <2>2, <2>3 DEF Proper
<1> HIDE DEF e, entry, r
<1>7. AreArguments(t, r.node.attributes) /\ Blocks(B, r.node.blocks)
  BY <1>1, <1>6, OneArgument, NoStatements
<1> QED BY <1>0, <1>1, <1>4, <1>5, <1>7 DEF Alike

LEMMA BlockSound ==
    ASSUME NEW t, NEW x, NEW read, Traced(t, x), SoundInText(t, x, read),
           NEW B, SoundInBodies(t, x, B, read),
           NEW i \in 1 .. Len(t), Ready(x, i), Type(t, i) = "IDENT"
    PROVE  StatementRead(t, x, i, B, Block(t, read, i))
<1> DEFINE labels == Further(read, "labels", i + 1)
           k      == labels.i
           inner  == Told(read, "body", k + 1, EndBrace)
           entry  == [type |-> Token(t, i).text, labels |-> labels.node, body |-> inner.node]
           node   == [attributes |-> <<>>, blocks |-> <<entry>>]
           r      == Block(t, read, i)
<1>0. i \in Nat /\ Len(t) \in Nat
  BY DEF Traced
<1> SUFFICES ASSUME ~r.bad
             PROVE  /\ r.i \in i + 1 .. Len(t) /\ r.i \in 1 .. Len(t) /\ Alike(x, i, r.i)
                    /\ AreArguments(t, r.node.attributes) /\ Blocks(B, r.node.blocks)
  BY DEF StatementRead
<1>1. Is(t, k, <<Brace>>)
  BY DEF Block, Skipped, Read
<1>2. r = Closed(t, inner, node, <<EndBrace>>)
  BY <1>1 DEF Block
<1>3. ~inner.bad /\ Is(t, inner.i, <<EndBrace>>) /\ r.i = inner.i + 1
  <2> HIDE DEF inner, node
  <2> QED BY <1>2, ClosedFine
<1>4. r.node.attributes = <<>> /\ r.node.blocks = <<entry>> /\ entry.body = inner.node
  <2>1. r.node = node
    <3> HIDE DEF inner, node, r
    <3> QED BY <1>2 DEF Closed, Read
  <2> HIDE DEF inner, labels, r
  <2> QED BY <2>1
<1> HIDE DEF r, node, entry
<1>5. i + 1 \in 1 .. Len(t) /\ Alike(x, i, i + 1) /\ Ready(x, i + 1)
  BY PlainStep, Continue
<1>6. LabelsLeft(t, x, i + 1, labels)
  BY <1>5 DEF SoundInText
<1> HIDE DEF labels
<1>7. k \in i + 1 .. Len(t) /\ (Type(t, k) = "EOF" \/ Alike(x, i + 1, k))
  BY <1>5, <1>6 DEF LabelsLeft
<1> HIDE DEF k
<1>8. k \in 1 .. Len(t) /\ Alike(x, i, k) /\ Ready(x, k) /\ Type(t, k) = "OPERATOR"
  <2>1. k \in 1 .. Len(t) /\ Type(t, k) = "OPERATOR"
    BY <1>0, <1>1, <1>7 DEF Is
  <2>2. Alike(x, i, k)
    BY <1>5, <1>7, <2>1 DEF Alike
  <2> QED BY <2>1, <2>2, Continue
<1>9. k + 1 \in 1 .. Len(t) /\ Ready(x, k + 1)
  BY <1>8, NotTheLast, OpenedAlike
<1>10. BodyRead(t, x, k + 1, EndBrace, B, inner)
  <2>1. EndBrace \in BodyEnds
    BY DEF BodyEnds
  <2> QED BY <1>9, <2>1 DEF SoundInBodies
<1> HIDE DEF inner
<1>11. inner.i \in k + 1 .. Len(t) /\ Alike(x, k + 1, inner.i) /\ inner.node \in B
  BY <1>3, <1>10 DEF BodyRead
<1>12. ~InSplat(t, k) /\ ~InSplat(t, inner.i)
  <2>1. ~InSplat(t, k)
    BY <1>1, Braces DEF InSplat, Is, Others
  <2>2. ~InSplat(t, inner.i)
    BY <1>3, Braces DEF InSplat, Is, Others
  <2> QED BY <2>1, <2>2
<1>13. inner.i + 1 \in k + 1 .. Len(t) /\ inner.i + 1 \in 1 .. Len(t) /\ Alike(x, k, inner.i + 1)
  BY <1>1, <1>3, <1>8, <1>11, <1>12, BracesPair, Bracketing
<1>14. AreArguments(t, r.node.attributes) /\ Blocks(B, r.node.blocks)
  BY <1>4, <1>11, OneBlock, NoStatements
<1>15. inner.i + 1 \in i + 1 .. Len(t) /\ Alike(x, i, inner.i + 1)
  BY <1>0, <1>7, <1>8, <1>13 DEF Alike
<1> QED BY <1>3, <1>13, <1>14, <1>15

LEMMA StatementSound ==
    ASSUME NEW t, NEW x, NEW read, Traced(t, x), Placed(t), Spelled(t),
           SoundInCode(t, x, read), SoundInText(t, x, read), Productive(t, read),
           NEW B, SoundInBodies(t, x, B, read),
           NEW i \in 1 .. Len(t), Ready(x, i)
    PROVE  StatementRead(t, x, i, B, Statement(t, read, i))
<1> DEFINE r == Statement(t, read, i)
           assigned == Type(t, i) = "IDENT" /\ Is(t, i + 1, <<"=">>)
           opened   == Type(t, i) = "IDENT" /\ (Type(t, i + 1) \in {"OQUOTE", "IDENT"} \/ Is(t, i + 1, <<Brace>>))
<1>1. CASE assigned
  <2>0. ~opened
    <3>1. <<Brace>> # <<"=">>
      BY Braces DEF Others
    <3> QED BY <1>1, <3>1 DEF Is
  <2>1. r = Attribute(t, read, i)
    BY <1>1, <2>0 DEF Statement
  <2> QED BY <1>1, <2>1, AttributeSound
<1>2. CASE ~assigned /\ opened
  <2>1. r = Block(t, read, i)
    BY <1>2 DEF Statement
  <2> QED BY <1>2, <2>1, BlockSound
<1>3. CASE ~assigned /\ ~opened
  <2>1. r = Skipped(Recover(t, IF Type(t, i) = "IDENT" THEN i + 1 ELSE i))
    BY <1>3 DEF Statement
  <2>2. r.bad
    BY <2>1 DEF Skipped, Read
  <2> QED BY <2>2 DEF StatementRead
<1> QED BY <1>1, <1>2, <1>3

LEMMA StatementsSound ==
    ASSUME NEW t, NEW x, NEW read, Traced(t, x), Placed(t), Spelled(t),
           SoundInCode(t, x, read), SoundInText(t, x, read), Productive(t, read),
           NEW B, SoundInBodies(t, x, B, read),
           NEW i \in 1 .. Len(t), Ready(x, i), NEW end \in BodyEnds
    PROVE  StatementsRead(t, x, i, end, B, Statements(t, read, i, end))
<1> DEFINE start == Lines(t, i)
           one   == Statement(t, read, start)
           j     == IF one.i = start THEN After(t, start) ELSE one.i
           rest  == Told(read, "statements", j, end)
           both  == [attributes |-> one.node.attributes \o rest.node.attributes,
                     blocks |-> one.node.blocks \o rest.node.blocks]
           r     == Statements(t, read, i, end)
<1>0. i \in Nat /\ Len(t) \in Nat
  BY DEF Traced
<1> SUFFICES ASSUME ~r.bad
             PROVE  /\ r.i \in i .. Len(t) /\ Alike(x, i, r.i) /\ Over(t, r.i, end)
                    /\ AreArguments(t, r.node.attributes) /\ Blocks(B, r.node.blocks)
  BY DEF StatementsRead
<1>1. start \in i .. Len(t) /\ start \in 1 .. Len(t) /\ Alike(x, i, start) /\ Ready(x, start)
  BY LinesStay, Continue
<1>2. CASE Over(t, start, end)
  <2>1. r = Read(NoBody, start, FALSE)
    BY <1>2 DEF Statements, Over
  <2> HIDE DEF r, start
  <2>2. r.i = start /\ r.node.attributes = <<>> /\ r.node.blocks = <<>>
    BY <2>1 DEF Read, NoBody
  <2> QED BY <1>1, <1>2, <2>2, NoStatements
<1>3. CASE ~Over(t, start, end)
  <2>1. r = Read(both, rest.i, one.bad \/ rest.bad)
    BY <1>3 DEF Statements, Over
  <2> HIDE DEF r, rest, one, start
  <2>2. /\ ~one.bad /\ ~rest.bad /\ r.i = rest.i
        /\ r.node.attributes = one.node.attributes \o rest.node.attributes
        /\ r.node.blocks = one.node.blocks \o rest.node.blocks
    BY <2>1 DEF Read
  <2>3. /\ one.i \in start + 1 .. Len(t) /\ one.i \in 1 .. Len(t) /\ Alike(x, start, one.i)
        /\ AreArguments(t, one.node.attributes) /\ Blocks(B, one.node.blocks)
    BY <1>1, <2>2, StatementSound DEF one, StatementRead
  <2>4. j = one.i
    BY <1>0, <1>1, <2>3
  <2> HIDE DEF j
  <2>5. Ready(x, one.i)
    BY <1>1, <2>3, Continue
  <2>6. StatementsRead(t, x, one.i, end, B, rest)
    BY <2>3, <2>4, <2>5 DEF SoundInBodies, rest
  <2>7. /\ rest.i \in one.i .. Len(t) /\ Alike(x, one.i, rest.i) /\ Over(t, rest.i, end)
        /\ AreArguments(t, rest.node.attributes) /\ Blocks(B, rest.node.blocks)
    BY <2>2, <2>6 DEF StatementsRead
  <2>8. AreArguments(t, r.node.attributes)
    BY <2>2, <2>3, <2>7, MoreArguments
  <2>9. Blocks(B, r.node.blocks)
    BY <2>2, <2>3, <2>7, MoreBlocks
  <2>10. r.i \in i .. Len(t)
    BY <1>0, <1>1, <2>2, <2>3, <2>7
  <2>11. Alike(x, i, r.i)
    BY <1>1, <2>2, <2>3, <2>7 DEF Alike
  <2>12. Over(t, r.i, end)
    BY <2>2, <2>7
  <2> QED BY <2>8, <2>9, <2>10, <2>11, <2>12
<1> QED BY <1>2, <1>3

LEMMA GreatestOf ==
    ASSUME NEW n \in Nat, NEW S \in SUBSET (1 .. n), S # {}
    PROVE  Max(S) \in S
<1> DEFINE Above == {m \in Nat : \A y \in S : m >= y}
<1>1. n \in Above
  OBVIOUS
<1>2. PICK u \in Above : \A m \in Above : u <= m
  BY <1>1, LeastOf
<1>3. u \in S
  <2> SUFFICES ASSUME u \notin S PROVE FALSE
    OBVIOUS
  <2>1. \A y \in S : u >= y /\ u # y /\ y \in 1 .. n
    BY <1>2
  <2>2. u - 1 \in Nat /\ \A y \in S : u - 1 >= y
    <3>1. u \in Nat /\ \A y \in S : u > y /\ y \in Nat
      BY <1>2, <2>1
    <3>2. PICK y \in S : TRUE
      OBVIOUS
    <3>3. u \in Nat /\ u > 0
      BY <3>1, <3>2
    <3>4. ASSUME NEW z \in S PROVE u - 1 >= z
      BY <3>1
    <3> QED BY <3>3, <3>4
  <2>3. u - 1 \in Above /\ u \in Nat
    BY <1>2, <2>2
  <2> QED BY <1>2, <2>3
<1>4. \E u_ \in S : \A y \in S : u_ >= y
  BY <1>2, <1>3
<1> QED BY <1>4 DEF Max

LEMMA BodySound ==
    ASSUME NEW t, NEW x, NEW read, NEW B, SoundInBodies(t, x, B, read),
           NEW i \in 1 .. Len(t), Ready(x, i), NEW end \in BodyEnds,
           ~Body(read, i, end).bad => Body(read, i, end).node \in B
    PROVE  BodyRead(t, x, i, end, B, Body(read, i, end))
<1> DEFINE all         == Told(read, "statements", i, end)
           entries     == all.node.attributes
           Named(name) == {k \in DOMAIN entries : entries[k].name = name}
           names       == {entries[k].name : k \in DOMAIN entries}
           arguments   == [name \in names |-> entries[Max(Named(name))]]
           r           == Body(read, i, end)
<1> SUFFICES ASSUME ~r.bad
             PROVE  /\ r.i \in i .. Len(t) /\ Alike(x, i, r.i) /\ Over(t, r.i, end)
                    /\ r.node \in B
                    /\ \A name \in DOMAIN r.node.attributes : Proper(t, r.node.attributes[name])
                    /\ Blocks(B, r.node.blocks)
  BY DEF BodyRead
<1>1. /\ ~all.bad /\ r.i = all.i
      /\ r.node.attributes = arguments /\ r.node.blocks = all.node.blocks
  BY DEF Body, Read
<1>2. r.node \in B
  OBVIOUS
<1> HIDE DEF r, all
<1>3. StatementsRead(t, x, i, end, B, all)
  BY DEF SoundInBodies, all
<1>4. /\ all.i \in i .. Len(t) /\ Alike(x, i, all.i) /\ Over(t, all.i, end)
      /\ AreArguments(t, entries) /\ Blocks(B, all.node.blocks)
  BY <1>1, <1>3 DEF StatementsRead
<1>5. ASSUME NEW name \in names PROVE Proper(t, entries[Max(Named(name))])
  <2>1. PICK S : entries \in Seq(S) /\ \A a \in S : Proper(t, a)
    BY <1>4 DEF AreArguments
  <2>2. DOMAIN entries = 1 .. Len(entries) /\ Len(entries) \in Nat
    BY <2>1
  <2>3. Named(name) # {} /\ Named(name) \in SUBSET (1 .. Len(entries))
    BY <2>2
  <2>4. Max(Named(name)) \in Named(name)
    <3> HIDE DEF Named
    <3> QED BY <2>2, <2>3, GreatestOf
  <2>5. Max(Named(name)) \in DOMAIN entries
    BY <2>4
  <2>6. entries[Max(Named(name))] \in S
    <3> HIDE DEF Named
    <3> QED BY <2>1, <2>2, <2>5
  <2> QED BY <2>1, <2>6
<1>6. \A name \in DOMAIN arguments : Proper(t, arguments[name])
  <2> HIDE DEF Named
  <2>1. DOMAIN arguments = names
    OBVIOUS
  <2> QED BY <1>5
<1> HIDE DEF arguments
<1> QED BY <1>1, <1>2, <1>4, <1>6

-----------------------------------------------------------------------------
(* All reads of a file *)

Layer(t, read) == [c \in Calls(t) |-> Method(t, read, c[1], c[2], c[3])]

Layered(t, read, n) ==
    read = [deep \in 0 .. n |->
               [c \in Calls(t) |-> IF deep = 0 THEN Read(<<>>, Len(t), TRUE)
                                   ELSE Method(t, read[deep - 1], c[1], c[2], c[3])]]

LEMMA ToldIn ==
    ASSUME NEW t, NEW read, NEW rule \in Methods, NEW i \in 1 .. Len(t), NEW of \in Details
    PROVE  Told(Layer(t, read), rule, i, of) = Method(t, read, rule, i, of)
<1>1. <<rule, i, of>> \in Calls(t)
  BY DEF Calls
<1>2. <<rule, i, of>>[1] = rule /\ <<rule, i, of>>[2] = i /\ <<rule, i, of>>[3] = of
  OBVIOUS
<1> QED BY <1>1, <1>2 DEF Told, Layer

LEMMA FurtherIn ==
    ASSUME NEW t, NEW read, NEW rule \in Methods, NEW i \in 1 .. Len(t)
    PROVE  Further(Layer(t, read), rule, i) = Method(t, read, rule, i, "")
<1>1. "" \in Details
  BY Zenon DEF Details
<1>2. Further(Layer(t, read), rule, i) = Told(Layer(t, read), rule, i, "")
  BY Zenon DEF Further, Told
<1> QED BY Zenon, <1>1, <1>2, ToldIn

LEMMA LevelsAre ==
    ASSUME NEW t, NEW read, NEW i, NEW of, NEW level \in DOMAIN BinaryLevels
    PROVE  Method(t, read, level, i, of) = Binary(read, level, i)
<1>1. DOMAIN BinaryLevels = {"or", "and", "equality", "comparison", "sum", "product"}
  BY DEF BinaryLevels
<1> QED BY <1>1 DEF Method

LEMMA MethodsAre ==
    ASSUME NEW t, NEW read, NEW i, NEW of
    PROVE  /\ Method(t, read, "expression", i, of) = Conditional(t, read, i)
           /\ Method(t, read, "operations", i, of) = Operations(t, read, i, of)
           /\ Method(t, read, "unary", i, of) = Unary(t, read, i)
           /\ Method(t, read, "primary", i, of) = Primary(t, read, i)
           /\ Method(t, read, "postfixes", i, of) = Postfixes(t, read, i, of)
           /\ Method(t, read, "qualified", i, of) = Qualified(t, read, i)
           /\ Method(t, read, "sequence", i, of) = Sequence(t, read, i)
           /\ Method(t, read, "parts", i, of) = Parts(t, read, i, of)
           /\ Method(t, read, "elements", i, of) = Elements(t, read, i, of)
           /\ Method(t, read, "items", i, of) = Items(t, read, i)
           /\ Method(t, read, "label", i, of) = Label(t, read, i)
           /\ Method(t, read, "labels", i, of) = Labels(t, read, i)
           /\ Method(t, read, "statements", i, of) = Statements(t, read, i, of)
           /\ Method(t, read, "body", i, of) = Body(read, i, of)
<1>1. DOMAIN BinaryLevels = {"or", "and", "equality", "comparison", "sum", "product"}
  BY DEF BinaryLevels
<1>3. /\ Method(t, read, "expression", i, of) = Conditional(t, read, i)
      /\ Method(t, read, "operations", i, of) = Operations(t, read, i, of)
      /\ Method(t, read, "unary", i, of) = Unary(t, read, i)
      /\ Method(t, read, "primary", i, of) = Primary(t, read, i)
      /\ Method(t, read, "postfixes", i, of) = Postfixes(t, read, i, of)
  BY <1>1 DEF Method
<1>4. /\ Method(t, read, "qualified", i, of) = Qualified(t, read, i)
      /\ Method(t, read, "sequence", i, of) = Sequence(t, read, i)
      /\ Method(t, read, "parts", i, of) = Parts(t, read, i, of)
      /\ Method(t, read, "elements", i, of) = Elements(t, read, i, of)
      /\ Method(t, read, "items", i, of) = Items(t, read, i)
  BY <1>1 DEF Method
<1>5. /\ Method(t, read, "label", i, of) = Label(t, read, i)
      /\ Method(t, read, "labels", i, of) = Labels(t, read, i)
      /\ Method(t, read, "statements", i, of) = Statements(t, read, i, of)
      /\ Method(t, read, "body", i, of) = Body(read, i, of)
  BY <1>1 DEF Method
<1> QED BY <1>3, <1>4, <1>5

LEMMA MethodNames ==
    /\ Rules \subseteq Methods
    /\ {"operations", "postfixes", "qualified", "sequence", "parts", "elements", "items",
        "label", "labels", "statements", "body"} \subseteq Methods
    /\ DOMAIN BinaryLevels \subseteq Details /\ Callees \subseteq Details
    /\ {"]", ")"} \subseteq Details /\ TextEnds \subseteq Details /\ BodyEnds \subseteq Details
<1>1. /\ Rules \subseteq Methods
      /\ {"operations", "postfixes", "qualified", "sequence", "parts", "elements", "items",
          "label", "labels", "statements", "body"} \subseteq Methods
  BY DEF Rules, Methods
<1>2. DOMAIN BinaryLevels \subseteq Details
  BY Zenon DEF Details
<1>3. Callees \subseteq Details
  BY Zenon DEF Callees, Details
<1>4. {"]", ")"} \subseteq Details
  BY Zenon DEF Details
<1>5. TextEnds \subseteq Details
  BY Zenon DEF TextEnds, Details
<1>6. BodyEnds \subseteq Details
  BY Zenon DEF BodyEnds, Details
<1> QED BY <1>1, <1>2, <1>3, <1>4, <1>5, <1>6

GivenUp(t) == [c \in Calls(t) |-> Read(<<>>, Len(t), TRUE)]

LEMMA GivenUpReads ==
    ASSUME NEW t, NEW rule \in Methods, NEW i \in 1 .. Len(t)
    PROVE  /\ \A of \in Details : Told(GivenUp(t), rule, i, of) = Read(<<>>, Len(t), TRUE)
           /\ Further(GivenUp(t), rule, i) = Read(<<>>, Len(t), TRUE)
<1>1. ASSUME NEW of \in Details PROVE Told(GivenUp(t), rule, i, of) = Read(<<>>, Len(t), TRUE)
  <2>1. <<rule, i, of>> \in Calls(t)
    BY DEF Calls
  <2> QED BY <2>1 DEF Told, GivenUp
<1>2. "" \in Details
  BY Zenon DEF Details
<1>3. Further(GivenUp(t), rule, i) = Told(GivenUp(t), rule, i, "")
  BY Zenon DEF Further, Told
<1> QED BY Zenon, <1>1, <1>2, <1>3

\* What has been given up raised a diagnostic, at the end of the file.
LEMMA GivenUpSound ==
    ASSUME NEW t, NEW x, NEW B, Traced(t, x)
    PROVE  /\ SoundInCode(t, x, GivenUp(t)) /\ SoundInText(t, x, GivenUp(t))
           /\ SoundInBodies(t, x, B, GivenUp(t))
<1> DEFINE read == GivenUp(t)
           r    == Read(<<>>, Len(t), TRUE)
<1>1. r.bad /\ r.i = Len(t)
  BY DEF Read
<1>2. Len(t) \in Nat \ {0} /\ Type(t, Len(t)) = "EOF"
  BY DEF Traced
<1>3. ASSUME NEW i \in 1 .. Len(t), NEW rule \in Methods
      PROVE  (\A of \in Details : Told(read, rule, i, of) = r) /\ Further(read, rule, i) = r
  BY GivenUpReads
<1> HIDE DEF read, r
<1>4. SoundInCode(t, x, read)
  <2> SUFFICES ASSUME NEW i \in 1 .. Len(t)
               PROVE  /\ \A rule \in Rules : Eager(t, x, i, Further(read, rule, i))
                      /\ \A level \in DOMAIN BinaryLevels : Onward(t, x, i, Told(read, "operations", i, level))
                      /\ \A callee \in Callees : Onward(t, x, i, Told(read, "postfixes", i, callee))
                      /\ Onward(t, x, i, Further(read, "qualified", i))
                      /\ \A close \in {"]", ")"} : Listed(t, x, i, Told(read, "elements", i, close))
                      /\ Neutral(t, x, i, Further(read, "items", i))
    BY DEF SoundInCode
  <2>1. \A rule \in Rules : Eager(t, x, i, Further(read, rule, i))
    BY <1>1, <1>3, MethodNames DEF Eager
  <2>2. \A level \in DOMAIN BinaryLevels : Onward(t, x, i, Told(read, "operations", i, level))
    BY <1>1, <1>3, MethodNames DEF Onward
  <2>3. \A callee \in Callees : Onward(t, x, i, Told(read, "postfixes", i, callee))
    BY <1>1, <1>3, MethodNames DEF Onward
  <2>4. Onward(t, x, i, Further(read, "qualified", i))
    BY <1>1, <1>3, MethodNames DEF Onward
  <2>5. \A close \in {"]", ")"} : Listed(t, x, i, Told(read, "elements", i, close))
    BY <1>1, <1>3, MethodNames DEF Listed
  <2>6. Neutral(t, x, i, Further(read, "items", i))
    BY <1>1, <1>3, MethodNames DEF Neutral
  <2> QED BY <2>1, <2>2, <2>3, <2>4, <2>5, <2>6
<1>5. SoundInText(t, x, read)
  <2> SUFFICES ASSUME NEW i \in 1 .. Len(t)
               PROVE  /\ \A of \in TextEnds : WholeText(t, x, i, of, Told(read, "parts", i, of))
                      /\ WholeSequence(t, x, i, Further(read, "sequence", i))
                      /\ LabelLeft(t, x, i, Further(read, "label", i))
                      /\ LabelsLeft(t, x, i, Further(read, "labels", i))
    BY DEF SoundInText
  <2>0. Type(t, i) = "EOF" => i = Len(t)
    BY DEF Traced
  <2>1. \A of \in TextEnds : WholeText(t, x, i, of, Told(read, "parts", i, of))
    BY <1>1, <1>3, MethodNames DEF WholeText
  <2>2. WholeSequence(t, x, i, Further(read, "sequence", i))
    BY <1>1, <1>2, <1>3, <2>0, MethodNames DEF WholeSequence, Left
  <2>3. LabelLeft(t, x, i, Further(read, "label", i))
    BY <1>1, <1>2, <1>3, <2>0, MethodNames DEF LabelLeft
  <2>4. LabelsLeft(t, x, i, Further(read, "labels", i))
    BY <1>1, <1>2, <1>3, <2>0, MethodNames DEF LabelsLeft
  <2> QED BY <2>1, <2>2, <2>3, <2>4
<1>6. SoundInBodies(t, x, B, read)
  BY <1>1, <1>3, MethodNames DEF SoundInBodies, StatementsRead, BodyRead
<1> QED BY <1>4, <1>5, <1>6 DEF read

\* What has been given up promises nothing.
LEMMA GivenUpYields ==
    ASSUME NEW t, Spelled(t)
    PROVE  Productive(t, GivenUp(t))
<1> DEFINE read == GivenUp(t)
           r    == Read(<<>>, Len(t), TRUE)
<1>1. r.bad /\ r.i = Len(t) /\ Len(t) \in 1 .. Len(t)
  BY DEF Read, Spelled, EndsOnce
<1>2. ASSUME NEW i \in 1 .. Len(t), NEW rule \in Methods
      PROVE  (\A of \in Details : Told(read, rule, i, of) = r) /\ Further(read, rule, i) = r
  BY GivenUpReads
<1> HIDE DEF read, r
<1> SUFFICES ASSUME NEW i \in 1 .. Len(t)
             PROVE  /\ \A rule \in Rules : Yields(t, Further(read, rule, i))
                    /\ \A level \in DOMAIN BinaryLevels :
                          YieldsAll(t, "suffix", Told(read, "operations", i, level))
                    /\ \A callee \in Callees :
                          YieldsAll(t, "suffix", Told(read, "postfixes", i, callee))
                    /\ YieldsText(t, Further(read, "qualified", i))
                    /\ \A of \in TextEnds : YieldsAll(t, "expression", Told(read, "parts", i, of))
                    /\ \A close \in {"]", ")"} :
                          YieldsAll(t, "expression", Told(read, "elements", i, close))
                    /\ YieldsAll(t, "expression", Further(read, "items", i))
                    /\ Further(read, "sequence", i).i \in 1 .. Len(t)
  BY DEF Productive, read
<1>3. \A rule \in Rules : Yields(t, Further(read, rule, i))
  BY <1>1, <1>2, MethodNames DEF Yields
<1>4. \A level \in DOMAIN BinaryLevels : YieldsAll(t, "suffix", Told(read, "operations", i, level))
  BY <1>1, <1>2, MethodNames DEF YieldsAll
<1>5. \A callee \in Callees : YieldsAll(t, "suffix", Told(read, "postfixes", i, callee))
  BY <1>1, <1>2, MethodNames DEF YieldsAll
<1>6. YieldsText(t, Further(read, "qualified", i))
  BY <1>1, <1>2, MethodNames DEF YieldsText
<1>7. \A of \in TextEnds : YieldsAll(t, "expression", Told(read, "parts", i, of))
  BY <1>1, <1>2, MethodNames DEF YieldsAll
<1>8. \A close \in {"]", ")"} : YieldsAll(t, "expression", Told(read, "elements", i, close))
  BY <1>1, <1>2, MethodNames DEF YieldsAll
<1>9. YieldsAll(t, "expression", Further(read, "items", i))
  BY <1>1, <1>2, MethodNames DEF YieldsAll
<1>10. Further(read, "sequence", i).i \in 1 .. Len(t)
  BY <1>1, <1>2, MethodNames
<1> QED BY <1>3, <1>4, <1>5, <1>6, <1>7, <1>8, <1>9, <1>10

\* Every method keeps its promise if the reads it makes do.
LEMMA LayerInCode ==
    ASSUME NEW t, NEW x, NEW read, Traced(t, x), SoundInCode(t, x, read), SoundInText(t, x, read)
    PROVE  SoundInCode(t, x, Layer(t, read))
<1> DEFINE next == Layer(t, read)
<1> SUFFICES ASSUME NEW i \in 1 .. Len(t), Ready(x, i)
             PROVE  /\ \A rule \in Rules : Eager(t, x, i, Further(next, rule, i))
                    /\ \A level \in DOMAIN BinaryLevels : Onward(t, x, i, Told(next, "operations", i, level))
                    /\ \A callee \in Callees : Onward(t, x, i, Told(next, "postfixes", i, callee))
                    /\ Onward(t, x, i, Further(next, "qualified", i))
                    /\ \A close \in {"]", ")"} : Listed(t, x, i, Told(next, "elements", i, close))
                    /\ Neutral(t, x, i, Further(next, "items", i))
  BY DEF SoundInCode
<1>1. ASSUME NEW rule \in Methods, NEW of \in Details
      PROVE  Told(next, rule, i, of) = Method(t, read, rule, i, of)
  BY ToldIn
<1>2. ASSUME NEW rule \in Methods
      PROVE  \E of : Further(next, rule, i) = Method(t, read, rule, i, of)
  BY FurtherIn
<1> HIDE DEF next
<1>3. ASSUME NEW rule \in Rules PROVE Eager(t, x, i, Further(next, rule, i))
  <2>1. PICK of : Further(next, rule, i) = Method(t, read, rule, i, of)
    BY <1>2, MethodNames
  <2>2. CASE rule = "expression"
    BY <2>1, <2>2, MethodsAre, ConditionalSound
  <2>3. CASE rule = "unary"
    BY <2>1, <2>3, MethodsAre, UnarySound
  <2>4. CASE rule = "primary"
    BY <2>1, <2>4, MethodsAre, PrimarySound
  <2>5. CASE rule \in DOMAIN BinaryLevels
    <3>1. Method(t, read, rule, i, of) = Binary(read, rule, i)
      BY <2>5, LevelsAre
    <3>2. Further(next, rule, i) = Binary(read, rule, i)
      BY <2>1, <3>1
    <3> QED BY <2>5, <3>2, BinarySound
  <2> QED BY <2>2, <2>3, <2>4, <2>5 DEF Rules
<1>4. ASSUME NEW level \in DOMAIN BinaryLevels
      PROVE  Onward(t, x, i, Told(next, "operations", i, level))
  <2>1. Told(next, "operations", i, level) = Operations(t, read, i, level)
    BY <1>1, MethodNames, MethodsAre
  <2> QED BY <2>1, OperationsSound
<1>5. ASSUME NEW callee \in Callees PROVE Onward(t, x, i, Told(next, "postfixes", i, callee))
  <2>1. Told(next, "postfixes", i, callee) = Postfixes(t, read, i, callee)
    BY <1>1, MethodNames, MethodsAre
  <2> QED BY <2>1, PostfixesSound
<1>6. Onward(t, x, i, Further(next, "qualified", i))
  <2>1. PICK of : Further(next, "qualified", i) = Method(t, read, "qualified", i, of)
    BY <1>2, MethodNames
  <2> QED BY <2>1, MethodsAre, QualifiedSound
<1>7. ASSUME NEW close \in {"]", ")"} PROVE Listed(t, x, i, Told(next, "elements", i, close))
  <2>1. Told(next, "elements", i, close) = Elements(t, read, i, close)
    BY <1>1, MethodNames, MethodsAre
  <2> QED BY <2>1, ElementsSound
<1>8. Neutral(t, x, i, Further(next, "items", i))
  <2>1. PICK of : Further(next, "items", i) = Method(t, read, "items", i, of)
    BY <1>2, MethodNames
  <2> QED BY <2>1, MethodsAre, ItemsSound
<1> QED BY <1>3, <1>4, <1>5, <1>6, <1>7, <1>8

LEMMA LayerInText ==
    ASSUME NEW t, NEW x, NEW read, Traced(t, x), SoundInCode(t, x, read), SoundInText(t, x, read)
    PROVE  SoundInText(t, x, Layer(t, read))
<1> DEFINE next == Layer(t, read)
<1> SUFFICES ASSUME NEW i \in 1 .. Len(t)
             PROVE  /\ \A of \in TextEnds : WholeText(t, x, i, of, Told(next, "parts", i, of))
                    /\ WholeSequence(t, x, i, Further(next, "sequence", i))
                    /\ LabelLeft(t, x, i, Further(next, "label", i))
                    /\ LabelsLeft(t, x, i, Further(next, "labels", i))
  BY DEF SoundInText
<1>1. ASSUME NEW rule \in Methods
      PROVE  \E of : Further(next, rule, i) = Method(t, read, rule, i, of)
  BY FurtherIn
<1>2. ASSUME NEW of \in TextEnds PROVE WholeText(t, x, i, of, Told(next, "parts", i, of))
  <2>1. Told(next, "parts", i, of) = Parts(t, read, i, of)
    BY ToldIn, MethodNames, MethodsAre
  <2> QED BY <2>1, PartsSound
<1> HIDE DEF next
<1>3. WholeSequence(t, x, i, Further(next, "sequence", i))
  <2>1. PICK of : Further(next, "sequence", i) = Method(t, read, "sequence", i, of)
    BY <1>1, MethodNames
  <2> QED BY <2>1, MethodsAre, SequenceSound
<1>4. LabelLeft(t, x, i, Further(next, "label", i))
  <2>1. PICK of : Further(next, "label", i) = Method(t, read, "label", i, of)
    BY <1>1, MethodNames
  <2> QED BY <2>1, MethodsAre, LabelSound
<1>5. LabelsLeft(t, x, i, Further(next, "labels", i))
  <2>1. PICK of : Further(next, "labels", i) = Method(t, read, "labels", i, of)
    BY <1>1, MethodNames
  <2> QED BY <2>1, MethodsAre, LabelsSound
<1> QED BY <1>2, <1>3, <1>4, <1>5

\* Every method builds whole expressions if the reads it makes do.
LEMMA LayerYields ==
    ASSUME NEW t, Spelled(t), NEW read, Productive(t, read)
    PROVE  Productive(t, Layer(t, read))
<1> DEFINE next == Layer(t, read)
<1> SUFFICES ASSUME NEW i \in 1 .. Len(t)
             PROVE  /\ \A rule \in Rules : Yields(t, Further(next, rule, i))
                    /\ \A level \in DOMAIN BinaryLevels :
                          YieldsAll(t, "suffix", Told(next, "operations", i, level))
                    /\ \A callee \in Callees :
                          YieldsAll(t, "suffix", Told(next, "postfixes", i, callee))
                    /\ YieldsText(t, Further(next, "qualified", i))
                    /\ \A of \in TextEnds : YieldsAll(t, "expression", Told(next, "parts", i, of))
                    /\ \A close \in {"]", ")"} :
                          YieldsAll(t, "expression", Told(next, "elements", i, close))
                    /\ YieldsAll(t, "expression", Further(next, "items", i))
                    /\ Further(next, "sequence", i).i \in 1 .. Len(t)
  BY DEF Productive
<1>1. ASSUME NEW rule \in Methods, NEW of \in Details
      PROVE  Told(next, rule, i, of) = Method(t, read, rule, i, of)
  BY ToldIn
<1>2. ASSUME NEW rule \in Methods
      PROVE  \E of : Further(next, rule, i) = Method(t, read, rule, i, of)
  BY FurtherIn
<1> HIDE DEF next
<1>3. ASSUME NEW rule \in Rules PROVE Yields(t, Further(next, rule, i))
  <2>1. PICK of : Further(next, rule, i) = Method(t, read, rule, i, of)
    BY <1>2, MethodNames
  <2>2. CASE rule = "expression"
    BY <2>1, <2>2, MethodsAre, ConditionalYields
  <2>3. CASE rule = "unary"
    BY <2>1, <2>3, MethodsAre, UnaryYields
  <2>4. CASE rule = "primary"
    BY <2>1, <2>4, MethodsAre, PrimaryYields
  <2>5. CASE rule \in DOMAIN BinaryLevels
    <3>1. Method(t, read, rule, i, of) = Binary(read, rule, i)
      BY <2>5, LevelsAre
    <3>2. Further(next, rule, i) = Binary(read, rule, i)
      BY <2>1, <3>1
    <3> QED BY <2>5, <3>2, BinaryYields
  <2> QED BY <2>2, <2>3, <2>4, <2>5 DEF Rules
<1>4. ASSUME NEW level \in DOMAIN BinaryLevels
      PROVE  YieldsAll(t, "suffix", Told(next, "operations", i, level))
  <2>1. Told(next, "operations", i, level) = Operations(t, read, i, level)
    BY <1>1, MethodNames, MethodsAre
  <2> QED BY <2>1, OperationsYields
<1>5. ASSUME NEW callee \in Callees
      PROVE  YieldsAll(t, "suffix", Told(next, "postfixes", i, callee))
  <2>1. Told(next, "postfixes", i, callee) = Postfixes(t, read, i, callee)
    BY <1>1, MethodNames, MethodsAre
  <2> QED BY <2>1, PostfixesYields
<1>6. YieldsText(t, Further(next, "qualified", i))
  <2>1. PICK of : Further(next, "qualified", i) = Method(t, read, "qualified", i, of)
    BY <1>2, MethodNames
  <2> QED BY <2>1, MethodsAre, QualifiedYields
<1>7. ASSUME NEW of \in TextEnds PROVE YieldsAll(t, "expression", Told(next, "parts", i, of))
  <2>1. Told(next, "parts", i, of) = Parts(t, read, i, of)
    BY <1>1, MethodNames, MethodsAre
  <2> QED BY <2>1, PartsYields
<1>8. ASSUME NEW close \in {"]", ")"}
      PROVE  YieldsAll(t, "expression", Told(next, "elements", i, close))
  <2>1. Told(next, "elements", i, close) = Elements(t, read, i, close)
    BY <1>1, MethodNames, MethodsAre
  <2> QED BY <2>1, ElementsYield
<1>9. YieldsAll(t, "expression", Further(next, "items", i))
  <2>1. PICK of : Further(next, "items", i) = Method(t, read, "items", i, of)
    BY <1>2, MethodNames
  <2> QED BY <2>1, MethodsAre, ItemsYield
<1>10. Further(next, "sequence", i).i \in 1 .. Len(t)
  <2>1. PICK of : Further(next, "sequence", i) = Method(t, read, "sequence", i, of)
    BY <1>2, MethodNames
  <2> QED BY <2>1, MethodsAre, SequenceIn
<1> QED BY <1>3, <1>4, <1>5, <1>6, <1>7, <1>8, <1>9, <1>10

LEMMA LayerInBodies ==
    ASSUME NEW t, NEW x, NEW read, Traced(t, x), Placed(t), Spelled(t),
           SoundInCode(t, x, read), SoundInText(t, x, read), Productive(t, read),
           NEW B, SoundInBodies(t, x, B, read),
           \A i \in 1 .. Len(t) : \A end \in BodyEnds :
               LET r == Told(Layer(t, read), "body", i, end)
               IN  Ready(x, i) /\ ~r.bad => r.node \in B
    PROVE  SoundInBodies(t, x, B, Layer(t, read))
<1> DEFINE next == Layer(t, read)
<1> SUFFICES ASSUME NEW i \in 1 .. Len(t), NEW end \in BodyEnds, Ready(x, i)
             PROVE  /\ StatementsRead(t, x, i, end, B, Told(next, "statements", i, end))
                    /\ BodyRead(t, x, i, end, B, Told(next, "body", i, end))
  BY DEF SoundInBodies
<1>1. Told(next, "statements", i, end) = Statements(t, read, i, end)
  BY ToldIn, MethodNames, MethodsAre
<1>2. Told(next, "body", i, end) = Body(read, i, end)
  BY ToldIn, MethodNames, MethodsAre
<1>3. ~Body(read, i, end).bad => Body(read, i, end).node \in B
  BY <1>2
<1> HIDE DEF next
<1> QED BY <1>1, <1>2, <1>3, StatementsSound, BodySound

LEMMA ReadsExist ==
    ASSUME NEW t, NEW n \in Nat
    PROVE  \E read : Layered(t, read, n)
<1> DEFINE S == {m \in Nat : ~\E read : Layered(t, read, m)}
           Deep(g, m) == [c \in Calls(t) |-> IF m = 0 THEN Read(<<>>, Len(t), TRUE)
                                             ELSE Method(t, g[m - 1], c[1], c[2], c[3])]
<1> SUFFICES ASSUME S # {} PROVE FALSE
  OBVIOUS
<1>1. PICK m \in S : \A k \in S : m <= k
  <2>1. S \in SUBSET Nat
    OBVIOUS
  <2> HIDE DEF S
  <2> QED BY <2>1, LeastOf
<1>2. PICK g : m # 0 => Layered(t, g, m - 1)
  <2>1. m # 0 => m - 1 \in Nat /\ m - 1 \notin S
    BY <1>1
  <2> QED BY <2>1
<1> DEFINE read == [deep \in 0 .. m |-> IF deep = m THEN Deep(g, m) ELSE g[deep]]
<1>3. ASSUME NEW deep \in 0 .. m PROVE read[deep] = Deep(read, deep)
  <2>1. CASE deep = m
    <3>1. m # 0 => read[m - 1] = g[m - 1]
      BY <1>1
    <3>2. Deep(read, m) = Deep(g, m)
      <4>1. CASE m = 0
        BY <4>1
      <4>2. CASE m # 0
        <5> HIDE DEF read
        <5> QED BY <3>1, <4>2
      <4> QED BY <4>1, <4>2
    <3>3. read[m] = Deep(g, m)
      <4> HIDE DEF Deep
      <4> QED BY <1>1
    <3> HIDE DEF read, Deep
    <3> QED BY <2>1, <3>2, <3>3
  <2>2. CASE deep # m
    <3>1. m # 0 /\ deep \in 0 .. m - 1 /\ (deep # 0 => deep - 1 \in 0 .. m - 1 /\ deep - 1 # m)
      BY <1>1, <2>2
    <3>2. g[deep] = Deep(g, deep)
      BY <1>2, <3>1 DEF Layered
    <3>3. read[deep] = g[deep] /\ (deep # 0 => read[deep - 1] = g[deep - 1])
      <4> HIDE DEF Deep
      <4> QED BY <1>1, <2>2, <3>1
    <3>4. Deep(read, deep) = Deep(g, deep)
      <4>1. CASE deep = 0
        BY <4>1
      <4>2. CASE deep # 0
        <5> HIDE DEF read
        <5> QED BY <3>3, <4>2
      <4> QED BY <4>1, <4>2
    <3> HIDE DEF read, Deep
    <3> QED BY <3>2, <3>3, <3>4
  <2> QED BY <2>1, <2>2
<1>4. read = [deep \in 0 .. m |-> read[deep]]
  <2> HIDE DEF Deep
  <2> QED OBVIOUS
<1> HIDE DEF read
<1>5. Layered(t, read, m)
  <2>1. read = [deep \in 0 .. m |-> Deep(read, deep)]
    <3> HIDE DEF Deep
    <3> QED BY <1>3, <1>4
  <2> QED BY <2>1 DEF Layered
<1> QED BY <1>1, <1>5

LEMMA AllReadsRead ==
    ASSUME NEW t, NEW n \in Nat
    PROVE  \E read : Layered(t, read, n) /\ AllReads(t, n) = read[n]
<1> DEFINE read == CHOOSE r : Layered(t, r, n)
<1>1. AllReads(t, n) = read[n]
  BY DEF AllReads, Layered
<1>2. Layered(t, read, n)
  BY ReadsExist
<1> HIDE DEF read
<1> QED BY <1>1, <1>2

LEMMA LayersOf ==
    ASSUME NEW t, NEW n \in Nat, NEW read, Layered(t, read, n)
    PROVE  /\ read[0] = GivenUp(t)
           /\ \A deep \in 1 .. n : read[deep] = Layer(t, read[deep - 1])
<1>1. 0 \in 0 .. n
  OBVIOUS
<1>2. read[0] = GivenUp(t)
  BY <1>1 DEF Layered, GivenUp
<1>3. ASSUME NEW deep \in 1 .. n PROVE read[deep] = Layer(t, read[deep - 1])
  <2>1. deep \in 0 .. n /\ deep # 0
    OBVIOUS
  <2> QED BY <2>1 DEF Layered, Layer
<1> QED BY <1>2, <1>3

\* The bodies that any read made without a diagnostic.
BodiesRead(t, x, read, n) ==
    {read[c[1]][<<"body", c[2], c[3]>>].node :
        c \in {c \in (0 .. n) \X (1 .. Len(t)) \X BodyEnds :
                  Ready(x, c[2]) /\ ~read[c[1]][<<"body", c[2], c[3]>>].bad}}

LEMMA BodyIn ==
    ASSUME NEW t, NEW x, NEW n \in Nat, NEW read, NEW deep \in 0 .. n, NEW i \in 1 .. Len(t),
           NEW end \in BodyEnds, Ready(x, i), ~Told(read[deep], "body", i, end).bad
    PROVE  Told(read[deep], "body", i, end).node \in BodiesRead(t, x, read, n)
<1> DEFINE c == <<deep, i, end>>
<1>1. c \in (0 .. n) \X (1 .. Len(t)) \X BodyEnds /\ c[1] = deep /\ c[2] = i /\ c[3] = end
  OBVIOUS
<1> HIDE DEF c
<1> QED BY <1>1 DEF BodiesRead, Told

LEMMA EveryLayerYields ==
    ASSUME NEW t, Spelled(t), NEW n \in Nat, NEW read, Layered(t, read, n)
    PROVE  \A deep \in 0 .. n : Productive(t, read[deep])
<1> DEFINE Poor == {deep \in 0 .. n : ~Productive(t, read[deep])}
<1> SUFFICES ASSUME Poor # {} PROVE FALSE
  OBVIOUS
<1>1. PICK deep \in Poor : \A d \in Poor : deep <= d
  <2>1. Poor \in SUBSET Nat
    OBVIOUS
  <2> HIDE DEF Poor
  <2> QED BY <2>1, LeastOf
<1>2. deep \in 0 .. n /\ ~Productive(t, read[deep])
  BY <1>1
<1>3. CASE deep = 0
  BY <1>2, <1>3, LayersOf, GivenUpYields
<1>4. CASE deep # 0
  <2>1. deep \in 1 .. n /\ deep - 1 \in 0 .. n /\ deep - 1 < deep
    BY <1>2, <1>4
  <2>2. Productive(t, read[deep - 1])
    BY <1>1, <2>1
  <2>3. read[deep] = Layer(t, read[deep - 1])
    BY <2>1, LayersOf
  <2> QED BY <1>2, <2>2, <2>3, LayerYields
<1> QED BY <1>3, <1>4

LEMMA EveryLayerSound ==
    ASSUME NEW t, NEW x, Traced(t, x), Placed(t), Spelled(t), NEW n \in Nat, NEW read,
           Layered(t, read, n)
    PROVE  \A deep \in 0 .. n : /\ SoundInCode(t, x, read[deep])
                                 /\ SoundInText(t, x, read[deep])
                                 /\ SoundInBodies(t, x, BodiesRead(t, x, read, n), read[deep])
<1> DEFINE B == BodiesRead(t, x, read, n)
           Sound(deep) == /\ SoundInCode(t, x, read[deep]) /\ SoundInText(t, x, read[deep])
                           /\ SoundInBodies(t, x, B, read[deep])
           Unsound == {deep \in 0 .. n : ~Sound(deep)}
<1> SUFFICES ASSUME Unsound # {} PROVE FALSE
  OBVIOUS
<1>1. PICK deep \in Unsound : \A d \in Unsound : deep <= d
  <2>1. Unsound \in SUBSET Nat
    OBVIOUS
  <2> HIDE DEF Unsound
  <2> QED BY <2>1, LeastOf
<1>2. deep \in 0 .. n /\ ~Sound(deep)
  BY <1>1
<1>3. ASSUME NEW d \in 0 .. n, NEW i \in 1 .. Len(t), NEW end \in BodyEnds, Ready(x, i),
             ~Told(read[d], "body", i, end).bad
      PROVE  Told(read[d], "body", i, end).node \in B
  BY <1>3, BodyIn
<1> HIDE DEF B
<1>4. CASE deep = 0
  BY <1>2, <1>4, LayersOf, GivenUpSound
<1>5. CASE deep # 0
  <2>1. deep \in 1 .. n /\ deep - 1 \in 0 .. n /\ deep - 1 < deep
    BY <1>2, <1>5
  <2>2. Sound(deep - 1)
    BY <1>1, <2>1
  <2>3. read[deep] = Layer(t, read[deep - 1])
    BY <2>1, LayersOf
  <2>4. \A i \in 1 .. Len(t) : \A end \in BodyEnds :
            LET r == Told(Layer(t, read[deep - 1]), "body", i, end)
            IN  Ready(x, i) /\ ~r.bad => r.node \in B
    BY <1>2, <1>3, <2>3
  <2>5. SoundInCode(t, x, Layer(t, read[deep - 1])) /\ SoundInText(t, x, Layer(t, read[deep - 1]))
    BY <2>2, LayerInCode, LayerInText
  <2>6. SoundInBodies(t, x, B, Layer(t, read[deep - 1]))
    <3>1. Productive(t, read[deep - 1])
      BY <2>1, EveryLayerYields
    <3> QED BY <2>2, <2>4, <3>1, LayerInBodies
  <2> QED BY <1>2, <2>3, <2>5, <2>6
<1> QED BY <1>4, <1>5

LEMMA FourAreFinite ==
    ASSUME NEW a, NEW b, NEW c, NEW d
    PROVE  IsFiniteSet({a, b, c, d})
<1>1. IsFiniteSet({a}) /\ IsFiniteSet({b}) /\ IsFiniteSet({c}) /\ IsFiniteSet({d})
  BY FS_Singleton
<1>2. IsFiniteSet({a} \cup {b}) /\ IsFiniteSet({c} \cup {d})
  BY <1>1, FS_Union
<1>3. IsFiniteSet(({a} \cup {b}) \cup ({c} \cup {d}))
  BY <1>2, FS_Union
<1>4. ({a} \cup {b}) \cup ({c} \cup {d}) = {a, b, c, d}
  OBVIOUS
<1> QED BY <1>3, <1>4

LEMMA DeepestIsNatural ==
    ASSUME NEW t, Len(t) \in Nat
    PROVE  Deepest(t) \in Nat
<1> DEFINE A == {"expression", "unary", "primary", "operations"}
           B == {"postfixes", "qualified", "sequence", "parts"}
           C == {"elements", "items", "label", "labels"}
           D == {"statements", "body", "or", "and"}
           E == {"equality", "comparison", "sum", "product"}
<1>1. IsFiniteSet(A) /\ IsFiniteSet(B) /\ IsFiniteSet(C) /\ IsFiniteSet(D) /\ IsFiniteSet(E)
  BY FourAreFinite
<1>2. Methods = A \cup B \cup C \cup D \cup E
  BY DEF Methods, BinaryLevels
<1> HIDE DEF A, B, C, D, E
<1>3. IsFiniteSet(A \cup B)
  BY <1>1, FS_Union
<1>4. IsFiniteSet(A \cup B \cup C)
  BY <1>1, <1>3, FS_Union
<1>5. IsFiniteSet(A \cup B \cup C \cup D)
  BY <1>1, <1>4, FS_Union
<1>6. IsFiniteSet(A \cup B \cup C \cup D \cup E)
  BY <1>1, <1>5, FS_Union
<1>7. Cardinality(Methods) \in Nat
  BY <1>2, <1>6, FS_CardinalityType
<1> HIDE DEF Methods
<1> QED BY <1>7 DEF Deepest

Start == [modes |-> <<"normal">>, weight |-> Balanced]

\* What parse_config reads without a diagnostic: the file to its end, with nothing
\* left open, and bodies whose blocks have such bodies again.
LEMMA ParseSound ==
    ASSUME NEW t, NEW x, Traced(t, x), Placed(t), Spelled(t), x[0] = Start,
           ~ParseConfig(t).bad
    PROVE  /\ x[Len(t)] = Start
           /\ \E B : /\ ParseConfig(t).node \in B
                     /\ \A body \in B :
                           /\ \A name \in DOMAIN body.attributes : Proper(t, body.attributes[name])
                           /\ Blocks(B, body.blocks)
<1> DEFINE n == Deepest(t)
           r == ParseConfig(t)
<1>0. Len(t) \in Nat \ {0} /\ n \in Nat
  BY DeepestIsNatural DEF Traced
<1>1. PICK read : Layered(t, read, n) /\ AllReads(t, n) = read[n]
  BY <1>0, AllReadsRead
<1>2. PICK end \in BodyEnds : end = ""
  BY Zenon DEF BodyEnds
<1>3. r = Told(read[n], "body", 1, end)
  BY Zenon, <1>1, <1>2 DEF ParseConfig, Told
<1>4. \A j : Over(t, j, end) => Type(t, j) = "EOF"
  BY Zenon, <1>2 DEF Over
<1> HIDE DEF n, r
<1> DEFINE B == BodiesRead(t, x, read, n)
<1>5. Ready(x, 1)
  <2>1. x[1 - 1] = Start
    OBVIOUS
  <2>2. Innermost(<<"normal">>) = "normal" /\ "normal" \in Code
    BY DEF Innermost, Code
  <2>3. Start.modes = <<"normal">> /\ Start.weight.inside = 0
    BY DEF Start, Balanced
  <2> QED BY <2>1, <2>2, <2>3 DEF Ready, Mode
<1>6. 1 \in 1 .. Len(t) /\ ~r.bad /\ n \in 0 .. n
  BY <1>0 DEF r
<1>7. \A deep \in 0 .. n : SoundInBodies(t, x, B, read[deep])
  BY <1>0, <1>1, EveryLayerSound
<1>8. r.node \in B
  BY <1>0, <1>3, <1>5, <1>6, BodyIn
<1> HIDE DEF B
<1>9. BodyRead(t, x, 1, end, B, r)
  BY <1>3, <1>5, <1>6, <1>7 DEF SoundInBodies
<1>10. r.i \in 1 .. Len(t) /\ Alike(x, 1, r.i) /\ Over(t, r.i, end)
  BY <1>6, <1>9 DEF BodyRead
<1>11. x[Len(t)] = Start
  <2>1. r.i = Len(t)
    BY <1>4, <1>10 DEF Traced
  <2>2. x[Len(t) - 1] = Start
    BY <1>10, <2>1 DEF Alike
  <2>3. Len(t) \in 1 .. Len(t) /\ Type(t, Len(t)) = "EOF"
    BY <1>0 DEF Traced
  <2>4. x[Len(t)] = x[Len(t) - 1]
    BY <2>3, Quiet DEF Turning, Opens, Closes
  <2> QED BY <2>2, <2>4
<1>12. ASSUME NEW body \in B
       PROVE  /\ \A name \in DOMAIN body.attributes : Proper(t, body.attributes[name])
              /\ Blocks(B, body.blocks)
  <2>1. PICK c \in (0 .. n) \X (1 .. Len(t)) \X BodyEnds :
            /\ Ready(x, c[2]) /\ ~Told(read[c[1]], "body", c[2], c[3]).bad
            /\ body = Told(read[c[1]], "body", c[2], c[3]).node
    BY DEF B, BodiesRead, Told
  <2> DEFINE s == Told(read[c[1]], "body", c[2], c[3])
  <2>2. c[1] \in 0 .. n /\ c[2] \in 1 .. Len(t) /\ c[3] \in BodyEnds
    OBVIOUS
  <2>3. BodyRead(t, x, c[2], c[3], B, s)
    BY <1>7, <2>1, <2>2 DEF SoundInBodies
  <2>4. ~s.bad /\ body = s.node
    BY <2>1
  <2> HIDE DEF s
  <2> QED BY <2>3, <2>4 DEF BodyRead
<1> QED BY <1>8, <1>11, <1>12 DEF r

-----------------------------------------------------------------------------
(* Contexts of a file: what the lexer had open, and the weights of SourceFile *)

Weighs(t, w, n) == w = [k \in 0 .. n |-> IF k = 0 THEN Balanced ELSE Weigh(t, w[k - 1], k)]

LEMMA WeighsExist ==
    ASSUME NEW t, NEW n \in Nat
    PROVE  \E w : Weighs(t, w, n)
<1> DEFINE S == {m \in Nat : ~\E w : Weighs(t, w, m)}
           Next_(g, m) == IF m = 0 THEN Balanced ELSE Weigh(t, g[m - 1], m)
<1> SUFFICES ASSUME S # {} PROVE FALSE
  OBVIOUS
<1>1. PICK m \in S : \A k \in S : m <= k
  <2>1. S \in SUBSET Nat
    OBVIOUS
  <2> HIDE DEF S
  <2> QED BY <2>1, LeastOf
<1>2. PICK g : m # 0 => Weighs(t, g, m - 1)
  <2>1. m # 0 => m - 1 \in Nat /\ m - 1 \notin S
    BY <1>1
  <2> QED BY <2>1
<1> DEFINE w == [k \in 0 .. m |-> IF k = m THEN Next_(g, m) ELSE g[k]]
<1>3. ASSUME NEW k \in 0 .. m PROVE w[k] = Next_(w, k)
  <2>1. CASE k = m
    <3>1. m # 0 => w[m - 1] = g[m - 1]
      BY <1>1
    <3>2. Next_(w, m) = Next_(g, m)
      <4> HIDE DEF w
      <4> QED BY <3>1
    <3>3. w[m] = Next_(g, m)
      <4> HIDE DEF Next_
      <4> QED BY <1>1
    <3> HIDE DEF w, Next_
    <3> QED BY <2>1, <3>2, <3>3
  <2>2. CASE k # m
    <3>1. m # 0 /\ k \in 0 .. m - 1 /\ (k # 0 => k - 1 \in 0 .. m - 1 /\ k - 1 # m)
      BY <1>1, <2>2
    <3>2. g[k] = Next_(g, k)
      BY <1>2, <3>1 DEF Weighs
    <3>3. w[k] = g[k] /\ (k # 0 => w[k - 1] = g[k - 1])
      <4> HIDE DEF Next_
      <4> QED BY <1>1, <2>2, <3>1
    <3>4. Next_(w, k) = Next_(g, k)
      <4> HIDE DEF w
      <4> QED BY <3>3
    <3> HIDE DEF w, Next_
    <3> QED BY <3>2, <3>3, <3>4
  <2> QED BY <2>1, <2>2
<1>4. w = [k \in 0 .. m |-> w[k]]
  <2> HIDE DEF Next_
  <2> QED OBVIOUS
<1> HIDE DEF w
<1>5. Weighs(t, w, m)
  <2>1. w = [k \in 0 .. m |-> Next_(w, k)]
    <3> HIDE DEF Next_
    <3> QED BY <1>3, <1>4
  <2> QED BY <2>1 DEF Weighs
<1> QED BY <1>1, <1>5

Weights == [pending : Seq(Closers), inside : Int, stray : BOOLEAN]

LEMMA WeighTyped ==
    ASSUME NEW t, NEW sofar \in Weights, NEW k
    PROVE  Weigh(t, sofar, k) \in Weights
<1> DEFINE outside == Type(t, k) = "OPERATOR" /\ sofar.inside = 0 /\ ~InSplat(t, k)
           op      == IF outside THEN Token(t, k).text ELSE <<>>
           awaited == sofar.pending # <<>> /\ sofar.pending[1] = op
           pending == CASE op \in Openers -> <<Closer[op]>> \o sofar.pending
                        [] op \in Closers /\ awaited -> Tail(sofar.pending)
                        [] OTHER -> sofar.pending
           inside  == CASE Type(t, k) \in {"INTERP", "CONTROL"} -> sofar.inside + 1
                        [] Type(t, k) = "SEQ_END" -> sofar.inside - 1
                        [] OTHER -> sofar.inside
           stray   == sofar.stray \/ (op \in Closers /\ ~awaited)
<1>1. Weigh(t, sofar, k) = [inside |-> inside, pending |-> pending, stray |-> stray]
  BY DEF Weigh
<1>2. inside \in Int
  BY DEF Weights
<1>3. pending \in Seq(Closers)
  <2> HIDE DEF op, outside
  <2>1. sofar.pending \in Seq(Closers)
    BY DEF Weights
  <2>2. ASSUME op \in Openers PROVE <<Closer[op]>> \o sofar.pending \in Seq(Closers)
    <3>1. Closer[op] \in Closers
      BY <2>2 DEF Closer, Openers, Closers
    <3>2. <<Closer[op]>> \in Seq(Closers)
      BY <3>1
    <3> QED BY <2>1, <3>2
  <2>3. ASSUME awaited PROVE Tail(sofar.pending) \in Seq(Closers)
    BY <2>1, <2>3
  <2>4. CASE op \in Openers
    <3>1. op \notin Closers
      BY <2>4, BracketsDiffer
    <3>2. pending = <<Closer[op]>> \o sofar.pending
      BY <2>4, <3>1
    <3> QED BY <2>2, <2>4, <3>2
  <2>5. CASE op \notin Openers
    <3> HIDE DEF awaited
    <3>1. pending = IF op \in Closers /\ awaited THEN Tail(sofar.pending) ELSE sofar.pending
      BY <2>5
    <3> HIDE DEF pending
    <3> QED BY <2>1, <2>3, <3>1
  <2> QED BY <2>4, <2>5
<1>4. stray \in BOOLEAN
  BY DEF Weights
<1> HIDE DEF pending, inside, stray
<1> QED BY <1>1, <1>2, <1>3, <1>4 DEF Weights

LEMMA WeightsTyped ==
    ASSUME NEW t, NEW n \in Nat, NEW w, Weighs(t, w, n)
    PROVE  /\ w[0] = Balanced
           /\ \A k \in 0 .. n : w[k] \in Weights
           /\ \A k \in 1 .. n : w[k] = Weigh(t, w[k - 1], k)
<1>1. 0 \in 0 .. n /\ \A k \in 1 .. n : k \in 0 .. n /\ k # 0
  OBVIOUS
<1>2. w[0] = Balanced
  BY <1>1 DEF Weighs
<1>3. \A k \in 1 .. n : w[k] = Weigh(t, w[k - 1], k)
  BY <1>1 DEF Weighs
<1>4. Balanced \in Weights
  BY EmptySeq DEF Balanced, Weights
<1> DEFINE Bad == {k \in 0 .. n : w[k] \notin Weights}
<1>5. ASSUME Bad # {} PROVE FALSE
  <2>1. PICK k \in Bad : \A m \in Bad : k <= m
    <3>1. Bad \in SUBSET Nat
      OBVIOUS
    <3> HIDE DEF Bad
    <3> QED BY <1>5, <3>1, LeastOf
  <2>2. k # 0
    BY <1>2, <1>4, <2>1
  <2>3. k \in 1 .. n /\ k - 1 \in 0 .. n /\ k - 1 < k
    BY <2>1, <2>2
  <2>4. w[k - 1] \in Weights
    BY <2>1, <2>3
  <2> QED BY <1>3, <2>1, <2>3, <2>4, WeighTyped
<1> QED BY <1>2, <1>3, <1>5

LEMMA WeighedIs ==
    ASSUME NEW t, Len(t) \in Nat
    PROVE  \E w : Weighs(t, w, Len(t)) /\ Weighed(t) = w[Len(t)]
<1> DEFINE w == CHOOSE v : Weighs(t, v, Len(t))
<1>1. Weighed(t) = w[Len(t)]
  BY DEF Weighed, Weighs
<1>2. Weighs(t, w, Len(t))
  BY WeighsExist
<1> HIDE DEF w
<1> QED BY <1>1, <1>2

\* What is open behind each token, and that each stands where it may.
Nesting(t, m) ==
    /\ m \in [0 .. Len(t) -> Seq(Code \cup Quotation)] /\ m[0] = <<"normal">>
    /\ \A k \in 1 .. Len(t) : Follows(m[k - 1], t[k].type, m[k]) /\ Fits(m[k - 1], t[k].type)

LEMMA ContextsExist ==
    ASSUME NEW t, EndsOnce(t), NEW m, Nesting(t, m)
    PROVE  \E x : /\ Traced(t, x) /\ x[0] = Start
                  /\ x[Len(t)].modes = m[Len(t)] /\ x[Len(t)].weight = Weighed(t)
<1>0. Len(t) \in Nat \ {0}
  BY DEF EndsOnce
<1>1. PICK w : Weighs(t, w, Len(t)) /\ Weighed(t) = w[Len(t)]
  BY <1>0, WeighedIs
<1>2. /\ w[0] = Balanced
      /\ \A k \in 0 .. Len(t) : w[k] \in Weights
      /\ \A k \in 1 .. Len(t) : w[k] = Weigh(t, w[k - 1], k)
  BY <1>0, <1>1, WeightsTyped
<1> DEFINE x == [k \in 0 .. Len(t) |-> [modes |-> m[k], weight |-> w[k]]]
<1>3. ASSUME NEW k \in 0 .. Len(t)
      PROVE  x[k].modes = m[k] /\ x[k].weight = w[k] /\ x[k] \in Contexts
  BY <1>2 DEF Contexts, Weights, Nesting
<1>4. x \in [0 .. Len(t) -> Contexts] /\ x[0] = Start
  <2>1. x[0] = [modes |-> m[0], weight |-> w[0]]
    BY <1>0
  <2>2. x[0] = Start
    BY <1>2, <2>1 DEF Start, Nesting
  <2>3. \A k \in 0 .. Len(t) : [modes |-> m[k], weight |-> w[k]] \in Contexts
    BY <1>3
  <2> QED BY <2>2, <2>3
<1> HIDE DEF x
<1>5. ASSUME NEW k \in 1 .. Len(t)
      PROVE  /\ Type(t, k) = "EOF" <=> k = Len(t)
             /\ Follows(x[k - 1].modes, Type(t, k), x[k].modes)
             /\ Fits(x[k - 1].modes, Type(t, k))
             /\ x[k].weight = Weigh(t, x[k - 1].weight, k)
  <2>1. k - 1 \in 0 .. Len(t) /\ k \in 0 .. Len(t) /\ ~(k > Len(t))
    BY <1>0
  <2>2. Type(t, k) = t[k].type
    BY <2>1 DEF Type, Token
  <2>3. /\ x[k - 1].modes = m[k - 1] /\ x[k].modes = m[k]
        /\ x[k - 1].weight = w[k - 1] /\ x[k].weight = w[k]
    BY <1>3, <2>1
  <2>4. Follows(m[k - 1], t[k].type, m[k]) /\ Fits(m[k - 1], t[k].type)
    BY DEF Nesting
  <2>5. t[k].type = "EOF" <=> k = Len(t)
    BY DEF EndsOnce
  <2> QED BY <1>2, <2>2, <2>3, <2>4, <2>5
<1>6. Traced(t, x)
  BY <1>0, <1>4, <1>5 DEF Traced
<1>7. Len(t) \in 0 .. Len(t)
  BY <1>0
<1> QED BY <1>1, <1>3, <1>4, <1>6, <1>7

\* The bodies of BodiesIn.
Levels(body, f, n) ==
    f = [k \in 0 .. n |-> IF k = 0 THEN {body}
                          ELSE UNION {{b.blocks[j].body : j \in DOMAIN b.blocks} : b \in f[k - 1]}]

LEMMA LevelsExist ==
    ASSUME NEW body, NEW n \in Nat
    PROVE  \E f : Levels(body, f, n)
<1> DEFINE S == {m \in Nat : ~\E f : Levels(body, f, m)}
           Next_(g, m) == IF m = 0 THEN {body}
                          ELSE UNION {{b.blocks[j].body : j \in DOMAIN b.blocks} : b \in g[m - 1]}
<1> SUFFICES ASSUME S # {} PROVE FALSE
  OBVIOUS
<1>1. PICK m \in S : \A k \in S : m <= k
  <2>1. S \in SUBSET Nat
    OBVIOUS
  <2> HIDE DEF S
  <2> QED BY <2>1, LeastOf
<1>2. PICK g : m # 0 => Levels(body, g, m - 1)
  <2>1. m # 0 => m - 1 \in Nat /\ m - 1 \notin S
    BY <1>1
  <2> QED BY <2>1
<1> DEFINE f == [k \in 0 .. m |-> IF k = m THEN Next_(g, m) ELSE g[k]]
<1>3. ASSUME NEW k \in 0 .. m PROVE f[k] = Next_(f, k)
  <2>1. CASE k = m
    <3>1. m # 0 => f[m - 1] = g[m - 1]
      <4> HIDE DEF Next_
      <4> QED BY <1>1
    <3>2. Next_(f, m) = Next_(g, m)
      <4>1. CASE m = 0
        BY <4>1
      <4>2. CASE m # 0
        <5>1. f[m - 1] = g[m - 1]
          BY <3>1, <4>2
        <5> HIDE DEF f
        <5> QED BY <5>1
      <4> QED BY <4>1, <4>2
    <3>3. f[m] = Next_(g, m)
      <4> HIDE DEF Next_
      <4> QED BY <1>1
    <3> HIDE DEF f, Next_
    <3> QED BY <2>1, <3>2, <3>3
  <2>2. CASE k # m
    <3>1. m # 0 /\ k \in 0 .. m - 1 /\ (k # 0 => k - 1 \in 0 .. m - 1 /\ k - 1 # m)
      BY <1>1, <2>2
    <3>2. g[k] = Next_(g, k)
      BY <1>2, <3>1 DEF Levels
    <3>3. f[k] = g[k] /\ (k # 0 => f[k - 1] = g[k - 1])
      <4> HIDE DEF Next_
      <4> QED BY <1>1, <2>2, <3>1
    <3>4. Next_(f, k) = Next_(g, k)
      <4>1. CASE k = 0
        BY <4>1
      <4>2. CASE k # 0
        <5>1. f[k - 1] = g[k - 1]
          BY <3>3, <4>2
        <5> HIDE DEF f
        <5> QED BY <5>1
      <4> QED BY <4>1, <4>2
    <3> HIDE DEF f, Next_
    <3> QED BY <3>2, <3>3, <3>4
  <2> QED BY <2>1, <2>2
<1>4. f = [k \in 0 .. m |-> f[k]]
  <2> HIDE DEF Next_
  <2> QED OBVIOUS
<1> HIDE DEF f
<1>5. Levels(body, f, m)
  <2>1. f = [k \in 0 .. m |-> Next_(f, k)]
    <3> HIDE DEF Next_
    <3> QED BY <1>3, <1>4
  <2> QED BY <2>1 DEF Levels
<1> QED BY <1>1, <1>5

LEMMA BodiesStay ==
    ASSUME NEW body, NEW levels \in Nat, NEW B, body \in B, \A b \in B : Blocks(B, b.blocks)
    PROVE  BodiesIn(body, levels) \subseteq B
<1> DEFINE f == CHOOSE g : Levels(body, g, levels)
<1>1. BodiesIn(body, levels) = UNION {f[n] : n \in 0 .. levels}
  BY DEF BodiesIn, Levels
<1>2. Levels(body, f, levels)
  BY LevelsExist
<1> HIDE DEF f
<1>3. ASSUME NEW b \in B, NEW k \in DOMAIN b.blocks PROVE b.blocks[k].body \in B
  <2>1. PICK S : b.blocks \in Seq(S) /\ \A c \in S : c.body \in B
    BY DEF Blocks
  <2>2. b.blocks[k] \in S
    BY <2>1
  <2> QED BY <2>1, <2>2
<1> DEFINE Bad == {n \in 0 .. levels : ~(f[n] \subseteq B)}
<1>4. ASSUME Bad # {} PROVE FALSE
  <2>1. PICK n \in Bad : \A k \in Bad : n <= k
    <3>1. Bad \in SUBSET Nat
      OBVIOUS
    <3> HIDE DEF Bad
    <3> QED BY <1>4, <3>1, LeastOf
  <2>2. n \in 0 .. levels /\ ~(f[n] \subseteq B)
    BY <2>1
  <2>3. CASE n = 0
    <3>1. f[n] = {body}
      BY <1>2, <2>2, <2>3 DEF Levels
    <3> QED BY <2>2, <3>1
  <2>4. CASE n # 0
    <3>1. n - 1 \in 0 .. levels /\ n - 1 < n
      BY <2>2, <2>4
    <3>2. f[n - 1] \subseteq B
      BY <2>1, <3>1
    <3>3. f[n] = UNION {{b.blocks[k].body : k \in DOMAIN b.blocks} : b \in f[n - 1]}
      BY <1>2, <2>2, <2>4 DEF Levels
    <3>4. ASSUME NEW c \in f[n] PROVE c \in B
      <4>1. PICK b \in f[n - 1] : c \in {b.blocks[k].body : k \in DOMAIN b.blocks}
        BY <3>3
      <4>2. PICK k \in DOMAIN b.blocks : c = b.blocks[k].body
        BY <4>1
      <4> QED BY <1>3, <3>2, <4>1, <4>2
    <3> QED BY <2>2, <3>4
  <2> QED BY <2>3, <2>4
<1>5. \A n \in 0 .. levels : f[n] \subseteq B
  BY <1>4
<1> HIDE DEF Bad
<1> QED BY <1>1, <1>5

\* A file whose tokens nest, as the lexer's do, and that is read without a diagnostic.
LEMMA FileSound ==
    ASSUME NEW t, Spelled(t), Placed(t), NEW m, Nesting(t, m), ~ParseConfig(t).bad
    PROVE  /\ m[Len(t)] = <<"normal">> /\ Weighed(t) = Balanced
           /\ \A body \in BodiesIn(ParseConfig(t).node, Len(t)) :
                 \A name \in DOMAIN body.attributes : Proper(t, body.attributes[name])
<1>1. PICK x : /\ Traced(t, x) /\ x[0] = Start
               /\ x[Len(t)].modes = m[Len(t)] /\ x[Len(t)].weight = Weighed(t)
  BY ContextsExist DEF Spelled
<1> DEFINE node == ParseConfig(t).node
<1>2. x[Len(t)] = Start
  BY <1>1, ParseSound
<1>3. PICK B : /\ node \in B
               /\ \A body \in B :
                     /\ \A name \in DOMAIN body.attributes : Proper(t, body.attributes[name])
                     /\ Blocks(B, body.blocks)
  BY <1>1, ParseSound
<1>4. Len(t) \in Nat
  BY DEF Spelled, EndsOnce
<1> HIDE DEF node
<1>5. BodiesIn(node, Len(t)) \subseteq B
  BY <1>3, <1>4, BodiesStay
<1>6. \A body \in BodiesIn(node, Len(t)) :
          \A name \in DOMAIN body.attributes : Proper(t, body.attributes[name])
  BY <1>3, <1>5
<1>7. m[Len(t)] = <<"normal">> /\ Weighed(t) = Balanced
  BY <1>1, <1>2 DEF Start
<1> QED BY <1>6, <1>7 DEF node
=============================================================================
