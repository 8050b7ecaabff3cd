-------------------------------- MODULE Parser -------------------------------
(***************************************************************************)
(* hcl/parser.py: a recursive descent over the tokens of the lexer.  A     *)
(* read is one call of a method: it starts at a position and yields the    *)
(* node it read, the position after it, and whether it raised a            *)
(* diagnostic.  All reads of a file are one function, AllReads;            *)
(* the operators below say what each method does, given the reads it       *)
(* makes further on.  Recovery skips to the end of the line, so that one   *)
(* bad argument does not hide what follows; a file with a diagnostic is    *)
(* nevertheless rejected whole.                                            *)
(***************************************************************************)
EXTENDS Expressions

Read(node, i, bad) == [node |-> node, i |-> i, bad |-> bad]
None(i) == Read(<<>>, i, FALSE)
As(e, node) == Read(node, e.i, e.bad)

\* _peek, _next, _check: the last token, the end of the file, is never passed.
Token(t, i) == t[IF i > Len(t) THEN Len(t) ELSE i]
Type(t, i)  == Token(t, i).type
After(t, i) == IF Type(t, i) = "EOF" THEN i ELSE i + 1
Is(t, i, op) == Type(t, i) = "OPERATOR" /\ Token(t, i).text = op
IsWord(t, i, word) == Type(t, i) = "IDENT" /\ Token(t, i).text = <<word>>

Lines(t, i) == Min({j \in i .. Len(t) : Type(t, j) # "NEWLINE"})

\* _match: past the token if it is there; the diagnostic if it is not.
Match(t, i, op)  == IF Is(t, i, op) THEN i + 1 ELSE i
\* Mutant: a bracket that is not closed goes unreported.
ClosingOrNot(t, i, op) == [i |-> Match(t, i, op), bad |-> FALSE]

Closing(t, i, op) == [i |-> Match(t, i, op), bad |-> ~Is(t, i, op)]

Comma    == ","
Brace    == "{"
EndBrace == "}"
Openers == {<<Brace>>, <<"[">>, <<"(">>}
Closers == {<<EndBrace>>, <<"]">>, <<")">>}

\* The brackets opened on the way from i to j, less those closed.
Depth(t, i, j) ==
    LET Among(ops) == {k \in i .. j - 1 : Type(t, k) = "OPERATOR" /\ Token(t, k).text \in ops}
    IN  Cardinality(Among(Openers)) - Cardinality(Among(Closers))

\* _recover_to_newline.
Recover(t, i) ==
    LET Stops(k) == \/ Type(t, k) = "EOF"
                    \/ Depth(t, i, k) <= 0 /\ (Type(t, k) = "NEWLINE" \/ Is(t, k, <<EndBrace>>))
        j == Min({k \in i .. Len(t) : Stops(k)})
    IN  IF Type(t, j) = "NEWLINE" THEN j + 1 ELSE j

\* Further reads of a method, some with what it tells them.
Further(read, rule, i) == read[<<rule, i, "">>]
Told(read, rule, i, of) == read[<<rule, i, of>>]
Expression(read, i) == Further(read, "expression", i)

\* One node in front of those read behind it.
Prefixed(nodes, bad, rest) == Read(nodes \o rest.node, rest.i, bad \/ rest.bad)

\* Past a closing bracket, or not, with the diagnostic.
Closed(t, e, node, op) ==
    Read(node, Closing(t, e.i, op).i, e.bad \/ Closing(t, e.i, op).bad)

-----------------------------------------------------------------------------
(* operators *)

Branches(t, read, condition, yes) ==
    LET no == Expression(read, yes.i + 1)
    IN  IF Is(t, yes.i, <<":">>)
        THEN Read(Node("conditional", <<condition.node, yes.node, no.node>>), no.i,
                  condition.bad \/ yes.bad \/ no.bad)
        ELSE Read(condition.node, yes.i, TRUE)

Conditional(t, read, i) ==
    LET condition == Further(read, "or", i)
    IN  IF Is(t, condition.i, <<"?">>)
        THEN Branches(t, read, condition, Expression(read, condition.i + 1)) ELSE condition

\* _BINARY_LEVELS: the operators of a level, and what binds tighter.
BinaryLevels == [or         |-> {<<"|", "|">>},
                 and        |-> {<<"&", "&">>},
                 equality   |-> {<<"=", "=">>, <<"!", "=">>},
                 comparison |-> {<<"<">>, <<"<", "=">>, <<">">>, <<">", "=">>},
                 sum        |-> {<<"+">>, <<"-">>},
                 product    |-> {<<"*">>, <<"/">>, <<"%">>}]
Tighter == [or |-> "and", and |-> "equality", equality |-> "comparison", comparison |-> "sum",
            sum |-> "product", product |-> "unary"]

\* What comes behind an expression and takes it for its first part: a suffix,
\* or an operator with its right operand.  A reference grows by a step,
\* anything else is wrapped.
Suffixed(e, suffix) ==
    CASE suffix.by = "operator" -> Operation("binary", suffix.op, <<e, suffix.right>>)
      [] suffix.by = "step"  -> IF e.kind \in {"scope", "relative"}
                                THEN [e EXCEPT !.steps = Append(@, suffix.step)]
                                ELSE Relative(e, <<suffix.step>>)
      [] suffix.by = "splat" -> Node("splat", <<e>>)
      [] suffix.by = "index" -> Node("index", <<e, suffix.key>>)
      [] suffix.by = "call"  -> Node("call", suffix.args)
      [] OTHER -> e

\* From left to right.
Chain(e, suffixes) ==
    LET grown[n \in 0 .. Len(suffixes)] ==
            IF n = 0 THEN e ELSE Suffixed(grown[n - 1], suffixes[n])
    IN  grown[Len(suffixes)]

Binary(read, level, i) ==
    LET left == Further(read, Tighter[level], i)
        rest == Told(read, "operations", left.i, level)
    IN  Read(Chain(left.node, rest.node), rest.i, left.bad \/ rest.bad)

Operations(t, read, i, level) ==
    LET op    == Token(t, i).text
        right == Further(read, Tighter[level], i + 1)
        rest  == Told(read, "operations", right.i, level)
    IN  IF Type(t, i) = "OPERATOR" /\ op \in BinaryLevels[level]
        THEN Prefixed(<<[by |-> "operator", op |-> op, right |-> right.node]>>, right.bad, rest)
        ELSE None(i)

-----------------------------------------------------------------------------
(* what may follow an expression *)

\* .name, .0 and .*
GetAttr(t, i) ==
    LET step == IF Type(t, i) = "NUMBER" THEN At(NumberOf(Token(t, i).text))
                                         ELSE Attr(Token(t, i).text)
    IN  CASE Is(t, i, <<"*">>) -> Read([by |-> "splat"], i + 1, FALSE)
          [] Type(t, i) \in {"IDENT", "NUMBER"} -> Read([by |-> "step", step |-> step], i + 1, FALSE)
          [] OTHER -> Read([by |-> "nothing"], After(t, i), TRUE)

\* The bracket of [*] is the only one that need not be closed.
Index(t, read, i) ==
    LET key == Expression(read, i)
    IN  IF Is(t, i, <<"*">>) THEN Read([by |-> "splat"], Match(t, i + 1, <<"]">>), FALSE)
        ELSE Closed(t, key, [by |-> "index", key |-> key.node], <<"]">>)

Call(t, read, i) ==
    LET args == Told(read, "elements", i, ")")
    IN  Closed(t, args, [by |-> "call", args |-> args.node], <<")">>)

\* callee: whether what comes before it is a name, which alone can be called.
Suffix(t, read, i) ==
    CASE Is(t, i, <<".">>) -> GetAttr(t, i + 1)
      [] Is(t, i, <<"[">>) -> Index(t, read, i + 1)
      [] OTHER -> Call(t, read, i + 1)

Postfixes(t, read, i, callee) ==
    LET one  == Suffix(t, read, i)
        name == IF callee = "name" /\ one.node.by \in {"step", "nothing"} THEN "name" ELSE ""
        rest == Told(read, "postfixes", one.i, name)
    IN  IF Is(t, i, <<".">>) \/ Is(t, i, <<"[">>) \/ (Is(t, i, <<"(">>) /\ callee = "name")
        THEN Prefixed(<<one.node>>, one.bad, rest) ELSE None(i)

Postfix(read, i) ==
    LET e    == Further(read, "primary", i)
        rest == Told(read, "postfixes", e.i, IF e.node.kind = "scope" THEN "name" ELSE "")
    IN  Read(Chain(e.node, rest.node), rest.i, e.bad \/ rest.bad)

Unary(t, read, i) ==
    LET operand == Further(read, "unary", i + 1)
    IN  IF Is(t, i, <<"!">>) \/ Is(t, i, <<"-">>)
        THEN Read(Operation("unary", Token(t, i).text, <<operand.node>>), operand.i, operand.bad)
        ELSE Postfix(read, i)

-----------------------------------------------------------------------------
(* names and templates *)

\* ::name, again and again: part of the name, not steps of a reference.
Qualified(t, read, i) ==
    LET rest == Further(read, "qualified", i + 2)
    IN  CASE ~Is(t, i, <<":", ":">>) -> None(i)
          [] Is(t, i, <<":", ":">>) /\ Type(t, i + 1) # "IDENT" -> Read(<<>>, i + 1, TRUE)
          [] OTHER -> Prefixed(<<":", ":">> \o Token(t, i + 1).text, FALSE, rest)

Variable(t, read, i) ==
    LET rest == Further(read, "qualified", i + 1)
    IN  Read(Scoped(<<Root(Token(t, i).text \o rest.node)>>), rest.i, rest.bad)

Keywords == [true |-> BoolVal(TRUE), false |-> BoolVal(FALSE), null |-> NullVal]
Keyword(text) == Len(text) = 1 /\ text[1] \in DOMAIN Keywords

\* _skip_template_directive: to the end of the sequence a ${ or %{ opened,
\* past other sequences in it.
Sequence(t, read, i) ==
    LET inner == Further(read, "sequence", i + 1)
    IN  CASE Type(t, i) = "EOF" -> None(i)
          [] Type(t, i) = "SEQ_END" -> None(i + 1)
          [] Type(t, i) \in {"INTERP", "CONTROL"} -> Further(read, "sequence", inner.i)
          [] OTHER -> inner

Interpolation(t, read, i, end) ==
    LET inner == Expression(read, i)
        ended == Type(t, inner.i) = "SEQ_END"
        rest  == Told(read, "parts", IF ended THEN inner.i + 1 ELSE inner.i, end)
    IN  Prefixed(<<inner.node>>, inner.bad \/ ~ended, rest)

\* A directive is skipped and leaves a value nobody knows.
Parts(t, read, i, end) ==
    LET rest   == Told(read, "parts", i + 1, end)
        beyond == Told(read, "parts", Further(read, "sequence", i + 1).i, end)
    IN  CASE Type(t, i) = end -> None(i + 1)
          [] Type(t, i) = "EOF" -> Read(<<>>, i, TRUE)
          [] Type(t, i) = "LITERAL" ->
                Prefixed(<<Literal(StringVal(Token(t, i).text))>>, FALSE, rest)
          [] Type(t, i) = "INTERP" -> Interpolation(t, read, i + 1, end)
          [] Type(t, i) = "CONTROL" -> Prefixed(<<Literal(UnknownVal)>>, FALSE, beyond)
          [] OTHER -> rest

\* A template of one interpolation keeps the type of what it wraps.
TemplateNode(parts) ==
    CASE parts = <<>> -> Literal(StringVal(<<>>))
      [] Len(parts) = 1 /\ parts[1].kind # "literal" -> Node("wrap", parts)
      [] OTHER -> Node("template", parts)

QuotedTemplate(read, i) ==
    LET parts == Told(read, "parts", i + 1, "CQUOTE") IN As(parts, TemplateNode(parts.node))
Heredoc(read, i) ==
    LET parts == Told(read, "parts", i + 1, "CHEREDOC")
    IN  As(parts, Node("template", parts.node))

-----------------------------------------------------------------------------
(* brackets *)

\* Expressions between commas, up to a closing bracket.
Elements(t, read, i, close) ==
    LET start == Lines(t, i)
        one   == Expression(read, start)
        j     == Lines(t, one.i)
        k     == IF close = ")" THEN Match(t, j, <<".", ".", ".">>) ELSE j
        rest  == Told(read, "elements", Lines(t, k + 1), close)
    IN  IF Is(t, start, <<close>>) \/ Type(t, i) = "EOF" THEN None(start)
        ELSE Prefixed(<<one.node>>, one.bad, IF Is(t, k, <<Comma>>) THEN rest ELSE None(k))

\* An item is two nodes.
Item(t, read, key) ==
    LET value == Expression(read, key.i + 1)
        next  == Lines(t, Match(t, Lines(t, value.i), <<Comma>>))
    IN  IF Is(t, key.i, <<"=">>) \/ Is(t, key.i, <<":">>)
        THEN Prefixed(<<Node("key", <<key.node>>), value.node>>, key.bad \/ value.bad,
                      Further(read, "items", next))
        ELSE Prefixed(<<>>, TRUE, Further(read, "items", Recover(t, key.i)))

Items(t, read, i) ==
    LET start == Lines(t, i)
    IN  IF Is(t, start, <<EndBrace>>) \/ Type(t, i) = "EOF" THEN None(start)
        ELSE Item(t, read, Expression(read, start))

\* for key, value in collection : [key =>] value [...] [if condition]
ForNames(t, i) ==
    LET one == IF Type(t, i + 1) = "IDENT" THEN i + 2 ELSE i + 1
        two == Match(t, one, <<Comma>>)
    IN  IF two > one /\ Type(t, two) = "IDENT" THEN two + 1 ELSE two

Collection(t, read, i) ==
    LET e == Expression(read, IF Type(t, i) = "IDENT" THEN i + 1 ELSE i)
    IN  Read(e.node, e.i, e.bad \/ Type(t, i) # "IDENT")

\* The same node, read further.
Then(sofar, next) == Read(sofar.node, next.i, sofar.bad \/ next.bad)

ForKey(t, read, collection) ==
    LET colon == Closing(t, Lines(t, collection.i), <<":">>)
    IN  Then(Then(collection, colon), Expression(read, Lines(t, colon.i)))

ForValue(t, read, sofar, close) ==
    LET arrow == Lines(t, sofar.i)
        value == Expression(read, Lines(t, arrow + 1))
        dots  == Match(t, Lines(t, value.i), <<".", ".", ".">>)
    IN  IF close = EndBrace /\ Is(t, arrow, <<"=", ">">>)
        THEN Read(sofar.node, dots, sofar.bad \/ value.bad) ELSE sofar

ForTest(t, read, sofar) ==
    LET start == Lines(t, sofar.i)
    IN  IF IsWord(t, start, "if") THEN Then(sofar, Expression(read, start + 1)) ELSE sofar

For(t, read, i, close) ==
    LET key   == ForKey(t, read, Collection(t, read, ForNames(t, i)))
        whole == ForTest(t, read, ForValue(t, read, key, close))
        ended == Read(whole.node, Lines(t, whole.i), whole.bad)
    IN  Closed(t, ended, Node("for", <<whole.node>>), <<close>>)

Bracketed(t, e, kind, op) == Closed(t, e, Node(kind, e.node), op)

Tuple(t, read, i) ==
    LET start == Lines(t, i)
    IN  IF IsWord(t, start, "for") THEN For(t, read, start, "]")
        ELSE Bracketed(t, Told(read, "elements", start, "]"), "tuple", <<"]">>)

Object(t, read, i) ==
    LET start == Lines(t, i)
    IN  IF IsWord(t, start, "for") THEN For(t, read, start, EndBrace)
        ELSE Bracketed(t, Further(read, "items", start), "object", <<EndBrace>>)

Parenthesis(t, read, i) ==
    LET inner == Expression(read, i)
    IN  Closed(t, inner, Node("parentheses", <<inner.node>>), <<")">>)

Primary(t, read, i) ==
    CASE Type(t, i) = "NUMBER" -> Read(Literal(NumberVal(NumberOf(Token(t, i).text))), i + 1, FALSE)
      [] Type(t, i) = "OQUOTE" -> QuotedTemplate(read, i)
      [] Type(t, i) = "OHEREDOC" -> Heredoc(read, i)
      [] Is(t, i, <<"[">>) -> Tuple(t, read, i + 1)
      [] Is(t, i, <<Brace>>) -> Object(t, read, i + 1)
      [] Is(t, i, <<"(">>) -> Parenthesis(t, read, i + 1)
      [] Type(t, i) = "IDENT" ->
            IF Keyword(Token(t, i).text)
            THEN Read(Literal(Keywords[Token(t, i).text[1]]), i + 1, FALSE)
            ELSE Variable(t, read, i)
      [] OTHER -> Read(Literal(UnknownVal), After(t, i), TRUE)

-----------------------------------------------------------------------------
(* bodies *)

\* A quoted label: the text between its sequences.
Label(t, read, i) ==
    LET rest   == Further(read, "label", i + 1)
        beyond == Further(read, "label", Further(read, "sequence", i + 1).i)
    IN  CASE Type(t, i) = "CQUOTE" -> None(i + 1)
          [] Type(t, i) = "EOF" -> None(i)
          [] Type(t, i) = "LITERAL" -> Prefixed(Token(t, i).text, FALSE, rest)
          [] Type(t, i) \in {"INTERP", "CONTROL"} -> beyond
          [] OTHER -> rest

Labels(t, read, i) ==
    LET label == Further(read, "label", i + 1)
    IN  CASE Type(t, i) = "OQUOTE" ->
                Prefixed(<<label.node>>, FALSE, Further(read, "labels", label.i))
          [] Type(t, i) = "IDENT" ->
                Prefixed(<<Token(t, i).text>>, FALSE, Further(read, "labels", i + 1))
          [] OTHER -> None(i)

\* Mutant: an argument ends where the next token starts.
EndsAtNextToken(t, expression) == Token(t, expression.i).first

\* An argument ends where its expression does, before any comment; a [* that is
\* not closed reaches over the token behind it.
Unclosed(t, i) == Is(t, i - 1, <<"*">>) /\ Is(t, i - 2, <<"[">>)
EndOf(t, expression) == Token(t, IF Unclosed(t, expression.i) THEN expression.i
                                 ELSE expression.i - 1).next

\* The arguments and blocks of a body, in the order of the file.
NoBody == [attributes |-> <<>>, blocks |-> <<>>]
Skipped(i) == Read(NoBody, i, TRUE)

Attribute(t, read, i) ==
    LET e     == Expression(read, i + 2)
        ended == Type(t, e.i) \in {"NEWLINE", "EOF"} \/ Is(t, e.i, <<EndBrace>>)
        entry == [name |-> Token(t, i).text, expr |-> e.node,
                  first |-> Token(t, i).first, next |-> EndOf(t, e)]
    IN  Read([attributes |-> <<entry>>, blocks |-> <<>>],
             IF ended THEN e.i ELSE Recover(t, e.i), e.bad \/ ~ended)

Block(t, read, i) ==
    LET labels == Further(read, "labels", i + 1)
        inner  == Told(read, "body", labels.i + 1, EndBrace)
        entry  == [type |-> Token(t, i).text, labels |-> labels.node, body |-> inner.node]
    IN  IF Is(t, labels.i, <<Brace>>)
        THEN Closed(t, inner, [attributes |-> <<>>, blocks |-> <<entry>>], <<EndBrace>>)
        ELSE Skipped(Recover(t, labels.i))

Statement(t, read, i) ==
    CASE Type(t, i) = "IDENT" /\ Is(t, i + 1, <<"=">>) -> Attribute(t, read, i)
      [] Type(t, i) = "IDENT" /\ (Type(t, i + 1) \in {"OQUOTE", "IDENT"} \/ Is(t, i + 1, <<Brace>>)) ->
            Block(t, read, i)
      [] OTHER -> Skipped(Recover(t, IF Type(t, i) = "IDENT" THEN i + 1 ELSE i))

\* Recovery may stop at an orphan brace: it is passed all the same.
Statements(t, read, i, end) ==
    LET start == Lines(t, i)
        one   == Statement(t, read, start)
        rest  == Told(read, "statements", IF one.i = start THEN After(t, start) ELSE one.i, end)
        both  == [attributes |-> one.node.attributes \o rest.node.attributes,
                  blocks |-> one.node.blocks \o rest.node.blocks]
    IN  IF Type(t, start) = "EOF" \/ (end # "" /\ Is(t, start, <<end>>)) THEN Read(NoBody, start, FALSE)
        ELSE Read(both, rest.i, one.bad \/ rest.bad)

\* The last argument of a name stays, with a diagnostic.
Body(read, i, end) ==
    LET all      == Told(read, "statements", i, end)
        entries  == all.node.attributes
        Named(name) == {k \in DOMAIN entries : entries[k].name = name}
        names    == {entries[k].name : k \in DOMAIN entries}
    IN  Read([attributes |-> [name \in names |-> entries[Max(Named(name))]],
              blocks |-> all.node.blocks],
             all.i, all.bad \/ \E name \in names : Cardinality(Named(name)) > 1)


-----------------------------------------------------------------------------
(* All reads of a file.  A read tells its method, where it starts, and what  *)
(* it was told: a level, a bracket, whether a name can be called.            *)

Methods == {"expression", "unary", "primary", "operations", "postfixes", "qualified", "sequence",
            "parts", "elements", "items", "label", "labels", "statements", "body"}
           \cup DOMAIN BinaryLevels
Details == {"", "name", "CQUOTE", "CHEREDOC", "]", ")", EndBrace} \cup DOMAIN BinaryLevels

Calls(t) == Methods \X (1 .. Len(t)) \X Details

Method(t, read, rule, i, of) ==
    CASE rule = "expression" -> Conditional(t, read, i)
      [] rule \in DOMAIN BinaryLevels -> Binary(read, rule, i)
      [] rule = "operations" -> Operations(t, read, i, of)
      [] rule = "unary"      -> Unary(t, read, i)
      [] rule = "primary"    -> Primary(t, read, i)
      [] rule = "postfixes"   -> Postfixes(t, read, i, of)
      [] rule = "qualified"  -> Qualified(t, read, i)
      [] rule = "sequence"   -> Sequence(t, read, i)
      [] rule = "parts"      -> Parts(t, read, i, of)
      [] rule = "elements"   -> Elements(t, read, i, of)
      [] rule = "items"      -> Items(t, read, i)
      [] rule = "label"      -> Label(t, read, i)
      [] rule = "labels"     -> Labels(t, read, i)
      [] rule = "statements" -> Statements(t, read, i, of)
      [] rule = "body"       -> Body(read, i, of)

\* Reads whose methods call one another at most so deep; what lies deeper is
\* given up.  No method calls itself where it started, so that a file with so
\* many tokens never gets there.
Deepest(t) == Cardinality(Methods) * (Len(t) + 1)

AllReads(t, deepest) ==
    LET read[depth \in 0 .. deepest] ==
            [c \in Calls(t) |-> IF depth = 0 THEN Read(<<>>, Len(t), TRUE)
                                ELSE Method(t, read[depth - 1], c[1], c[2], c[3])]
    IN  read[deepest]

\* parse_config, over the tokens of a file.
ParseConfig(t) == AllReads(t, Deepest(t))[<<"body", 1, "">>]
=============================================================================
