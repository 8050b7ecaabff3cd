------------------------------ MODULE SourceFile -----------------------------
(***************************************************************************)
(* parse_config of hcl/parser.py and _parse_body of parser/hcl.py: a file  *)
(* is read into tokens, the tokens into a tree, and a file about which     *)
(* the lexer or the parser raised a diagnostic is rejected.                *)
(***************************************************************************)
EXTENDS Lexer, Parser

VARIABLES
    stage,       \* "tokens", "parsed" or "rejected"; Language adds "converted"
    config       \* [node, i, bad]: what ParseConfig made of the tokens

file == <<vars, stage, config>>

FileInit ==
    /\ Init
    /\ stage = "tokens" /\ config = Read(NoBody, 1, FALSE)

Tokenise == stage = "tokens" /\ NextToken /\ UNCHANGED <<stage, config>>

Parse ==
    /\ stage = "tokens" /\ lexer \in {"done", "stuck"}
    /\ config' = ParseConfig(tokens)
    /\ stage' = "parsed"
    /\ UNCHANGED vars

Rejected == errors \/ lexer = "stuck" \/ config.bad

\* _parse_body: a file with a diagnostic raises HCLParseError.
Reject ==
    /\ stage = "parsed" /\ Rejected
    /\ stage' = "rejected"
    /\ UNCHANGED <<vars, config>>

FileNext == Tokenise \/ Parse \/ Reject

FileSpec == FileInit /\ [][FileNext]_file

-----------------------------------------------------------------------------
(* Properties *)

Accepted == stage # "tokens" /\ ~Rejected

\* [*] is read as one; its bracket is the only one that may be missing.
InSplat(t, k) ==
    \/ Is(t, k, <<"[">>) /\ Is(t, k + 1, <<"*">>)
    \/ Is(t, k, <<"]">>) /\ k > 2 /\ Unclosed(t, k)

Closer == [bracket \in Openers |-> CASE bracket = <<Brace>> -> <<EndBrace>>
                                      [] bracket = <<"[">> -> <<"]">>
                                      [] bracket = <<"(">> -> <<")">>]

\* One token further in the check of the brackets outside all sequences.
Weigh(t, sofar, k) ==
    LET outside == Type(t, k) = "OPERATOR" /\ sofar.inside = 0 /\ ~InSplat(t, k)
        op      == IF outside THEN Token(t, k).text ELSE <<>>
        awaited == sofar.pending # <<>> /\ sofar.pending[1] = op
    IN  [inside  |-> CASE Type(t, k) \in {"INTERP", "CONTROL"} -> sofar.inside + 1
                       [] Type(t, k) = "SEQ_END" -> sofar.inside - 1
                       [] OTHER -> sofar.inside,
         pending |-> CASE op \in Openers -> <<Closer[op]>> \o sofar.pending
                       [] op \in Closers /\ awaited -> Tail(sofar.pending)
                       [] OTHER -> sofar.pending,
         stray   |-> sofar.stray \/ (op \in Closers /\ ~awaited)]

Balanced == [pending |-> <<>>, inside |-> 0, stray |-> FALSE]

Weighed(t) ==
    LET after[k \in 0 .. Len(t)] == IF k = 0 THEN Balanced ELSE Weigh(t, after[k - 1], k)
    IN  after[Len(t)]

(***************************************************************************)
(* A file no diagnostic was raised about is well bracketed: read to its    *)
(* end, it has every string, heredoc and interpolation closed, and the     *)
(* brackets outside them pair up, so that recovery, which skips text,      *)
(* never goes unreported ("parser.parse_file rejects files with errors",   *)
(* parser.py:6).  An unclosed [* is the exception.                         *)
(***************************************************************************)
AcceptedFilesAreClosed ==
    Accepted => Len(stack) = 1 /\ Weighed(tokens) = Balanced

\* The bodies of a file, those of its blocks behind it, level by level.
BodiesIn(body, levels) ==
    LET level[n \in 0 .. levels] ==
            IF n = 0 THEN {body}
            ELSE UNION {{b.blocks[k].body : k \in DOMAIN b.blocks} : b \in level[n - 1]}
    IN  UNION {level[n] : n \in 0 .. levels}

(***************************************************************************)
(* "The attribute ends where its expression ends": its range stops at the  *)
(* end of a token that is no end of line, so that no comment behind it is  *)
(* in the text iam_wildcard looks through (parser.py:168), unless it ends  *)
(* with an unclosed [*.  No block lies deeper than the file has tokens.    *)
(***************************************************************************)
CommentsStayOutside ==
    Accepted =>
        \A body \in BodiesIn(config.node, Len(tokens)) : \A name \in DOMAIN body.attributes :
            LET a == body.attributes[name]
            IN  \E n \in DOMAIN tokens :
                    /\ tokens[n].first > a.first /\ tokens[n].next = a.next
                    /\ tokens[n].type \notin {"NEWLINE", "EOF"} \/ Unclosed(tokens, n)
=============================================================================
