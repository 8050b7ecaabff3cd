------------------------------- MODULE Language ------------------------------
(***************************************************************************)
(* From the text of a file to the resources the rules judge: SourceFile,   *)
(* then build_scope and parse_file_with_context of parser/ over Evaluate.  *)
(* The file is its own directory: its locals and defaults are the scope of *)
(* its references.                                                         *)
(***************************************************************************)
EXTENDS SourceFile, Evaluate

CONSTANTS
    Unknowns,    \* roots of references that only a plan gives a value
    Outcomes     \* the values a plan may give

VARIABLES
    scope,       \* of the directory
    resources    \* what the rules get

language == <<file, scope, resources>>

LanguageInit == FileInit /\ scope = NoScope /\ resources = <<>>

ReadFile == FileNext /\ UNCHANGED <<scope, resources>>

Convert ==
    /\ stage = "parsed" /\ ~Rejected
    /\ scope' = BuildScope(<<config.node>>)
    /\ resources' = Resources(config.node, scope')
    /\ stage' = "converted"
    /\ UNCHANGED <<vars, config>>

LanguageNext == ReadFile \/ Convert

LanguageSpec ==
    LanguageInit /\ [][LanguageNext]_language /\ WF_language(Tokenise /\ UNCHANGED <<scope, resources>>)

-----------------------------------------------------------------------------
(* Properties *)

\* The expressions of all arguments, however deep their blocks.
Arguments == UNION {{body.attributes[name].expr : name \in DOMAIN body.attributes} :
                        body \in BodiesIn(config.node, Len(tokens))}

\* The scope, with a value for each name only the plan knows.
Completed(outcome) == Completion(scope, [u \in {<<root>> : root \in Unknowns} |-> outcome])

(***************************************************************************)
(* A value that is judged is the value: whatever the plan gives the names  *)
(* nobody knows yet, an expression that was wholly known without them has  *)
(* the same value with them.  "Reporting one would be a guess, and a guess *)
(* is how a false positive gets in" (ast.py:411).                          *)
(***************************************************************************)
NothingIsGuessed ==
    stage = "converted" =>
        \A e \in Arguments : \A known \in {NoScope, scope} :
            LET before == Value(e, known)
            IN  ~before.bad /\ WhollyKnown(before.v) =>
                    \A outcome \in Outcomes :
                        LET after == Value(e, Completed(outcome))
                        IN  ~after.bad /\ Rendered(after.v) = Rendered(before.v)

(***************************************************************************)
(* A value found through a reference names the reference: the finding can  *)
(* tell where the literal is (ast.py:300, on the operator that lost it).   *)
(***************************************************************************)
ReferencesAreNamed ==
    stage = "converted" =>
        \A e \in Arguments :
            Value(e, NoScope).bad /\ ToAttribute(e, scope).literal =>
                ToAttribute(e, scope).from # <<>>

(***************************************************************************)
(* The lexer ends on every file, whatever it is cut off in: the scan does  *)
(* not hang (lexer.py:175).                                                *)
(***************************************************************************)
LexingEnds == <>(lexer # "lexing")
=============================================================================
