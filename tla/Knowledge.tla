------------------------------ MODULE Knowledge ------------------------------
(***************************************************************************)
(* What a scan knows about resource types, and how that knowledge judges   *)
(* the files: the packs that ship with the scanner, the packs a license    *)
(* adds for the providers the files use, the lookups that resolve a type   *)
(* in the last pack that describes it, the three rules that ask, and the   *)
(* findings a pinned provider takes back.  Fetching is one step per        *)
(* provider; what happens to a pack on its way to the disk and back is the *)
(* subject of PackCache.                                                   *)
(*                                                                         *)
(* A block stands for all blocks of its type in a file.                    *)
(***************************************************************************)
EXTENDS Versions

CONSTANTS
    Types,          \* resource types
    Attributes,     \* names of arguments
    Providers,      \* names of providers
    ProviderOf,     \* the provider a type's name begins with
    Fetchable,      \* FETCHABLE_PROVIDERS
    Schemaless,     \* SCHEMALESS_PROVIDERS
    Alphabetical,   \* the providers in the order sorted() gives them
    Embedded,       \* the packs of the distribution, in the order they load
    Answers,        \* for each provider, the bodies a fetch may come back with
    Repositories,   \* the files a scan may meet
    Arguments       \* [license, providers]: --providers, or <<>> for "auto"

Entry == [wellFormed : BOOLEAN, known : SUBSET Attributes,
          force_new : SUBSET Attributes, critical : BOOLEAN]

\* "sound" parses; parse_pack raises PackError for "unreadable" (not gzip, not
\* JSON, no object) and for "outdated" (another format), whose document it has
\* read; "damaged" raises what parse_pack does not turn into one.
Conditions == {"sound", "unreadable", "outdated", "damaged"}

\* What an error names when the document could not be read.
Nothing == "no pack"

IsPack(pack) ==
    /\ pack.condition \in Conditions
    /\ pack.provider \in Providers
    /\ pack.version \in Seq(Nat)
    /\ DOMAIN pack.resources \subseteq Types
    /\ \A type \in DOMAIN pack.resources : pack.resources[type] \in Entry

Piece == [operator : Operators \cup {"", "?"}, version : Seq(Nat)]

Block == [attributes : SUBSET Attributes, changed : SUBSET Attributes,
          guarded : BOOLEAN]

\* The blocks are those the parser finds, with quoted labels or bare ones; the
\* providers named are those a search for quoted labels at the start of a line
\* finds, which sees no bare label and reads comments and heredocs too.
IsFile(file) ==
    /\ file.named \subseteq Providers
    /\ DOMAIN file.blocks \subseteq Types
    /\ \A type \in DOMAIN file.blocks : file.blocks[type] \in Block
    /\ file.pins \in [Providers -> SUBSET Piece]

\* The packs that ship, and those a fetch may come back with.
Shipped == {Embedded[k] : k \in 1..Len(Embedded)}
Bodies == UNION {Answers[p] : p \in Providers}

ASSUME KnowledgeAssumption ==
    /\ ProviderOf \in [Types -> Providers]
    /\ Alphabetical \in Seq(Providers)
    /\ \A p \in Providers : \E k \in 1..Len(Alphabetical) : Alphabetical[k] = p
    /\ Embedded \in Seq(Shipped)
    /\ \A pack \in Shipped : IsPack(pack) /\ pack.condition = "sound"
    /\ \A body \in Bodies : IsPack(body)
    /\ \A R \in Repositories : \A path \in DOMAIN R : IsFile(R[path])
    /\ \A a \in Arguments : a.license \in BOOLEAN /\ a.providers \in Seq(Providers)

VARIABLES
    args,       \* the command line
    files,      \* the changed files
    pc,         \* the step the scan is at
    turn,       \* position in the loop over providers, or over overlays
    overlays,   \* [asked, body]: the packs fetched, in order
    packs,      \* the packs of the knowledge base
    warned,     \* <<what, name, turn>>: what the scan said about its coverage
    findings,   \* [rule, file, type, attribute]
    notes       \* <<provider, constraint, version>>: why claims were dropped

vars == <<args, files, pc, turn, overlays, packs, warned, findings, notes>>

Steps == {"fetch", "overlay", "announce", "judge", "done", "crashed"}
Kinds == {"unavailable", "cached", "rejected", "uncovered"}

---------------------------------------------------------------------------
(* Lookups                                                                 *)

\* A pack answers for a type if its entry decodes.
Describes(pack, type) ==
    /\ type \in DOMAIN pack.resources
    /\ pack.resources[type].wellFormed

\* Lookups go through the packs from the last to the first.
Resolves(base, k, type) ==
    /\ k \in 1..Len(base)
    /\ Describes(base[k], type)
    /\ \A j \in (k + 1)..Len(base) : ~Describes(base[j], type)

\* Mutant: the first pack of a provider keeps the word.
RecordsFirst(base, k, provider) ==
    /\ k \in 1..Len(base)
    /\ base[k].provider = provider
    /\ \A j \in 1..(k - 1) : base[j].provider # provider

\* The release coverage() records for a provider: that of its last pack.
Records(base, k, provider) ==
    /\ k \in 1..Len(base)
    /\ base[k].provider = provider
    /\ \A j \in (k + 1)..Len(base) : base[j].provider # provider

covered(base) == {base[k].provider : k \in 1..Len(base)}

---------------------------------------------------------------------------
(* The rules that ask                                                      *)

Claim(rule, path, type, attribute) ==
    [rule |-> rule, file |-> path, type |-> type, attribute |-> attribute]

\* A schema without arguments is no schema: nothing is unknown to it.
unknown_attribute(entry, block) ==
    IF entry.known = {} THEN {} ELSE block.attributes \ entry.known

force_new_change(entry, block) == entry.force_new \cap block.changed

ClaimsAbout(entry, block, path, type) ==
    {Claim("unknown_attribute", path, type, a) : a \in unknown_attribute(entry, block)}
    \cup {Claim("force_new_change", path, type, a) : a \in force_new_change(entry, block)}
    \cup (IF entry.critical /\ ~block.guarded
          THEN {Claim("missing_lifecycle", path, type, "")} ELSE {})

\* All that the rules say of the files with a knowledge base.
Raised(base) ==
    UNION {UNION {UNION {ClaimsAbout(base[k].resources[type], files[path].blocks[type], path, type)
                            : k \in {j \in 1..Len(base) : Resolves(base, j, type)}}
                     : type \in DOMAIN files[path].blocks}
              : path \in DOMAIN files}

SchemaDerived == {"unknown_attribute", "force_new_change"}

Pin(f) == files[f.file].pins[ProviderOf[f.type]]

\* The release recorded for its provider, where there is one, is not one
\* that the repository uses.
Contradicts(base, f) ==
    /\ f.rule \in SchemaDerived
    /\ \E k \in 1..Len(base) :
          /\ Records(base, k, ProviderOf[f.type])
          /\ base[k].version # <<>>
          /\ ~allows(Pin(f), base[k].version)

Judged(base) == {f \in Raised(base) : ~Contradicts(base, f)}

Notes(base, F) ==
    UNION {{<<ProviderOf[f.type], Pin(f), base[k].version>>
               : k \in {j \in 1..Len(base) : Records(base, j, ProviderOf[f.type])}}
              : f \in {g \in F : Contradicts(base, g)}}

---------------------------------------------------------------------------
(* cli/providers.py                                                        *)

detect_providers == UNION {files[path].named : path \in DOMAIN files}

\* What the loop of load_knowledge_base goes over: the list of --providers,
\* or, for "auto", the providers in order, of which it takes those the files
\* use and a pack exists for.
Asked == IF args.providers = <<>> THEN Alphabetical ELSE args.providers

Wanted(provider) ==
    args.providers = <<>> => provider \in detect_providers \cap Fetchable

Uncovered(base) ==
    {p \in detect_providers : p \notin covered(base) /\ p \notin Schemaless}

---------------------------------------------------------------------------
(* load_knowledge_base, load_with, and the scan that uses them             *)

Init ==
    /\ args \in Arguments
    /\ files \in Repositories
    /\ pc = "fetch"
    /\ turn = 1
    /\ overlays = <<>>
    /\ packs = <<>>
    /\ warned = {}
    /\ findings = {}
    /\ notes = {}

\* Without a license, or with no provider to ask for, only the shipped packs load.
NothingToFetch ==
    \/ ~args.license
    \/ \A k \in 1..Len(Asked) : ~Wanted(Asked[k])

LoadShipped ==
    /\ pc = "fetch" /\ turn = 1
    /\ NothingToFetch
    /\ packs' = Embedded
    /\ pc' = "announce"
    /\ UNCHANGED <<args, files, turn, overlays, warned, findings, notes>>

\* A provider the loop does not go over.
Skip ==
    /\ pc = "fetch" /\ turn <= Len(Asked)
    /\ ~NothingToFetch
    /\ ~Wanted(Asked[turn])
    /\ turn' = turn + 1
    /\ UNCHANGED <<args, files, pc, overlays, packs, warned, findings, notes>>

\* fetch_rule_pack found neither the service nor a cached pack.
Unavailable ==
    /\ pc = "fetch" /\ turn <= Len(Asked)
    /\ ~NothingToFetch
    /\ Wanted(Asked[turn])
    /\ turn' = turn + 1
    /\ warned' = warned \cup {<<"unavailable", Asked[turn], turn>>}
    /\ UNCHANGED <<args, files, pc, overlays, packs, findings, notes>>

\* A pack came back, from the service or from the cache; the scan says so
\* when it is a cached one.
Receive ==
    /\ pc = "fetch" /\ turn <= Len(Asked)
    /\ ~NothingToFetch
    /\ Wanted(Asked[turn])
    /\ turn' = turn + 1
    /\ \E body \in Answers[Asked[turn]] :
          overlays' = Append(overlays, [asked |-> Asked[turn], body |-> body])
    /\ \E cached \in BOOLEAN :
          warned' = IF cached THEN warned \cup {<<"cached", Asked[turn], turn>>} ELSE warned
    /\ UNCHANGED <<args, files, pc, packs, findings, notes>>

\* load_with starts from the shipped packs.
StartOverlays ==
    /\ pc = "fetch" /\ turn > Len(Asked)
    /\ ~NothingToFetch
    /\ packs' = Embedded
    /\ turn' = 1
    /\ pc' = "overlay"
    /\ UNCHANGED <<args, files, overlays, warned, findings, notes>>

Body == overlays[turn].body

\* Mutant: a licensed pack takes the place of the pack of its provider.
OverlayInPlace ==
    /\ pc = "overlay" /\ turn <= Len(overlays)
    /\ Body.condition = "sound"
    /\ packs' = Append(SelectSeq(packs, LAMBDA p : p.provider # Body.provider), Body)
    /\ turn' = turn + 1
    /\ UNCHANGED <<args, files, pc, overlays, warned, findings, notes>>

Overlay ==
    /\ pc = "overlay" /\ turn <= Len(overlays)
    /\ Body.condition = "sound"
    /\ packs' = Append(packs, Body)
    /\ turn' = turn + 1
    /\ UNCHANGED <<args, files, pc, overlays, warned, findings, notes>>

\* What the error of parse_pack names: the pack, if its document was read.
Subject(body) == IF body.condition = "outdated" THEN body.provider ELSE Nothing

\* Mutant: a rejected pack goes unmentioned.
RejectQuietly ==
    /\ pc = "overlay" /\ turn <= Len(overlays)
    /\ Body.condition \in {"unreadable", "outdated"}
    /\ turn' = turn + 1
    /\ UNCHANGED <<args, files, pc, overlays, packs, warned, findings, notes>>

\* Each rejected pack has a line of its own, printed after the loop: it holds
\* the error, and never the provider that was asked for.
Reject ==
    /\ pc = "overlay" /\ turn <= Len(overlays)
    /\ Body.condition \in {"unreadable", "outdated"}
    /\ warned' = warned \cup {<<"rejected", Subject(Body), turn>>}
    /\ turn' = turn + 1
    /\ UNCHANGED <<args, files, pc, overlays, packs, findings, notes>>

\* zlib.error, or the ValueError of int(), passes load_with and main.
Break ==
    /\ pc = "overlay" /\ turn <= Len(overlays)
    /\ Body.condition = "damaged"
    /\ pc' = "crashed"
    /\ UNCHANGED <<args, files, turn, overlays, packs, warned, findings, notes>>

Loaded ==
    /\ pc = "overlay" /\ turn > Len(overlays)
    /\ pc' = "announce"
    /\ UNCHANGED <<args, files, turn, overlays, packs, warned, findings, notes>>

\* warn_uncovered_providers.
Announce ==
    /\ pc = "announce"
    /\ warned' = warned \cup {<<"uncovered", p, 0>> : p \in Uncovered(packs)}
    /\ pc' = "judge"
    /\ UNCHANGED <<args, files, turn, overlays, packs, findings, notes>>

\* The rules, then drop_findings_the_pinned_provider_contradicts.
Judge ==
    /\ pc = "judge"
    /\ findings' = Judged(packs)
    /\ notes' = Notes(packs, Raised(packs))
    /\ pc' = "done"
    /\ UNCHANGED <<args, files, turn, overlays, packs, warned>>

Next ==
    \/ LoadShipped \/ Skip \/ Unavailable \/ Receive \/ StartOverlays
    \/ Overlay \/ Reject \/ Break \/ Loaded
    \/ Announce \/ Judge

Spec == Init /\ [][Next]_vars

---------------------------------------------------------------------------
(* Properties                                                              *)

\* Every variable holds a value of its kind, and the packs in force are
\* sound: a pack that does not parse never becomes part of the knowledge.
TypeOK ==
    /\ args \in Arguments
    /\ files \in Repositories
    /\ pc \in Steps
    /\ turn \in Nat \ {0}
    /\ overlays \in Seq([asked : Providers, body : Bodies])
    /\ packs \in Seq({pack \in Shipped \cup Bodies : pack.condition = "sound"})
    /\ warned \subseteq Kinds \X (Providers \cup {Nothing}) \X Nat

\* A claim of this kind may be made from this pack: the pin has no quarrel
\* with its release.
Fits(f, pack) ==
    \/ f.rule \notin SchemaDerived
    \/ pack.version = <<>>
    \/ allows(Pin(f), pack.version)

(***************************************************************************)
(* A claim is kept exactly if the pin of its file allows the release of    *)
(* the pack the claim was made from ("dropped rather than judged against a *)
(* version you do not use", rules/engine.py:241).  Another pack's release  *)
(* decides in two cases only: the pack that describes the type is of       *)
(* another provider than the type's name says, or a pack of that provider  *)
(* lies above it that leaves the type out, and is of a release that the    *)
(* pin treats differently.                                                 *)
(***************************************************************************)
JudgedByThePinnedRelease ==
    pc = "done" =>
        \A f \in Raised(packs) : \A k \in 1..Len(packs) :
            Resolves(packs, k, f.type) =>
                \/ f \in findings <=> Fits(f, packs[k])
                \/ packs[k].provider # ProviderOf[f.type]
                \/ \E j \in (k + 1)..Len(packs) :
                      /\ packs[j].provider = ProviderOf[f.type]
                      /\ ~Describes(packs[j], f.type)
                      /\ ~(Fits(f, packs[j]) <=> Fits(f, packs[k]))

(***************************************************************************)
(* What a license can take away: a finding of the shipped packs alone is   *)
(* reported with the licensed ones too, unless one of them describes the   *)
(* type itself, or is of the provider the type's name says and of a        *)
(* release the repository does not use.                                    *)
(***************************************************************************)
FreeFindingsStay ==
    pc = "done" =>
        \A f \in Judged(Embedded) :
            \/ f \in findings
            \/ \E k \in (Len(Embedded) + 1)..Len(packs) :
                  \/ /\ f.type \in DOMAIN packs[k].resources
                     /\ packs[k].resources[f.type].wellFormed
                  \/ /\ packs[k].provider = ProviderOf[f.type]
                     /\ f.rule \in SchemaDerived
                     /\ ~allows(Pin(f), packs[k].version)

(***************************************************************************)
(* Nothing that was asked for is missing in silence: of each provider      *)
(* asked for a pack came, or a line says that none did; each pack that     *)
(* came is in force, or has a rejection line of its own, which names what  *)
(* the error does (cli/pipeline.py:173 says "that provider's" and names    *)
(* none); and each provider that the search finds in the files has a pack  *)
(* in force, declares nothing, or is named as uncovered.                   *)
(***************************************************************************)
LossIsAnnounced ==
    pc = "done" =>
        /\ ~NothingToFetch => \A i \in 1..Len(Asked) : Wanted(Asked[i]) =>
              \/ <<"unavailable", Asked[i], i>> \in warned
              \/ \E n \in 1..Len(overlays) : overlays[n].asked = Asked[i]
        /\ \A n \in 1..Len(overlays) :
              \/ \E k \in (Len(Embedded) + 1)..Len(packs) : packs[k] = overlays[n].body
              \/ <<"rejected", Subject(overlays[n].body), n>> \in warned
        /\ \A p \in detect_providers :
              \/ p \in Schemaless
              \/ <<"uncovered", p, 0>> \in warned
              \/ \E k \in 1..Len(packs) : packs[k].provider = p

(***************************************************************************)
(* The pessimistic operator lets the last written component grow and holds *)
(* the others (Term.allows), whatever the lengths of the two versions.     *)
(***************************************************************************)
PessimisticPinsThePrefix ==
    \A path \in DOMAIN files : \A p \in Providers :
        \A piece \in files[path].pins[p] : \A k \in 1..Len(packs) :
            piece.operator = "~>" /\ piece.version # <<>> =>
                (Allows(piece, packs[k].version) <=> Pessimistic(piece.version, packs[k].version))

=============================================================================
