------------------------------- MODULE Engine -------------------------------
(***************************************************************************)
(* What the rule engine makes of one changed file: parser/hcl.py,          *)
(* parser/scope.py, parser/model.py, rules/engine.py,                      *)
(* rules/schema_checks.py, rules/lifecycle.py, rules/changedattrs.py.      *)
(*                                                                         *)
(* The contents of a file are a record [parses, resources, defaults, pin,  *)
(* ignored, secrets]: its resources by address, the defaults it gives to   *)
(* variables, the provider constraint it declares ("none", or whether the  *)
(* schema's version is "in" or "out" of it), the rules an inline directive *)
(* silences, and, for a variable file, the credentials in it.  A resource  *)
(* is [kind, type, attrs, blocks, guard], an expression [ref, text]: a     *)
(* reference to a variable, or a text when ref is "".                      *)
(***************************************************************************)
EXTENDS Sources, TLC

CONSTANTS
    Schema       \* the knowledge base: [allowed, inside, top, nested, critical] by type

SchemaDerivedRules == {"unknown_attribute", "force_new_change"}

\* Addresses are sequences of segments; a plan puts instance keys on them.
Segment(name) == [name |-> name, keyed |-> FALSE]
Keyed(name)   == [name |-> name, keyed |-> TRUE]
Address       == Seq([name : STRING, keyed : BOOLEAN])

AddressOf(kind, type, name) ==
    CASE kind = "module" -> <<Segment("module"), Segment(name)>>
      [] kind = "data"   -> <<Segment("data"), Segment(type), Segment(name)>>
      [] OTHER           -> <<Segment(type), Segment(name)>>

KeyedPositions(addr) == {i \in DOMAIN addr : addr[i].keyed}

\* Everything between the first "[" and the last "]" is cut away, then the
\* last two of the remaining segments are taken.
Unkeyed(addr) ==
    IF KeyedPositions(addr) = {} THEN addr
    ELSE LET first == CHOOSE i \in KeyedPositions(addr) : \A j \in KeyedPositions(addr) : i <= j
             last  == CHOOSE i \in KeyedPositions(addr) : \A j \in KeyedPositions(addr) : j <= i
         IN  SubSeq(addr, 1, first - 1) \o <<Segment(addr[first].name)>>
                 \o SubSeq(addr, last + 1, Len(addr))

LastTwo(addr) ==
    IF Len(addr) < 2 THEN addr ELSE SubSeq(addr, Len(addr) - 1, Len(addr))

bare_resource_address(addr) == LastTwo(Unkeyed(addr))

-----------------------------------------------------------------------------
(* Scopes: ScopeCache, build_scope, _attr_to_attribute *)

NoScope == [v \in {} |-> ""]

InDirectory(dir, disk) ==
    Ordered({p \in PathSet : DirOf[p] = dir /\ disk[p] # Missing /\ KindOf[p] = "terraform"})

\* The files for_file hands to build_scope: the directory on disk, with the
\* contents of the one file it was asked about on top.
ScopeFiles(path, head, disk) ==
    LET there  == InDirectory(DirOf[path], disk)
        listed == IF \E i \in DOMAIN there : there[i] = path THEN there ELSE Append(there, path)
    IN  [i \in DOMAIN listed |-> IF listed[i] = path THEN head ELSE disk[listed[i]]]

\* A file that does not parse costs the scope only what is in it; of two
\* defaults for one name the later file's stays.
build_scope(files) ==
    LET parsed == {i \in DOMAIN files : files[i].parses}
        names  == UNION {DOMAIN files[i].defaults : i \in parsed}
        Final(v) == CHOOSE i \in parsed :
                       /\ v \in DOMAIN files[i].defaults
                       /\ \A j \in parsed : v \in DOMAIN files[j].defaults => j <= i
    IN  [v \in names |-> files[Final(v)].defaults[v]]

Literal(text) == [literal |-> TRUE, value |-> text]
NotLiteral    == [literal |-> FALSE, value |-> ""]

attr_to_attribute(expr, scope) ==
    IF expr.ref = "" THEN Literal(expr.text)
    ELSE IF expr.ref \in DOMAIN scope THEN Literal(scope[expr.ref])
    ELSE NotLiteral

Evaluated(exprs, scope) == [a \in DOMAIN exprs |-> attr_to_attribute(exprs[a], scope)]

\* The first, and the last, nested block of a type.
BlocksOf(resource, type) == {i \in DOMAIN resource.blocks : resource.blocks[i].type = type}
BlockTypes(resource) == {resource.blocks[i].type : i \in DOMAIN resource.blocks}

FindBlock(resource, type) ==
    resource.blocks[CHOOSE i \in BlocksOf(resource, type) :
                        \A j \in BlocksOf(resource, type) : i <= j].attrs
LastBlock(resource, type) ==
    resource.blocks[CHOOSE i \in BlocksOf(resource, type) :
                        \A j \in BlocksOf(resource, type) : j <= i].attrs

-----------------------------------------------------------------------------
(* The rules of schema_checks.py and lifecycle.py *)

Finding(rule, file, addr, where, severity) ==
    [rule |-> rule, file |-> file, address |-> addr, where |-> where, severity |-> severity]

Managed(resources) == {a \in DOMAIN resources : resources[a].kind = "resource"}

Critical(type) == type \in DOMAIN Schema /\ Schema[type].critical

\* _compare_attr, on attributes present in both revisions.
Compare(path, addr, where, head, base, severity) ==
    IF ~head.literal \/ ~base.literal
    THEN {Finding("force_new_change", path, addr, where, "low")}
    ELSE IF head.value = base.value THEN {}
    ELSE {Finding("force_new_change", path, addr, where, severity)}

CompareAll(path, addr, prefix, names, head, base, severity) ==
    UNION {Compare(path, addr, prefix \o <<n>>, head[n], base[n], severity) :
             n \in names \cap DOMAIN head \cap DOMAIN base}

ForceNewChanges(path, addr, head, base, scope) ==
    IF head.type \notin DOMAIN Schema THEN {}
    ELSE LET spec     == Schema[head.type]
             severity == IF spec.critical THEN "critical" ELSE "high"
             shared   == BlockTypes(head) \cap BlockTypes(base) \cap DOMAIN spec.nested
         IN  CompareAll(path, addr, <<>>, spec.top, Evaluated(head.attrs, scope),
                        Evaluated(base.attrs, NoScope), severity)
             \cup UNION {CompareAll(path, addr, <<t>>, spec.nested[t],
                                    Evaluated(FindBlock(head, t), scope),
                                    Evaluated(FindBlock(base, t), NoScope), severity) : t \in shared}

ForceNewChangeRule(path, head, base, scope) ==
    UNION {ForceNewChanges(path, a, head[a], base[a], scope) :
             a \in Managed(head) \cap DOMAIN base}

\* Of the nested blocks only those of a type the schema lists are looked into.
UnknownIn(resource) ==
    LET spec == Schema[resource.type]
    IN  {<<n>> : n \in DOMAIN resource.attrs \ spec.allowed}
        \cup UNION {{<<block.type, n>> : n \in DOMAIN block.attrs \ spec.inside[block.type]} :
                      block \in {b \in {resource.blocks[i] : i \in DOMAIN resource.blocks} :
                                   b.type \in DOMAIN spec.inside}}

UnknownAttributeRule(path, head) ==
    UNION {{Finding("unknown_attribute", path, a, where, "high") : where \in UnknownIn(head[a])} :
             a \in {m \in Managed(head) : head[m].type \in DOMAIN Schema}}

MissingLifecycleRule(path, head) ==
    {Finding("missing_lifecycle", path, a, <<head[a].guard>>, "medium") :
       a \in {m \in Managed(head) : Critical(head[m].type) /\ head[m].guard # "true"}}

\* changed_attrs_for_resource.
DiffAttrMaps(head, base, prefix) ==
    {prefix \o <<n>> : n \in {m \in DOMAIN head \cup DOMAIN base :
        \/ m \notin DOMAIN head \cap DOMAIN base
        \/ ~head[m].literal \/ ~base[m].literal
        \/ head[m].value # base[m].value}}

ChangedAttrs(head, base, scope) ==
    DiffAttrMaps(Evaluated(head.attrs, scope), Evaluated(base.attrs, NoScope), <<>>)
        \cup UNION {DiffAttrMaps(Evaluated(LastBlock(head, t), scope),
                                 Evaluated(LastBlock(base, t), NoScope), <<t>>) :
                      t \in BlockTypes(head) \cap BlockTypes(base)}

-----------------------------------------------------------------------------
(* One round of the loop in run *)

BaseResources(file) ==
    IF file.base # Missing /\ file.base.parses THEN file.base.resources ELSE NoScope

Unanalysed(file) ==
    IF ~file.head.parses
    THEN {Finding("unparsable_file", file.path, <<>>, <<>>, "high")}
    ELSE IF file.base # Missing /\ ~file.base.parses
    THEN {Finding("unparsable_base_file", file.path, <<>>, <<>>, "low")}
    ELSE {}

\* A file whose head revision does not parse raises that and nothing else.
FindingsIn(file, scope) ==
    Unanalysed(file) \cup
    IF ~file.head.parses THEN {}
    ELSE ForceNewChangeRule(file.path, file.head.resources, BaseResources(file), scope)
         \cup UnknownAttributeRule(file.path, file.head.resources)
         \cup MissingLifecycleRule(file.path, file.head.resources)

\* A later file with the same address replaces what an earlier one changed.
ChangedIn(file, scope, changed) ==
    LET own == IF file.head.parses
               THEN DOMAIN file.head.resources \cap DOMAIN BaseResources(file) ELSE {}
    IN  [a \in own \cup DOMAIN changed |->
            IF a \in own
            THEN ChangedAttrs(file.head.resources[a], BaseResources(file)[a], scope)
            ELSE changed[a]]

\* constraints_for: the directory on disk, under every scanned file in it;
\* the first file in order that declares a constraint decides.
ConstraintIn(dir, files, disk) ==
    LET scanned(p) == {i \in DOMAIN files : files[i].path = p}
        Held(p) == IF scanned(p) # {} THEN files[CHOOSE i \in scanned(p) : TRUE].head ELSE disk[p]
        pinning == Ordered({p \in PathSet : /\ DirOf[p] = dir /\ KindOf[p] = "terraform"
                                            /\ Held(p) # Missing
                                            /\ Held(p).pin # "none"})
    IN  IF pinning = <<>> THEN "none" ELSE Held(Head(pinning)).pin

\* type_from_address: only an address of two segments or more has a type.
HasType(addr) == Len(addr) >= 2 /\ addr[1].name # "module"

\* Mutant: a directory without a constraint counts as pinned elsewhere.
DropUnpinned(F, pins) ==
    {f \in F : ~(f.rule \in SchemaDerivedRules /\ pins[DirOf[f.file]] # "in")}

DropContradicted(F, pins) ==
    {f \in F : ~ /\ f.rule \in SchemaDerivedRules /\ HasType(f.address)
                 /\ pins[DirOf[f.file]] = "out"}

\* ignore.apply with the directives of the head revisions.
DropSilenced(F, files, ignored) ==
    {f \in F : /\ f.rule \notin ignored
               /\ \A i \in DOMAIN files :
                      files[i].path = f.file => f.rule \notin files[i].head.ignored}
=============================================================================
