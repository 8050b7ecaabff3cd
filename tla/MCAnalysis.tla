----------------------------- MODULE MCAnalysis -----------------------------
(***************************************************************************)
(* A root module of two files, a second environment that declares the same *)
(* database, and a variable file.                                          *)
(***************************************************************************)
EXTENDS Analysis

MCPaths == <<"main.tf", "prod/main.tf", "prod/prod.tfvars", "vars.tf">>
MCKindOf == [p \in {MCPaths[i] : i \in DOMAIN MCPaths} |->
                IF p = "prod/prod.tfvars" THEN "tfvars" ELSE "terraform"]
MCDirOf == [p \in DOMAIN MCKindOf |->
               IF p \in {"prod/main.tf", "prod/prod.tfvars"} THEN "prod" ELSE Root]

Text(t) == [ref |-> "", text |-> t]
Var(v)  == [ref |-> v, text |-> ""]

Database(engine, size, disk, guard) ==
    [kind |-> "resource", type |-> "db", guard |-> guard,
     attrs |-> [engine |-> engine, size |-> size],
     blocks |-> <<[type |-> "storage", attrs |-> [class |-> disk]]>>]

\* An argument the storage block does not have.
Mistaken(database) == [database EXCEPT !.blocks[1].attrs = @ @@ [tier |-> Text("x")]]

Plain == [parses |-> TRUE, resources |-> NoScope, defaults |-> NoScope, pin |-> "none",
          ignored |-> {}, secrets |-> {}]

Main == AddressOf("resource", "db", "main")

With(database) == [Plain EXCEPT !.resources = Main :> database]

ContentA == With(Database(Text("a"), Text("s"), Text("ssd"), "true"))
ContentB == With(Mistaken(Database(Text("b"), Text("s"), Text("ssd"), "false")))
ContentV == With(Database(Var("e"), Text("l"), Text("hdd"), "true"))
DefaultA == [Plain EXCEPT !.defaults = "e" :> "a"]
DefaultB == [Plain EXCEPT !.defaults = "e" :> "b", !.pin = "out"]
MCTorn   == [Plain EXCEPT !.parses = FALSE]
Leaky    == [Plain EXCEPT !.secrets = {"password"}]

MCContents == {ContentA, ContentB, ContentV, DefaultA, DefaultB, MCTorn, Leaky}

MCCorrections == {ContentA, ContentB}

MCSchema == [db |-> [allowed |-> {"engine", "size"}, top |-> {"engine"}, critical |-> TRUE,
                     inside |-> [storage |-> {"class"}],
                     nested |-> [storage |-> {"class"}]]]

Same(r) == [tip |-> r, fork |-> r, head |-> r, index |-> r, disk |-> r]

Tree(main, prod, vars_) ==
    [p \in DOMAIN MCKindOf |-> CASE p = "main.tf"      -> main
                                 [] p = "prod/main.tf" -> prod
                                 [] p = "vars.tf"      -> vars_
                                 [] OTHER              -> Missing]

Start == Tree(ContentA, ContentA, DefaultA)

\* A branch that changed one, or both, of the environments.
Branch(r) == [Same(r) EXCEPT !.tip = Start, !.fork = Start]

\* Both environments read the engine from a variable only the first has.
BothRead == [Same(Tree(ContentV, ContentV, DefaultA)) EXCEPT
                !.tip  = Tree(ContentA, ContentB, DefaultA),
                !.fork = Tree(ContentA, ContentB, DefaultA)]

\* A change that is staged, and another one beside it that is not.
Staged == [Same(Start) EXCEPT !.index = Tree(ContentB, ContentA, DefaultA),
                              !.disk  = Tree(ContentB, ContentV, DefaultA)]

MCWorlds == {Same(Start), Staged, BothRead, Branch(Tree(ContentB, ContentA, DefaultA)),
             Branch(Tree(ContentV, ContentB, DefaultA)),
             Branch([Tree(ContentV, ContentA, DefaultB) EXCEPT !["prod/prod.tfvars"] = Leaky])}

PlanChange(addr, actions, after) ==
    [address |-> addr, managed |-> TRUE, type |-> "db", actions |-> actions,
     before |-> [engine |-> "a"], after |-> [engine |-> after]]

Module == <<Segment("module"), Segment("m"), Segment("db")>>

Replaces == {PlanChange(Append(Module, Keyed("main")), {"delete", "create"}, "b")}
Updates  == {PlanChange(Append(Module, Keyed("main")), {"update"}, "b"),
             PlanChange(<<Segment("module"), Keyed("m"), Segment("db"), Keyed("main")>>,
                        {"update"}, "b"),
             PlanChange(Append(Module, Segment("old")), {"delete"}, "a")}

Job(mode, plan, autofix, post) ==
    [mode |-> mode, plan |-> plan, threshold |-> 1, ignored |-> {"large_blast_radius"},
     autofix |-> autofix, post |-> post]

MCJobs == {Job("refs", {}, TRUE, TRUE), Job("refs", Replaces, FALSE, FALSE),
           Job("refs", Updates, FALSE, FALSE), Job("staged", {}, FALSE, FALSE),
           Job("uncommitted", {}, TRUE, FALSE), Job("full", Updates, TRUE, FALSE)}
=============================================================================
