----------------------------- MODULE MCKnowledge -----------------------------
(* An instance of Knowledge for TLC.                                       *)
EXTENDS Knowledge

MCTypes == {"aws_db_instance", "aws_s3_bucket", "azurerm_storage", "google_sql", "random_pet"}
MCAttributes == {"name", "engine", "typo"}
MCProviders == {"aws", "azurerm", "google", "random"}
MCProviderOf == [type \in MCTypes |->
    CASE type \in {"aws_db_instance", "aws_s3_bucket"} -> "aws"
      [] type = "azurerm_storage" -> "azurerm"
      [] type = "google_sql" -> "google"
      [] type = "random_pet" -> "random"]
MCAlphabetical == <<"aws", "azurerm", "google", "random">>
MCSchemaless == {"random"}
MCFetchable == {"aws", "azurerm"}

Full == [wellFormed |-> TRUE, known |-> {"name", "engine"}, force_new |-> {"name"}, critical |-> TRUE]
Relaxed == [Full EXCEPT !.force_new = {}, !.critical = FALSE]
NoArguments == [Full EXCEPT !.known = {}]
Malformed == [wellFormed |-> FALSE, known |-> {}, force_new |-> {}, critical |-> FALSE]

Sound(provider, version, resources) ==
    [condition |-> "sound", provider |-> provider, version |-> version, resources |-> resources]
Unreadable(condition, provider) ==
    [condition |-> condition, provider |-> provider, version |-> <<>>,
     resources |-> [t \in {} |-> Full]]

Aws(version, db, bucket) ==
    Sound("aws", version, [t \in {"aws_db_instance", "aws_s3_bucket"} |->
                              IF t = "aws_db_instance" THEN db ELSE bucket])
AwsPart(version) == Sound("aws", version, [t \in {"aws_db_instance"} |-> Full])
Azure(version) == Sound("azurerm", version, [t \in {"azurerm_storage"} |-> Full])
\* A pack of another provider than the types it describes.
Foreign(version) == Sound("azurerm", version, [t \in {"aws_db_instance"} |-> Relaxed])

MCEmbedded == <<Aws(<<6, 2, 0>>, Full, NoArguments), Azure(<<5, 1>>)>>
MCAnswers == [p \in MCProviders |->
    CASE p = "aws" -> {Aws(<<7, 0>>, Full, Relaxed), Aws(<<6, 2, 4>>, Relaxed, Full),
                       Aws(<<>>, Full, Full), Aws(<<7>>, Full, Malformed), AwsPart(<<6, 1, 9>>),
                       AwsPart(<<7, 0, 1>>), Foreign(<<7, 0>>), Azure(<<5, 2>>),
                       Unreadable("unreadable", p), Unreadable("outdated", p), Unreadable("damaged", p)}
      [] p = "azurerm" -> {Azure(<<5, 1, 1>>), Unreadable("outdated", p)}
      [] p = "google" -> {Sound("google", <<4>>, [t \in {"google_sql"} |-> Full])}
      [] p = "random" -> {}]

Term(op, version) == [operator |-> op, version |-> version]
Pins == {{}, {Term("?", <<>>)}, {Term("", <<6, 2>>)}, {Term("~>", <<6>>)}, {Term("~>", <<6, 2>>)},
         {Term("~>", <<6, 2, 0>>)}, {Term("~>", <<6, 1, 5>>)}, {Term(">=", <<6, 2>>), Term("<", <<7>>)},
         {Term(">", <<6, 2, 0>>), Term("!=", <<7>>)}, {Term("<=", <<6, 2>>), Term("?", <<>>)}}

Edited == [attributes |-> {"name", "typo"}, changed |-> {"name"}, guarded |-> FALSE]
Guarded == [attributes |-> {"name"}, changed |-> {}, guarded |-> TRUE]

Pinned(pin) == [p \in MCProviders |-> IF p = "aws" THEN pin ELSE {}]
Cloud(pin) == [named |-> {"aws"}, blocks |-> [t \in {"aws_db_instance", "aws_s3_bucket"} |-> Edited], pins |-> Pinned(pin)]
Others == [named |-> {"azurerm", "google", "random"}, blocks |-> [t \in {"azurerm_storage", "google_sql", "random_pet"} |->
                          IF t = "random_pet" THEN Guarded ELSE Edited],
           pins |-> Pinned({Term("=", <<1>>)})]
\* Labels without quotes, and a comment that holds a quoted one.
Bare == [Others EXCEPT !.named = {"aws"}]

MCRepositories ==
    {[path \in {"main.tf"} |-> Cloud(pin)] : pin \in Pins}
    \cup {[path \in {"main.tf", "env/main.tf"} |->
              IF path = "main.tf" THEN Cloud(pin) ELSE Others] : pin \in {{}, {Term("~>", <<7, 0>>)}}}
    \cup {[path \in {"main.tf"} |-> file] : file \in {Others, Bare}}

MCArguments == [license : BOOLEAN, providers : {<<>>, <<"google", "aws">>, <<"aws", "aws">>}]
=============================================================================
