------------------------------- MODULE MCScan -------------------------------
(***************************************************************************)
(* A small repository: in main.tf a bucket two rules of one category speak *)
(* about and a database about to be replaced, in old.tf an accepted line,  *)
(* a variable file, and a plan that confirms the replacement.              *)
(***************************************************************************)
EXTENDS Scan, TLC

Risk(rule, category, severity, resource, more) ==
    more @@ [rule |-> rule, category |-> category, severity |-> severity,
             resource |-> resource, address |-> resource, file |-> "main.tf",
             origin |-> "terraform", type |-> "aws_s3_bucket",
             named |-> FALSE, directive |-> FALSE, extended |-> FALSE]

Destroy   == Risk("s3_force_destroy", "missing_lifecycle", "medium",
                  "aws_s3_bucket.logs", [named |-> TRUE])
Lifecycle == Risk("missing_lifecycle", "missing_lifecycle", "high",
                  "aws_s3_bucket.logs", [file |-> "main.tf"])
Moved     == Risk("force_new_change", "force_new_change", "high",
                  "aws_db_instance.main", [type |-> "aws_db_instance", extended |-> TRUE])
Broken    == Risk("unparsable_file", "incomplete_analysis", "high", "-", [type |-> ""])
Acl       == Risk("public_acl", "public_exposure", "high",
                  "aws_s3_bucket.old", [file |-> "old.tf", directive |-> TRUE])
Secret    == Risk("tfvars_credential_name", "tutorial_pattern", "critical",
                  "password", [file |-> "prod.tfvars", origin |-> "variables", type |-> ""])
Replace   == Risk("confirmed_replace", "confirmed_replace", "critical",
                  "module.db.aws_db_instance.main",
                  [file |-> "plan.json", origin |-> "plan", type |-> "aws_db_instance",
                   address |-> "aws_db_instance.main", named |-> TRUE])

MCRisks == {Destroy, Lifecycle, Moved, Broken, Acl, Secret, Replace}

MCTrees == {{}, {Destroy}, {Destroy, Lifecycle, Moved, Acl}, {Destroy, Broken, Secret}}

MCPlans == {{}, {Replace}}

\* Every rule of the pack; the credential rules of variable files are not in it.
Maturity ==
    [r \in {f.rule : f \in MCRisks \ {Secret}} |->
        IF r = "missing_lifecycle" THEN "validated"
        ELSE IF r = "public_acl" THEN "experimental" ELSE "stable"]

Strict  == [threshold |-> "medium", ignored |-> {}, excluded |-> {}, contradicted |-> {},
            maturity |-> Maturity, enforced |-> {"missing_lifecycle", "public_acl"}]
Lenient == [threshold |-> "high", ignored |-> {"confirmed_replace"},
            excluded |-> {<<"prod.tfvars", "tutorial_pattern">>}, contradicted |-> {"main.tf"},
            maturity |-> Maturity, enforced |-> {}]

MCConfigs == {Strict, Lenient}

MCJobs == {{"write_baseline", "plan"},
           {"baseline", "cloud", "sarif"},
           {"baseline", "plan", "license", "repo", "autofix", "codequality"},
           {"license", "post", "autofix", "local"},
           {"license", "repo", "post", "autofix", "sarif"}}

MCHosted == {LegacyKey(Moved), LegacyKey(Lifecycle)}
MCLegacy == {LegacyKey(Destroy)}
=============================================================================
