------------------------------ MODULE MCPublish ------------------------------
(***************************************************************************)
(* Instances of Publish.  Three revisions: the second has nothing to fix,  *)
(* the third brings lines of a fix into the diff and has one fix more than *)
(* the cap lets through.  The last file of its diff is one more than a     *)
(* client reads, and it holds the line of a fix.                           *)
(***************************************************************************)
EXTENDS Publish

Fix(m, L) == [marker |-> m, lines |-> L]

Acl == Fix("acl", {1})
Iam == Fix("iam", {2, 3})
Pin == Fix("pin", {7})

MCFixes == <<<<Acl, Pin>>, <<>>, <<Pin, Iam, Acl>>>>
MCDiff  == <<<<{1, 2}>>, <<{1}>>, <<{1}, {2, 3}, {7}>>>>
=============================================================================
