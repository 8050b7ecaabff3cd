# A verification of tf-predeploy-firewall in TLA+

The scanner reads the Terraform changes of a pull or merge request, reports what is
dangerous in them, and decides with its exit code whether the merge is blocked. These
modules model what makes that decision trustworthy: what happens to a finding between the
rule that raises it and the reports, what the exit code says whatever else fails, what the
files that outlive a scan hold after a crash, and what the code host ends up showing.

Paths below are relative to `src/tfpdf/` unless they say otherwise.

## The system

| Part | State | Operations | Hard behaviour |
|---|---|---|---|
| `cli/main.py`, `cli/pipeline.py`, `cli/config.py`, `cli/arguments.py` | one scan: options, configuration, findings, verdict | `main`, `execute_scan`, `collect_findings`, `_publish_reports` | every step can fail; some failures end the scan, others are warnings; the order of the filters |
| `ignore.py`, `baseline.py`, `cli/orgpolicy.py` | the baseline file, hosted waivers | `apply`, `apply_path_rules`, `load`, `write`, `apply_waivers`, `report_usage` | what is removed and what is only marked; two file formats; a crash while writing; lost answers |
| `rules/engine.py`, `rules/incomplete.py` | scopes and provider constraints per directory | `run`, `ScopeCache` | files that do not parse; two revisions at once; pinned providers |
| `rules/plan.py`, `rules/changedattrs.py`, `planjson.py` | none | `run_plan_rules`, `deduplicate_force_new_against_plan` | addresses of modules and instances compared with those of the source |
| `ruledef/severitycheck.py`, `cloudread.py`, `cloudname.py` | one AWS session | `open_access`, `observe_contents`, the three severity checks | lookups that fail; what absence proves |
| `cli/terraformscan.py`, `diff/` | the git repository | four modes, four kinds of file | the source changes between two reads |
| `cli/autofix.py` | none | `propose`, `accept_local` | a second read of the source, a paid service, a file the user is editing |
| `licensing/rulepacks.py`, `_httpjson.py` | the pack and its tag, on disk, shared by the scans of a runner | `fetch_rule_pack` | two files without a lock, crashes, cut connections, staleness |
| `cli/forges.py`, `githubpr.py`, `gitlabmr.py`, `forge.py`, `report/review.py` | the comments of the request, at the host | `upsert_comment`, `post_suggestions` | a sequence of requests; pushes in between; lost answers; pages; a cap |
| `report/` | none | five renderers | which findings each channel leaves out |
| `rules/` detectors, `ruledef/`, `customrules.py`, `terragrunt.py`, `tfvars.py` | none | pure functions of one file | heuristics; data of the model |
| `hcl/`, `parser/` | none | lexer, parser, static evaluation | error recovery, termination |
| `schema/loader.py`, `providerversion.py`, `cli/providers.py` | the packs in force | `load_knowledge_base`, `load_with`, lookups, version constraints | some packs fetched, some cached, some rejected; a release recorded for a provider and a pack that answers for a type |
| `tools/forcenew-extractor/`, `benchmarks/` | none | offline | not part of a scan |

They interact in one direction. `main` calls `execute_scan`; that calls `collect_findings`
(`diff/`, then `licensing/` through `load_knowledge_base`, then `rules/engine.py`, `rules/plan.py`
and the variable files), then marks what the baseline and the waivers accept, decides, reports
usage, lets `autofix` propose corrections, prints and publishes. The parts share no memory
with another process: scans meet only in files (the baseline, the pack cache, the source)
and at the code host.

What makes each part correct:

* the pipeline: nothing found is lost without a reason the user gave; the verdict is that
  of the report; a failing service moves neither;
* the baseline: it accepts what was in it when it was written and nothing else, and a crash
  does not destroy it;
* the pack cache: no scan uses what no connection delivered, a body that is renewed is the one
  the server confirmed, a new release arrives in the end;
* file collection and the rule engine: a change that replaces a resource is reported whatever
  the mode, a finding of full severity is a change the request makes, and a plan hides only
  what it confirms;
* corrections: what is written over is what the correction was computed from;
* the HCL front end: it ends on every file, rejects what it did not read whole, and claims no
  value a plan could contradict;
* the schemas: a licensed pack takes away only what it describes itself or what its release is
  pinned away from, a pack that was asked for is not missing in silence, and a claim stands or
  falls with the release it was made from;
* a team's rule pack: what the scan announces is what runs, and a silent guard has judged;
* publication: one summary and no suggestion twice as far as the clients read, none against
  another revision, every applicable one in the end.

## The modules

| Module | Models | How it corresponds to the code |
|---|---|---|
| `Findings` | severities, suppression, acceptance, maturity, cloud ratings | pure operators on sets of findings, one per function; a *risk* is what a rule says about one revision, a *finding* is a risk on its way through the pipeline |
| `Gate` | what a scan promises to the pipeline that runs it | abstract: at most one report, no failure after it, a verdict that agrees with it |
| `Scan` | `main`, `execute_scan`, `collect_findings`, `orgpolicy`, `autofix.propose`, the baseline file | `pc` names the next step; one action per step that reads, decides, writes or can fail; `Kill` between any two; `EditSource`, `NewPlan`, `Reconfigure`, `DropBaseline` are what people do; `TheGate` is the refinement mapping |
| `PackCache` | `fetch_rule_pack` and the two files of a pack | one action per file operation and per answer; any number of scanners share the disk |
| `Publish` | `post_to_pr`, `post_suggestions` and both clients | one action per request; `thread` and `inline` are what the host keeps; pushes and human comments interleave |
| `Sources` | `diff/`, `cli/terraformscan.py`: which files each mode lists, and the revision on each side | a revision is a function from paths to contents; the operators are the git calls |
| `Engine` | `rules/engine.py`, `parser/scope.py`, `rules/schema_checks.py`, `rules/lifecycle.py`, `rules/changedattrs.py` | pure operators on the contents of a file: scopes, the schema rules, changed attributes, the passes over the findings |
| `PlanRules` | `rules/plan.py`, `planjson.py` | the three plan rules and the superseding of static findings |
| `Analysis` | `collect_findings` over those three, and `cli/autofix.py`, while other people work | one action per git call, per file read and per write; `Edit`, `Stage`, `Commit` and `BaseMoves` interleave with all of them |
| `Lexer` | `hcl/lexer.py` | one action per token or piece of a template; `stack` is the mode stack, `stalled` the count of tokens without progress |
| `Expressions`, `Values` | `hcl/ast.py`, `hcl/traversal.py`, `hcl/values.py` | the nodes, and what each is worth when the worth of its parts is known: `Combined` is `value` and `References` is `variables` of every node class, given what the calls on the parts returned; nothing in it is recursive |
| `Parser` | `hcl/parser.py` | one operator per method, given what the methods it calls read further on; `AllReads` ties them together, call by call, and gives up below a depth no file reaches |
| `SourceFile` | `parse_config`, `_parse_body` | text, tokens, tree; a file with a diagnostic is rejected whole |
| `Trees` | | recursion over a tree of nodes that hold their parts: what each place answers from the answers below it |
| `Evaluate` | `value` and `variables` of a whole expression, `parser/` | ties the knot: `Value` is `Combined` over the `Value` of the parts; then scopes, attributes, resources |
| `Language` | `build_scope`, `parse_file_with_context` | composes them: the tree of `SourceFile`, its scope, its resources |
| `RulePack` | `ruledef/ruledef.py`, `ruledef/merge.py`, `rules/pack.py`, `rules/declarative.py`, `rules/unresolved.py` | a team's file from `load` through `merge` to the detectors; one action per turn of a loop |
| `Versions` | `providerversion.py` | a release is the sequence of its components, a constraint the set of its pieces; `Pessimistic` says what `~>` means to Terraform |
| `Knowledge` | `load_knowledge_base`, `schema/loader.py`, `cli/providers.py`, and `drop_findings_the_pinned_provider_contradicts` | one action per turn of the loops that fetch and overlay; the rules ask `Resolves`, the pins are compared with `Records` |
| `ScanProofs`, `PackCacheProofs`, `PublishProofs`, `AnalysisProofs`, `FrontEndProofs`, `RulePackProofs`, `KnowledgeProofs` | theorems about them | see below |
| `ParserProofs` | what each method of `Parser` promises, for `FrontEndProofs` | see below |
| `MCScan`, `MCPackCache`, `MCPublish`, `MCAnalysis`, `MCLanguage`, `MCRulePack`, `MCKnowledge` | instances for TLC | see below |

`Scan` and `Analysis` look at `collect_findings` from two sides. `Scan` takes the risks of a
revision as given and follows them to the exit code and the reports; `Analysis` computes
them from the files, and stops where `Scan` goes on. `Engine` takes the contents of a file as
given; `Language` says how a text comes to have them.

Abstractions worth knowing:

* The order of findings in a report is left out of `Scan`: findings are a set. No decision
  depends on it.
* A rule is a constant: which risks a revision holds, whether a directive covers a line,
  whether a path rule matches a file, whether a provider is pinned, is data of a risk or of
  a configuration, and TLC and the proofs range over it. The *use* of that data, by which
  filter, on which findings, in which order, is the model.
* A risk whose file does not parse is not raised; the `unparsable_file` risk of that file is.
* A cloud lookup is a choice among the answers `observe_contents` can give for the type.
* An edit of the source matters only to the step that reads it next, so `EditSource` is
  enabled where a read follows: before the scan and before the variable files.
* `Autofix` is one step of `Scan`: the second collection, the requests and the writes of
  accepted corrections, with each way it can end. `Analysis` takes it apart.
* In `Analysis` the contents of a file are a record: its resources, the defaults of its variables, the
  provider it pins, what its directives silence. An expression is a text or a reference.
* In `Lexer` a text is a sequence of symbols: a punctuation character, a blank, a line end, or
  a word, which stands for a run of letters or digits. Numbers are whole and without exponents.
* In `RulePack` a pattern is the set of the texts it finds, and a predicate (`entropy`) is a
  property of a value.
* In `Knowledge` a block stands for all blocks of its type in a file, and a schema has no nested blocks.
  `PackCache` says what happens to a pack on its way to the disk; here an answer is a body, or none.
* In `Publish` a fix is its marker, which is what both clients compare, and the set of
  lines it replaces; the thread keeps, of each comment, only whether it is a summary and of
  which revision.

## What the runs check

Runs that pass:

| Run | Instance | Shows |
|---|---|---|
| `scan` | seven risks (two rules of one category on one bucket, a licensed ForceNew guess and the plan that confirms it, a file that does not parse, a line with a directive, a credential in a variable file), four states of the source, two configurations, five command lines | `NoSilentLoss`, `ExitIsVerdict`, `EveryChannelShowsTheCause`, `BaselineIsExact`, `RecordedIsVerdict`, and that `Scan` implements `Gate` |
| `pack` | two scanners, two releases, crashes, failed writes and answers that are cut short, under fairness | `NeverHalfAPack` whatever they do; `AloneIsCorrect` and `CacheCatchesUp` of the behaviours in which scans follow one another and answers arrive whole |
| `publish` | one pipeline at a time, both hosts, three revisions, two fixes under the cap and one over it, one comment of others, lists of up to six entries, of which the clients read two, under fairness | `OneSummaryInReach`, `NoDuplicateSuggestion`, `AnchoredWhereScanned`, `EveryFixOffered` |
| `analysis` | two environments that declare the same database, a file of defaults and one of values; six repositories to start from (one with a staged and an unstaged change); four modes, three plans, with and without corrections | `ForceNewReported`, `ConfidentChangesAreReal`, `DriftIsElsewhere`, `OnlyReplacementsGiveWay`, `NoEditOverwritten` |
| `language` | every argument of up to three fragments of the grammar, broken ones included; every string of up to three pieces, cut off anywhere; files whose expressions are built from seven atoms and one operator | `Nested`, `NeverStuck`, `TokensInOrder`, `EveryStepAdvances`, `LexingEnds` of the lexer; `AcceptedFilesAreClosed`, `CommentsStayOutside`, `NothingIsGuessed`, `ReferencesAreNamed` of what it feeds |
| `rules` | a built-in pack of five rules, every file of up to two out of fourteen entries, with and without `extends`, and blocks with settings that are written out, hidden and nested | `AnnouncedIsInForce`, `SwitchedOffIsSilent`, `NothingInheritedIsLost`, `ReplacementsKeepTheirRank`, `SilenceIsAJudgement` |
| `knowledge` | two providers with shipped packs, a third with neither pack nor schemas; licensed packs that are complete, partial, of another provider than the one asked for (with its own types, or with types of the other), refused or damaged; a file with bare labels and a comment that names a provider; `--providers auto`, an explicit list and one with a provider twice; pins with each operator | `JudgedByThePinnedRelease`, `FreeFindingsStay`, `LossIsAnnounced`, `PessimisticPinsThePrefix` |

Runs that find a violation, each of one sentence of the repository:

| Run | Contradicts | What happens |
|---|---|---|
| `scan_report` | `docs/architecture.md:94` "Network failures in optional services do not discard the local report." | an answer of the correction service that is cut short raises `http.client.IncompleteRead`, which `propose` and `main` do not name; the scan dies before it prints |
| `scan_baseline` | `baseline.py:148` "Write findings atomically" | `write_text` truncates the baseline first; a scan that stops there leaves half a file |
| `pack_race` | `licensing/rulepacks.py:89` "304 Not Modified: the cache is still correct, just stale-dated." | two scans store two releases, body of one beside tag of the other; the server confirms the tag, and the wrong body is renewed (`RenewedIsCorrect`) |
| `publish_pages` | `githubpr.py:45` "Replace the PR comment containing marker, or create one if absent." | the search reads one page of comments; a summary beyond it is not found and another one is created |
| `rules_narrowed` | `ruledef/ruledef.py:298` "Adding an org's own rule must not silently drop the built-in ones." | `_locations` walks the blocks the *first* rule of a group allows, for the whole group: a replacement of that rule with a narrower `block_types` turns the inherited rules behind it off in all other blocks |

### Bounds, and why they are enough

* `scan`: the parts of the pipeline treat findings one by one, except for superseding (two
  findings) and for a baseline or waiver key that two rules share (two findings). The
  instance holds a pair for each. Scans repeat without bound, so a baseline written under one
  source and configuration is applied under any other.
* `pack`: two scanners suffice for every interleaving of one write with one read or one write, and
  two releases for a pair that does not belong together. One scanner at a time is a condition
  inside the temporal properties (`Alone`), so that the same instance also holds the
  behaviours in which two overlap. `Expire` does not split a write: a day
  does not pass between the rename of a body and the write of its tag.
* `Pushes = 3` gives a revision that was scanned, one that overtakes it, and one that
  follows; the second has nothing to fix and the third one fix more than `Cap = 2`. The clients read
  ten pages of a hundred entries; here two pages of one, and `Room = 6` lets a list grow past them
  on either host, by suggestions or by a comment of somebody else. A full list takes nothing
  more (`Room`), so `EveryFixOffered` says that the fixes are there or the list is full (`Crowded`).
  `publish_pages` has pages of two, and two comments that push the summary off the first.
* `analysis`: `Edits = 1` change by other people per run, at any moment from before the listing
  to the last write; it may be an edit of the working tree, staging, a commit or a merge into the base branch.
  One is enough to separate any two reads. A run is one scan: nothing but the repository
  survives it. Two directories show that scopes stay apart, two files in one that a default
  declared beside a resource reaches it.
* `language`: three fragments open, cross and leave unclosed any two constructs. `MaxStall = 2`
  instead of 1000 is the tightest limit `NeverStuck` can hold for. `MCOutcomes` gives an unknown name
  a value of each type.
* `rules`: `MaxEntries = 2` holds each interaction of two entries (two of one group, a rule
  replaced and one switched off, an id twice). The narrowed entry of `rules_narrowed`
  is the only one the two instances differ by.
* `knowledge`: one licensed pack per kind of answer and two turns of each loop hold every pair of packs
  in either order; the releases and pins include versions of one, two and three components.
* The guards of the modules and the sets of each `MC` module are all the bounds there are.

### Fairness

* `PackCache`: days go by (`Expire`); a scan goes on until it ends; reading, downloading and
  writing, tried again and again by scan after scan, succeed some time (strong fairness,
  because a crash or a failure disables the step until the next scan). Nothing is assumed
  about `Kill`, failures or the server's releases.
* `Publish`: a pipeline takes its steps until it ends and pipelines keep being run, as
  they do for a request that stays open; a request that is sent again and again by pipeline after
  pipeline succeeds some time. Pushes and comments need no fairness; both are bounded.
* `Language`: the lexer's loop is run until it ends (`WF` on `Tokenise`); nothing can interrupt it
  short of the process. This is the fairness of any single-threaded program.
* `Scan`, `Analysis`, `RulePack` and `Knowledge` check safety only: a scan is a straight line of calls with
  time limits, and nothing in it waits for another process.

## What is proved

For every value of the constants, subject to the assumptions each module names
(`RisksAssumption`, `WorldAssumption`, `PackAssumption`, `PublishAssumption`; of `Analysis`
`PathsAssumption`, `WorldsAssumption`, `ContentsAssumption`, `JobsAssumption` and `EditsAssumption`, which give the
constants their shape, and `AddressesAssumption`: addresses are formed as Terraform forms them; of `Lexer`
`TextsAssumption`, `WordsAssumption`, `StallAssumption`; of `RulePack` `MaxEntriesAssumption` and
`BuiltinAssumption`, which says that the built-in pack passes its own validation; of `Knowledge` `KnowledgeAssumption`: shipped packs parse and
each provider has a place in the order):

| Theorem | States |
|---|---|
| `ScanProofs!TypeCorrect`, `PackCacheProofs!TypeCorrect`, `PublishProofs!TypeCorrect` | the type invariants |
| `ScanProofs!VerdictIsExact` | with a report printed the exit code is its verdict; without one it is 2, or 1 of an uncaught exception |
| `ScanProofs!CauseIsShown`, `BaselineExactness`, `LedgerIsTrue`, `NothingIsLost` | the other safety properties of `scan` |
| `ScanProofs!Refinement` | `Scan` implements `Gate` |
| `PackCacheProofs!HalfPacksNeverUsed` | any number of scanners, crashes and answers cut short: what is used was delivered as it is |
| `PackCacheProofs!OneScanIsCorrect` | `AloneIsCorrect`, for any number of scanners |
| `PublishProofs!AnchorsHold` | any number of pipelines |
| `PublishProofs!NeverTwice` | one pipeline at a time, any page limits: a second posting only beyond what the clients read |
| `PublishProofs!OneSummaryAtATime` | `OneSummaryInReach`: one pipeline at a time, any page limits and any comments of others |
| `AnalysisProofs!TypeCorrect`, `ForceNewIsReported`, `ConfidenceIsEarned`, `DriftIsNotTheRequest`, `PlansHideOnlyWhatTheyConfirm`, `NoEditIsLost` | the six properties of `analysis`, for every repository, schema, plan and sequence of edits |
| `FrontEndProofs!LexerTyping`, `FramesNest`, `LexerNeverStuck`, `RangesInOrder`, `LexerAdvances` | the safety properties of the lexer, for every text; `LexerSafe` is the invariant behind them |
| `FrontEndProofs!TokensShowTheNesting` | for every text the tokens open and close strings, heredocs and interpolations as the frames do, and a file read to its end leaves a quotation open only around an open interpolation |
| `FrontEndProofs!FileSafe`, `LanguageSafe`, `AcceptedFilesClose`, `RangesLeaveComments` | the two properties of the parser, for every text; `FileSafe` is the invariant behind them, `LanguageSafe` the same while the file is evaluated |
| `FrontEndProofs!ArgumentsAreTrees` | the expressions of an accepted file are finitely deep and well formed, and their references start with a name |
| `FrontEndProofs!NoValueIsGuessed`, `ResolvedLiteralsAreNamed` | the two properties of the evaluation, for every text, every set of unknown names and all the values a plan may give them |
| `FrontEndProofs!KnownValuesStay`, `PlansChangeNoKnownValue` | what an expression is worth without a diagnostic, it is worth in every scope that knows more, and so whatever a plan adds |
| `FrontEndProofs!ValuesDependOnReferences`, `ResolvedValuesHaveReferences` | scopes that agree on the references an expression reports give it the same worth; an expression a scope changes reports one |
| `RulePackProofs!RulePackTyping`, `SwitchedOffRulesAreSilent`, `AnnouncementsAddUp` | for every built-in pack, every file and every block |
| `RulePackProofs!InheritedRulesStay` | every built-in rule that a file does not name is in force, in the order it had |
| `RulePackProofs!MergeIsExact` | a merged pack holds these and the enabled rules of the file and nothing else, replacements in the place of what they replace, new rules behind, in the order of the file |
| `RulePackProofs!ReplacementsStayInRank` | the precedence of replacements in their group, for every pack, file and block |
| `RulePackProofs!SilenceIsEarned`, `NothingIsLost` | `SilenceIsAJudgement` and `NothingInheritedIsLost`, for every pack whose groups agree on their block types |
| `KnowledgeProofs!TypeCorrect`, `PessimisticIsRight`, `PinsJudgeTheRightRelease`, `LicensesOnlyAdd`, `LossesAreAnnounced` | the properties of `knowledge`, for all packs, answers, files and pins |

The arguments:

* `Scan`. `ExitIsVerdict` speaks of the end of a scan and is not inductive. The invariant
  `Inv` adds what holds on the way: what each mark means at each step (`Marks`: advisory for the
  rule alone, waived for the baseline or a waiver alone), that the verdict is taken from
  findings which stand still from then on and that each report was rendered from them
  (`Verdict`), that a scan can end with an error only before it shows anything (`Ending`),
  that usage was told the verdict (`Ledger`), and that a version 2 baseline holds the keys
  of what was written (`Faithful`). `Invariance` proves it step by step; four of the properties
  and the refinement follow from it. `NoSilentLoss` needs the trail of each risk besides: `Trail`
  says, step by step from the raising of findings to the reports, that a risk which was read is
  `Told` (in the list, excused, superseded by a finding of the plan that is in the list, or
  hidden by a file that is reported instead). Later steps only mark findings, and marking keeps them.
* `PackCache`. `HalfPacksNeverUsed` needs only that every body anywhere is one that a connection
  delivered (`answered`), which the rename preserves and a write in place would not. `OneScanIsCorrect` needs the pair on disk: outside a write the tag is 0 or
  that of the body, and during one it is 0 or the old one while nobody reads. That is what
  a second scanner breaks, and what `pack_race` exhibits.
* `Publish`. `AnchorsHold` carries the comparison of the head to the posts: from the check
  on, `at` is the scanned revision for a pipeline that knows it. `NeverTwice` carries
  the lookup: what is left in the batch is not on the request within reach, has no marker twice, and
  a discussion that was created leaves the batch, or the answer was lost and the loop has ended.
  Lists only grow at their end, so that what has got past the reach stays past it (`ListsGrow`).
  `OneSummaryAtATime` carries what the search found to the write: the comment it will replace is a
  summary still, and if it found none, every summary lies past the search's reach (`SearchHolds`).
* `Analysis`. `NoEditIsLost` carries the comparison to the write (`LookedAt`): from the moment the
  file was compared it is what the correction was computed from, or `late` is set.
  `PlansHideOnlyWhatTheyConfirm` carries what is missing from the list (`Kept`): nothing but the
  silenced until the plan is read, then what the plan supersedes, each with its plan
  finding in the list; the steps after it only add. The other properties compare the end of a scan
  with the repository it began from, through three invariants that follow the data.
  `Steady`: unless the tree was edited during the reading, each file of the scan is the one listed,
  each cached scope is that of a file of its directory, and each confident finding was raised from
  one file with that scope; a tree in step then gives every file of the directory the same scope,
  and a comparison of two literals is a real change (`ConfidenceIsEarned`).
  `Traced`: what is kept as changed for an address that one inspected file alone has is what that file
  changed, and each drift finding was made from it. An address with one instance key at most is cut to
  its type and name (`KeyIsCut`), which is where the last condition of `DriftIsElsewhere` is needed.
  `Complete`: a path that is listed and readable is still to be read or was read, the pins of
  a directory are those its files state, and the findings of each inspected file are among those raised.
  `ForceNewIsReported` then walks from the change to the report: git lists the path in
  each mode (`ChangedFileWanted`; `Ordered` loses nothing because the rank of a path is a bijection,
  `RankIsBijection`), the rule raises the finding (`ChangeFound`), and each way it can vanish
  from the list is one the property names.

* `Lexer`. `NeverStuck` is not inductive: a token without progress is harmless only
  because of what comes next. `Progress` adds it: an open literal has moved on from the last
  token or is about to; of two empty tokens in a row the first closes a string or heredoc, so
  that code is current when one has been emitted and the next token there is not empty, or is
  the end of the file. The count therefore never passes 1, whatever the nesting, and any limit of two
  or more does. `Order` carries the start of the open literal, which `TokensInOrder`
  needs when it is emitted. `Stepwise` has one lemma per action. `TokensShowTheNesting` is about the
  tokens alone, which do not record what was open behind them: `TokensNest` therefore says that
  there is a trace of the modes, one entry per token, that starts with code, changes at each token
  as its type says, and ends with the modes of the stack. `NestStep` extends the trace by one
  entry; `CodeMoves` and `QuotationMoves` show that no step changes the modes without the token
  that says so.
* `Parser`. An accepted file is one about which no method raised a diagnostic, and no method
  looks at the whole of it: that its brackets pair up has to come out of what each call promises of the
  tokens between its start and its end. The promises (`SoundInCode`, `SoundInText` and `SoundInBodies` in `ParserProofs`) are in two parts. It
  stays in one context: the modes the trace shows between two tokens, and, outside
  sequences, the brackets that wait for their closing one, as `Weigh` counts them, are at the end of an expression what they were
  at its start, and one lower or higher where the method takes the closing bracket or the opening one with it. And what it
  read lies where it says: an expression ends behind its last token, which is no line end, the arguments of
  a body each at the end of such a token. Each method keeps its promise if the calls
  it makes keep theirs (one lemma per method, `ConditionalSound` to `BodySound`); a call that is given up, or recovers,
  raises a diagnostic, which no caller drops, and promises nothing. `EveryLayerSound` concludes by the least
  depth at which a call could break its promise. `FileInv` joins that to the lexer: the trace of
  `TokensShowTheNesting`, the end of file as last token, and the tree as `ParseConfig` of the tokens.
* `RulePack`. `Inv` carries what `load` has validated at each phase and that no rule of a
  merged pack is switched off. `Counted` follows the loop of `merge` position by position: what it has
  passed is accounted for in exactly one counter, what lies ahead in none; at the end of
  the built-in pack every override was met, so that the second loop adds exactly
  the others. `KeptSoFar` says where an inherited rule already lies in the pack. `Placed` says the
  rest: where each rule of the pack comes from, which rules of the file are in it already, and in which
  order they stand; `Collected` that each detector which was passed added all it
  detects, and that nothing else was added. A place that a rule of a group answers is then reported by that
  rule or one before it (`AnsweredIsReported`), and what is reported comes from the first
  rule that answers (`FindingsAreFirst`), which is what the precedence of replacements needs.
  The two theorems about lost findings assume `GroupsAgree`: the rules of a group name the same block
  types. `_locations` walks the blocks of the first rule for all of them, so without the
  assumption both properties fail (`rules_narrowed`), and nothing in the code checks it:
  `Pack._index` compares scopes only (`ruledef/ruledef.py:395`). The built-in pack meets it: its one
  group, `credential_value` (`ruledef/rules.py:141`), names no block types in any rule.
* Expressions. `KnownValuesStay` and what follows from it speak of any set `E` of expressions closed under parts and
  finitely deep (`Syntax`), and of any function that satisfies the equation of `value` on it (`Evaluates`: one step of
  `Combined`). If an expression had another worth in the scope that knows more, there
  would be one of least depth (`LeastOf`); its parts keep theirs, and one lemma per
  kind of node shows that it keeps its own (`ExpressionStays`). The cases that need more than that are a template,
  where the part that stopped it stops it again (`TemplateStays`), a conditional, where
  the branch that is not taken may change, and a path into a value (`Walk`). `PartsAreRead`
  says that the references of a part are among those of the whole; it needs that flattening a sequence
  of sequences keeps every element (`FlattenHolds`).
* From files to expressions. Two facts tie that to `Language`. The parser only builds such expressions: each method
  keeps a second promise, that what it returns without a diagnostic is `Built`, a member of some
  level of a growing family of sets (`Grows`), where each expression has its parts on the level below,
  as many as its class takes, and a reference starts with a name (one lemma per method, `ConditionalYields` to `PrimaryYields`, and
  `EveryLayerYields` by the least depth again); it needs that no identifier is empty, which `Finished` carries along
  with the tokens. And on a level `Value` and `Variables` are what the theorems speak of: `AnswersExist` builds an answer level by
  level, `AnswerOfTree` shows that it solves the equation `FoldTree` chooses a solution of, at all places of the
  tree, and that every solution agrees with it at the root (`ValueIs`, `VariablesAre`). `NoValueIsGuessed` is then
  `PlansChangeNoKnownValue`; `ResolvedLiteralsAreNamed` is `ResolvedValuesHaveReferences`, with
  `RootedRenders` for the name that is shown.
* `Knowledge`. `Inv` follows both loops: a provider they have passed is `Met` (fetched, or announced
  as unavailable), an overlay they have passed is `Accounted` (in force, or announced as
  rejected), and the shipped packs stay below all others (`ShippedBelow`). `LicensesOnlyAdd` then finds, for a claim that
  is missing, the licensed pack that answers for its type or records its release. For
  `PinsJudgeTheRightRelease` the recorded pack is the one that answers for the type or lies above it
  (`SomeIsRecorded`); above it, it leaves the type out, which is the second of the two cases the property names. `~>` needs a lemma about lexicographic order: below the ceiling
  and not below the version is to share all components but the last.

What stays with TLC:

* `CacheCatchesUp`, `EveryFixOffered` and `LexingEnds`: liveness under fairness is out of the
  prover's reach; `LexerAdvances` is the safety half of `LexingEnds`.
* What `Resources` makes of an accepted file (`BuildScope`, nested blocks, `prevent_destroy`) is evaluated by TLC in `language` and
  feeds no property of its own.

Induction over numbers is available to the proofs only in the form of a least counterexample
(`NatLessThanWellFounded` and `WFMin`); the theorems that take a predicate as a parameter are not.

## Seen while modelling

Where the code and its documents part, or the code does less than a reader would expect, and
no run exhibits it, because no property above claims the contrary:

* Publication. Both clients read at most ten pages of a hundred entries of a list (`_MAX_PAGES`,
  `githubpr.py:137` and `154`, `gitlabmr.py:63`, `152` and `167`), oldest first on GitHub, newest first on
  GitLab, and say nothing when there are more: past them a suggestion is posted again, on GitLab a second summary
  too, and a fix in a file that was not read counts as outside the diff. `OneSummaryInReach` and `NoDuplicateSuggestion`
  say that nothing else does it.
* Markers. The marker of a fix leaves its lines out and is entered before the diff is
  consulted (`githubpr.py:102`): of two fixes that share one, the first of them outside the diff
  hides the second, inside it. `forge.py:50` promises to skip ranges. `EveryFixOffered` is
  checked with distinct markers.
* Revisions. In refs mode the listing starts at the merge base and the old contents come from
  the tip of the base branch (`diff/git.py:136`): what the base branch changed meanwhile
  is attributed to the request. The properties of `Analysis` are conditional on `Current`.
* Names of files. Paths git prints in quotes are not found (`Quoted`), and `**/terragrunt.hcl`
  does not match the one at the root (`PathspecMatches`); the full scan sees both.
  `_uncommitted_files` takes a `git diff` that failed for one with nothing to list.
* Scopes. `ScopeCache` builds the scope of a directory from the supplied contents of its first
  file and, for the others, from the disk. The properties speak of a
  tree in step (`InStep`).
* Addresses. `changed_attrs` is kept per address, so the same address in another directory
  overwrites it; a plan address with two instance keys is cut from the first
  bracket to the last (`rules/changedattrs.py:62`). `DriftIsElsewhere` excludes both. A renamed
  resource has no base to be compared with.
* Corrections. Between the last look at the file and the write an edit is lost (`late`
  in `NoEditOverwritten`); a failed write truncates the file; the loop over the corrections ends at the
  first file that fails.
* Expressions. `is_literal` is set for values that are not wholly known, such as a
  template with a directive, which the unverified-setting rule then takes for judged; what a directive is worth
  is no name's value, so the completions of `NothingIsGuessed` leave it unknown, and a comparison
  of a tuple around one escapes that property;
  `[*` needs no `]`; `%{ ( }` leaves the bracket depth raised; an escape beyond the last code
  point raises an error nobody catches (`crashed` in `Lexer`); `a.0.1` is read as index 0;
  deep nesting ends in `RecursionError`. Behind a `[*` without `]` the range of the argument reaches over the
  next token, which may be the line end behind a comment (`hcl/parser.py:374`): the exception `CommentsStayOutside` makes.
* Rule packs. A stand-alone pack runs rules marked `disabled`; a predicate of another build is a
  `KeyError` during the scan (`Crash` in `RulePack`); findings of the plan rules and of the variable files
  do not consult the team's pack.
* Pack cache. `read(max_bytes)` returns what came before the connection dropped; the half is kept with the tag
  of the whole pack, and the server confirms it (`_httpjson.py:53`). The code has no defence against it, so
  that `AloneIsCorrect` and `CacheCatchesUp` speak of behaviours in which each answer arrived whole (`WholeAnswers`);
  `NeverHalfAPack` holds in all.
* Providers. `detect_providers` searches for quoted labels at the start of a line (`cli/providers.py:50`), and
  promises "all provider prefixes in scanned files"; the parser takes bare labels too (`hcl/parser.py:207`). A
  file whose only resource is `resource google_sql x {}` is scanned without a schema and without a word,
  and a provider that stands only in a heredoc is fetched for. In `Knowledge` the two are apart (`named`, `blocks`),
  and `LossIsAnnounced` speaks of the providers the search finds.
* Schemas. `coverage` records the release of a provider's last pack ("the one lookups actually resolve
  against", `schema/loader.py:190`), but a lookup passes over a pack that lacks the type or holds a malformed
  entry for it: the claims made from the pack below are then dropped, or kept, by the wrong release. A pack of
  another provider that describes the type does the same. `JudgedByThePinnedRelease` names both cases; the instance
  has packs for each. A damaged deflate stream raises `zlib.error`,
  which `parse_pack` does not turn into `PackError`: the scan ends (`Break` in `Knowledge`, `Coverage` in `Scan`)
  where `cli/pipeline.py:142` promises "warning and retaining available coverage on failure". A `provider_version`
  such as `6.0.0-beta1` makes `parse_version` raise `ValueError`, and `resources` given as a list an `AttributeError`;
  both end the scan. The warning about a rejected pack (`cli/pipeline.py:173`) says "that provider's types" and names no
  provider; it holds the error, which has the pack's id if the document could be read and nothing if not (`Subject`).
* Exit codes. `cli/main.py:1` gives 1 to a blocked scan and 2 to an error, but Python ends with 1 on an exception
  `main` does not catch: a threshold that is no integer (`cli/config.py:101`), a damaged pack, an answer of the
  correction service that is cut short. The caller sees a block (`ExitCode`). In the model `Traceback` is apart
  from `Blocked` only so that `ExitIsVerdict` can say when it is which: a scan that ends with 1 and
  printed nothing has not blocked.

## What is not modelled

* The detectors that are functions of one text: IAM statements, unpinned versions, entropy, custom rules,
  and the checks of variable and Terragrunt files. Their results are data of a file in `Analysis` and
  of a risk in `Scan`; which files they see, when, and what becomes of their findings is modelled.
* The renderers' layout; the YAML of the built-in rules and the documentation of categories.
* How a correction is cut into a suggestion (`replacement`, `rules/fix.py`): text layout.
* Matching of globs and directives, and the cutting of `required_providers` out of a file: data of a risk or a file.
* The dry run of custom rules and the helper commands: they print and exit.
* The request for a second reviewer: one request that reads nothing and is repeated harmlessly.
* Offline tools: `tools/forcenew-extractor/`, `benchmarks/`.
* Two pipelines of one request that both create the summary: the hosts offer no
  compare-and-set, the code does not claim it, and `OneSummaryInReach` is checked and proved for
  pipelines that run one at a time.
* Numbers other than whole ones: fractions, exponents, and the quotients `Decimal` gives (`hcl/ast.py:371`), where
  `Calculated` rounds towards zero. No property depends on a quotient.
* The functions Terraform offers in expressions: a call is unknown to the code as well.
* Comments that are deleted or edited by others, and a list that grows between two pages of one reading: a reading
  is one step of `Publish`.

## What would come next

1. The matchers (globs, directives) as operators checked against reference
   definitions over bounded inputs.
2. IAM statements and custom rules as further detectors beside `RulePack`.
