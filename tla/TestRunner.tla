----------------------------- MODULE TestRunner -----------------------------
(* The luatest runner (tslua-luatest/src/runner.ts): a test script declares   *)
(* suites, tests and hooks, which run at once (auto-run mode) or in run()     *)
(* (deferred mode), and ends with an exit status (index.ts).                  *)
(*                                                                            *)
(* A declaration is one step; so is an execution, whose bodies succeed or     *)
(* fail as the environment chooses.  A body that declares a test or calls     *)
(* run() gets an error and fails; one that calls test.only in deferred mode   *)
(* also leaves usedOnly behind.  run() may be called in a describe body too,  *)
(* whose suite it executes half collected; that the bodies it then executes   *)
(* may themselves declare something is left out, as are names, error texts    *)
(* and report lines.  An operator headed MISTAKE is used by no action.        *)
EXTENDS Naturals, Sequences, FiniteSets, SequencesExt

CONSTANTS
  MaxOps,     \* bound: declarations of a script
  MaxTests,   \* bound: those of tests
  MaxSuites,  \* bound: those of suites
  MaxHooks,   \* bound: those of hooks
  MaxFlagged, \* bound: those of skip, only or todo, and describe bodies that throw
  MaxFailing  \* bound: bodies that fail in one execution

VARIABLES
  nodes,     \* the declared suites and tests, in order; nodes[1] is the root
  pending,   \* the children of the root that have not been executed
  cut,       \* the children that run() executed while they were being collected
  open,      \* the describe bodies being collected, innermost last
  autoRun, usedOnly, executedTopLevel,
  results,   \* what has been reported: [node, status]
  exec,      \* the last execution: its log and what the environment chose
  exit       \* "none" while the script runs ("raised" while an error of run()
             \* leaves a describe body), then its exit status

vars == <<nodes, pending, cut, open, autoRun, usedOnly, executedTopLevel, results, exec, exit>>

Root == 1
Kinds == {"beforeAll", "afterAll", "beforeEach", "afterEach"}
Flags == {"plain", "skip", "only"}
NoHooks == [k \in Kinds |-> 0]
Suite(parent, flag) == [kind |-> "suite", parent |-> parent, flag |-> flag, hooks |-> NoHooks]
Test(parent, flag) == [kind |-> "test", parent |-> parent, flag |-> flag, hooks |-> NoHooks]

Body(t) == [node |-> t, kind |-> "body", nth |-> 1]
Hooks(tree, s, kind) == [i \in 1..tree[s].hooks[kind] |-> [node |-> s, kind |-> kind, nth |-> i]]

Suites(tree) == {n \in DOMAIN tree : tree[n].kind = "suite"}
Tests(tree) == DOMAIN tree \ Suites(tree)
Chain(tree, s) ==   \* eachChain: from the root to s
  LET up[n \in DOMAIN tree] == IF n = Root THEN <<Root>> ELSE Append(up[tree[n].parent], n)
  IN up[s]

(* ---------------------------------------------------- one execution ------ *)

(* e is what an execution works on: the tree, the children of its root,       *)
(* whether it executes the whole root, as run() does, and the choice of the   *)
(* environment: the bodies that fail, and those that fail in calling          *)
(* test.only.  A part of it adds an outcome: results, the bodies that ran, in *)
(* order, and usedOnly (only) as it leaves it.                                *)
Nothing(only) == [results |-> <<>>, log |-> <<>>, only |-> only]
Then(o, p) == [results |-> o.results \o p.results, log |-> o.log \o p.log, only |-> p.only]
record(node, status, only) ==
  [results |-> <<[node |-> node, status |-> status]>>, log |-> <<>>, only |-> only]

Children(s, e) == {n \in DOMAIN e.tree : e.tree[n].parent = s /\ (s = Root => n \in e.top)}

(* The nodes of S, in order, each adding part[n][only].                       *)
InTurn(S, part, only, e) ==
  LET done[n \in 0..Len(e.tree)] ==
        IF n = 0 THEN Nothing(only)
        ELSE LET before == done[n - 1]
             IN IF n \in S THEN Then(before, part[n][before.only]) ELSE before
  IN done[Len(e.tree)]

Failing(b, e) ==
  \/ b \in e.fails \union e.focusing
  \/ e.tree[b.node].flag = "threw"   \* the test that stands for a describe body that threw
AnyFailing(bodies, e) == \E i \in DOMAIN bodies : Failing(bodies[i], e)

attempt(bodies, only, e) ==
  [results |-> <<>>, log |-> bodies,
   only |-> only \/ (~autoRun /\ \E i \in DOMAIN bodies : bodies[i] \in e.focusing)]
runHooks(s, kind, only, e) == attempt(Hooks(e.tree, s, kind), only, e)

(* What a test and its suites say of it: focus wins only over the absence of  *)
(* focus, skip over everything.                                               *)
Focused(n, e) == e.tree[n].flag \in {"only", "threw"}

(* MISTAKE: the focus of a suite does not reach its tests. *)
RunsIfFocusedItself(t, skip, focus, only, e) ==
  ~skip /\ e.tree[t].flag \notin {"skip", "todo"} /\ (only => Focused(t, e))

shouldRun(t, skip, focus, only, e) ==
  ~skip /\ e.tree[t].flag \notin {"skip", "todo"} /\ (only => focus \/ Focused(t, e))

(* MISTAKE: a suite is entered for tests that are all skipped. *)
HasChildren(s, skipped, focused, only, e) == Children(s, e) # {}

(* In the recursions over the tree, d bounds how deep a suite goes.           *)
hasRunnable(s, skipped, focused, only, e) ==
  LET has[d \in 0..Len(e.tree)] ==
        [n \in DOMAIN e.tree |-> [outerSkip \in BOOLEAN |-> [outerFocus \in BOOLEAN |->
          LET skip == outerSkip \/ e.tree[n].flag = "skip"
              focus == outerFocus \/ Focused(n, e)
          IN d > 0 /\ \E c \in Children(n, e) :
               IF e.tree[c].kind = "test" THEN shouldRun(c, skip, focus, only, e)
               ELSE has[d - 1][c][skip][focus]]]]
  IN has[Len(e.tree)][s][skipped][focused]

NotRun(t, only, e) == record(t, IF e.tree[t].flag = "todo" THEN "todo" ELSE "skip", only)

(* Every test of s is reported without being run: as failed when a beforeAll  *)
(* has failed, skipped ones too.                                              *)
Unrun(inner, failed, e) ==
  [n \in DOMAIN e.tree |-> [only \in BOOLEAN |->
    IF e.tree[n].kind = "suite" THEN inner[n][only]
    ELSE IF failed THEN record(n, "fail", only) ELSE NotRun(n, only, e)]]
reportNotRun(s, failed, only, e) ==
  LET report[d \in 0..Len(e.tree)] ==
        [n \in DOMAIN e.tree |-> [o \in BOOLEAN |->
          IF d = 0 THEN Nothing(o)
          ELSE InTurn(Children(n, e), Unrun(report[d - 1], failed, e), o, e)]]
  IN report[Len(e.tree)][s][only]

(* MISTAKE: a test whose set-up failed is not torn down. *)
AfterEachIfSetUp(chain, broken, e) ==
  IF broken THEN <<>>
  ELSE FlattenSeq([i \in DOMAIN chain |-> Hooks(e.tree, Reverse(chain)[i], "afterEach")])

(* The afterEach hooks of all suites around a test, innermost first. *)
AfterEach(chain, broken, e) ==
  FlattenSeq([i \in DOMAIN chain |-> Hooks(e.tree, Reverse(chain)[i], "afterEach")])

(* The beforeEach hooks run outermost first, up to the suite where one fails. *)
BodiesOf(s, t, e) ==
  LET chain == Chain(e.tree, s)
      before(i) == Hooks(e.tree, chain[i], "beforeEach")
      broken == {i \in DOMAIN chain : AnyFailing(before(i), e)}
  IN FlattenSeq([i \in DOMAIN chain |-> IF \E j \in broken : j < i THEN <<>> ELSE before(i)])
     \o (IF broken = {} THEN <<Body(t)>> ELSE <<>>)
     \o AfterEach(chain, broken # {}, e)
runTest(s, t, only, e) ==
  LET ran == attempt(BodiesOf(s, t, e), only, e)
  IN Then(ran, record(t, IF AnyFailing(ran.log, e) THEN "fail" ELSE "pass", ran.only))

(* A child of s: a suite in it runs as inner says.                            *)
RunChild(s, skip, focus, inner, e) ==
  [n \in DOMAIN e.tree |-> [only \in BOOLEAN |->
    IF e.tree[n].kind = "suite" THEN inner[n][skip][focus][only]
    ELSE IF shouldRun(n, skip, focus, only, e) THEN runTest(s, n, only, e)
    ELSE NotRun(n, only, e)]]
RunSuiteWith(inner, s, skipped, focused, only, e) ==
  LET skip == skipped \/ e.tree[s].flag = "skip"
      focus == focused \/ Focused(s, e)
      setUp == runHooks(s, "beforeAll", only, e)
      inside == IF AnyFailing(setUp.log, e) THEN reportNotRun(s, TRUE, setUp.only, e)
                ELSE InTurn(Children(s, e), RunChild(s, skip, focus, inner, e), setUp.only, e)
      tearDown == runHooks(s, "afterAll", inside.only, e)
      verdict == IF AnyFailing(tearDown.log, e) THEN record(s, "fail", tearDown.only)
                 ELSE Nothing(tearDown.only)
  IN IF hasRunnable(s, skipped, focused, only, e)
     THEN Then(Then(setUp, inside), Then(tearDown, verdict))
     ELSE reportNotRun(s, FALSE, only, e)
runSuite(s, skipped, focused, only, e) ==
  LET run[d \in 0..Len(e.tree)] ==
        [n \in DOMAIN e.tree |-> [skip \in BOOLEAN |-> [focus \in BOOLEAN |-> [o \in BOOLEAN |->
          IF d = 0 THEN Nothing(o) ELSE RunSuiteWith(run[d - 1], n, skip, focus, o, e)]]]]
  IN run[Len(e.tree)][s][skipped][focused][only]

(* The bodies whose outcome the environment chooses. *)
Bodies(tree) ==
  (UNION {ToSet(Hooks(tree, s, k)) : s \in Suites(tree), k \in Kinds})
  \union {Body(t) : t \in {n \in Tests(tree) : tree[n].flag \notin {"skip", "todo", "threw"}}}

Begin(tree, top, whole, fails, focusing) ==
  [tree |-> tree, top |-> top, whole |-> whole, fails |-> fails, focusing |-> focusing]

(* The bodies that fail in one execution: at most MaxFailing of them. *)
FailingSets(tree) == {F \in SUBSET Bodies(tree) : Cardinality(F) <= MaxFailing}

(* The execution of e adds o.                                                 *)
Finish(o, e) ==
  /\ results' = results \o o.results /\ usedOnly' = o.only
  /\ exec' = [tree |-> e.tree, top |-> e.top, whole |-> e.whole, log |-> o.log,
              only |-> usedOnly, fails |-> e.fails, focusing |-> e.focusing]

Failed(rs) == \E i \in DOMAIN rs : rs[i].status = "fail"
Executed(rs) == \E i \in DOMAIN rs : rs[i].status \in {"pass", "fail"}

(* ------------------------------------------------------- declarations ---- *)

Current == Last(open)
Going == exit = "none"
HookCount == FoldSeq(LAMBDA n, sum : sum + FoldFunction(+, 0, n.hooks), 0, nodes)
Flagged == {n \in DOMAIN nodes : nodes[n].flag # "plain"}
MayDeclare(flag) ==
  /\ Going
  /\ Len(nodes) + HookCount <= MaxOps
  /\ flag # "plain" => Cardinality(Flagged) < MaxFlagged

(* runImmediately: in auto-run mode a complete top-level declaration is       *)
(* executed, with the nodes declared by then, and throws if a test failed.    *)
RunImmediately(block, tree) ==
  /\ \E fails \in FailingSets(tree) : \E e \in {Begin(tree, {block}, FALSE, fails, {})} :
       Finish(IF tree[block].kind = "suite" THEN runSuite(block, FALSE, FALSE, usedOnly, e)
              ELSE IF shouldRun(block, FALSE, FALSE, usedOnly, e) THEN runTest(Root, block, usedOnly, e)
              ELSE NotRun(block, usedOnly, e), e)
  /\ executedTopLevel' = TRUE
  /\ pending' = pending \ {block}
  /\ exit' = IF Failed(SubSeq(results', Len(results) + 1, Len(results'))) THEN "failed" ELSE "none"

(* MISTAKE: a test in a describe is executed as soon as it is declared. *)
DueAtOnce(parent) == autoRun

Due(parent) == autoRun /\ parent = Root

DeclareTest(flag) ==
  /\ MayDeclare(flag) /\ Cardinality(Tests(nodes)) < MaxTests
  /\ flag = "only" => ~autoRun
  /\ nodes' = Append(nodes, Test(Current, flag))
  /\ UNCHANGED <<cut, open, autoRun>>
  /\ IF Due(Current)
     THEN RunImmediately(Len(nodes) + 1, nodes')
     ELSE /\ usedOnly' = (usedOnly \/ flag = "only")
          /\ pending' = IF Current = Root THEN pending \union {Len(nodes) + 1} ELSE pending
          /\ UNCHANGED <<executedTopLevel, results, exec, exit>>

OpenSuite(flag) ==
  /\ MayDeclare(flag) /\ Cardinality(Suites(nodes)) <= MaxSuites
  /\ flag = "only" => ~autoRun
  /\ usedOnly' = (usedOnly \/ flag = "only")
  /\ nodes' = Append(nodes, Suite(Current, flag))
  /\ pending' = IF Current = Root THEN pending \union {Len(nodes) + 1} ELSE pending
  /\ open' = Append(open, Len(nodes) + 1)
  /\ UNCHANGED <<cut, autoRun, executedTopLevel, results, exec, exit>>

(* The describe body returns, or throws (an error of run() too): a test that  *)
(* fails stands for it.                                                       *)
CloseSuite(threw) ==
  /\ Current # Root
  /\ \/ Going /\ (threw => Cardinality(Flagged) < MaxFlagged)
     \/ exit = "raised" /\ threw
  /\ open' = Front(open)
  /\ nodes' = IF threw THEN Append(nodes, Test(Current, "threw")) ELSE nodes
  /\ UNCHANGED <<cut, autoRun>>
  /\ IF Due(nodes[Current].parent)
     THEN RunImmediately(Current, nodes')
     ELSE exit' = "none" /\ UNCHANGED <<pending, usedOnly, executedTopLevel, results, exec>>

DeclareHook(kind) ==
  /\ MayDeclare("plain") /\ HookCount < MaxHooks
  /\ Due(Current) => kind \in {"beforeEach", "afterEach"}
  /\ nodes' = [nodes EXCEPT ![Current].hooks[kind] = @ + 1]
  /\ UNCHANGED <<pending, cut, open, autoRun, usedOnly, executedTopLevel, results, exec, exit>>

(* configure({ autoRun }), refused once a test is declared. *)
Configure ==
  /\ Going /\ ~executedTopLevel /\ pending = {}
  /\ autoRun' = ~autoRun
  /\ UNCHANGED <<nodes, pending, cut, open, usedOnly, executedTopLevel, results, exec, exit>>

(* run(), with the default options, called at the top level, where its error  *)
(* ends the script, or in a describe body, which its error leaves.            *)
Run ==
  /\ Going
  /\ IF pending # {} \/ nodes[Root].hooks["beforeAll"] > 0
     THEN /\ \E fails \in FailingSets(nodes) : \E focusing \in SUBSET fails :
               /\ Cardinality(focusing) <= IF Current = Root THEN 1 ELSE 0
               /\ LET e == Begin(nodes, pending, TRUE, fails \ focusing, focusing)
                  IN Finish(runSuite(Root, FALSE, FALSE, usedOnly, e), e)
          /\ nodes' = [nodes EXCEPT ![Root].hooks["beforeAll"] = 0, ![Root].hooks["afterAll"] = 0]
          /\ pending' = {}
     ELSE UNCHANGED <<nodes, pending, usedOnly, results, exec>>
  /\ cut' = cut \union (ToSet(open) \intersect pending)
  /\ exit' = IF ~Failed(results') /\ Executed(results') THEN exit
             ELSE IF Current = Root THEN "failed" ELSE "raised"
  /\ UNCHANGED <<open, autoRun, executedTopLevel>>

(* MISTAKE: the sentinel looks for a script that ran nothing at all. *)
NothingReported == results = <<>> /\ pending # {}

hasPending == pending # {}

(* The script ends; the sentinel of index.ts finds what was never run. *)
ScriptEnds ==
  /\ Going /\ Current = Root
  /\ exit' = IF hasPending THEN "pending" ELSE "ok"
  /\ UNCHANGED <<nodes, pending, cut, open, autoRun, usedOnly, executedTopLevel, results, exec>>

Init ==
  /\ nodes = <<Suite(0, "plain")>> /\ pending = {} /\ cut = {} /\ open = <<Root>>
  /\ autoRun = TRUE /\ usedOnly = FALSE /\ executedTopLevel = FALSE
  /\ results = <<>>
  /\ exec = [tree |-> nodes, top |-> {}, whole |-> FALSE, log |-> <<>>, only |-> FALSE,
             fails |-> {}, focusing |-> {}]
  /\ exit = "none"

Next ==
  \/ \E flag \in Flags \union {"todo"} : DeclareTest(flag)
  \/ \E flag \in Flags : OpenSuite(flag)
  \/ \E threw \in BOOLEAN : CloseSuite(threw)
  \/ \E kind \in Kinds : DeclareHook(kind)
  \/ Configure \/ Run \/ ScriptEnds

Spec == Init /\ [][Next]_vars
(* ------------------------------------------------------- properties ------ *)

TopOf(tree, t) == Chain(tree, t)[2]

(* A test is reported exactly once, as soon as its top-level block has been   *)
(* executed, however the script mixes the modes, nested suites, skips and     *)
(* several run() (runner.ts: run() empties the root, runImmediately removes   *)
(* the block "so run() does not execute it again").  Only the block whose     *)
(* describe body calls run() is different: what it had declared by then may   *)
(* be reported again when the block is complete, and what it declares later   *)
(* may never be.                                                              *)
ReportedOnce ==
  \A t \in Tests(nodes) :
    LET reports == Cardinality({i \in DOMAIN results : results[i].node = t})
    IN IF TopOf(nodes, t) \in cut THEN reports <= 2
       ELSE reports = IF TopOf(nodes, t) \in pending THEN 0 ELSE 1

(* A script that ends with status 0 and has called run() in no describe body  *)
(* has reported no failure; one that has called it in some has still reported *)
(* every test of its other blocks.                                            *)
GreenIsGreen ==
  exit = "ok" =>
    /\ cut = {} => ~Failed(results)
    /\ \A t \in Tests(nodes) :
         TopOf(nodes, t) \in cut \/ \E i \in DOMAIN results : results[i].node = t

(* A script with a failing test, or with a declared test that never ran, does *)
(* not end with status 0 (luatest README: "In both, a failing test makes the  *)
(* script fail", and the process that ends "with declared tests that never    *)
(* ran ... exits with status 1").  A run() in a describe body breaks both.    *)
FailureNeverPasses ==
  exit = "ok" =>
    /\ ~Failed(results)
    /\ \A t \in Tests(nodes) :
         nodes[t].flag # "threw" => \E i \in DOMAIN results : results[i].node = t

(* What follows is about an execution e: exec after a step that changes it.   *)
Around(e, n) == ToSet(Chain(e.tree, n))
Within(e, s) == {n \in DOMAIN e.tree : s \in Around(e, n)}
Executing(e) == {t \in Tests(e.tree) : TopOf(e.tree, t) \in e.top}

(* The suites whose beforeAll and afterAll count: the root only in run().     *)
SuitesAround(e, n) ==
  {s \in Around(e, n) : e.tree[s].kind = "suite"} \ (IF e.whole THEN {} ELSE {Root})
Breaks(e, s, kind) == \E b \in e.fails : b.node = s /\ b.kind = kind

Selected(e, t) ==
  /\ \A n \in Around(e, t) : e.tree[n].flag \notin {"skip", "todo"}
  /\ e.only => \E n \in Around(e, t) : e.tree[n].flag \in {"only", "threw"}
IsSetUp(e, s) ==
  /\ \E t \in Executing(e) : s \in SuitesAround(e, t) /\ Selected(e, t)
  /\ \A a \in SuitesAround(e, s) \ {s} : ~Breaks(e, a, "beforeAll")

(* A beforeAll around t has failed: t is reported as failed, and not run.     *)
Blocked(e, t) == \E s \in SuitesAround(e, t) : IsSetUp(e, s) /\ Breaks(e, s, "beforeAll")

(* Every test body runs between the beforeEach hooks of all its suites,       *)
(* outermost first, and their afterEach hooks, innermost first, with nothing  *)
(* else in between; and the afterEach hooks run for every test that is begun, *)
(* even when its set-up failed (runner.ts: the contract of Runner.beforeEach  *)
(* and afterEach).                                                            *)
HooksAround(e) ==
  LET eachOf(t, kind) ==
        [k \in DOMAIN Chain(e.tree, t) |-> Hooks(e.tree, Chain(e.tree, t)[k], kind)]
      before(t) == FlattenSeq(eachOf(t, "beforeEach"))
      after(t) == FlattenSeq(Reverse(eachOf(t, "afterEach")))
  IN /\ \A i \in DOMAIN e.log : e.log[i].kind = "body" =>
          LET t == e.log[i].node
          IN /\ i > Len(before(t)) /\ i + Len(after(t)) <= Len(e.log)
             /\ SubSeq(e.log, i - Len(before(t)), i + Len(after(t)))
                  = before(t) \o <<e.log[i]>> \o after(t)
     /\ \A s \in Suites(e.tree) : e.focusing = {} =>
          Len(SelectSeq(e.log, LAMBDA b : b.node = s /\ b.kind = "afterEach"))
            = e.tree[s].hooks["afterEach"]
              * Cardinality({t \in Executing(e) :
                              s \in Around(e, t) /\ Selected(e, t) /\ ~Blocked(e, t)})
HooksAroundTests == [][exec' # exec => HooksAround(exec')]_vars

(* The beforeAll hooks of a suite run once, before everything else in it, and *)
(* its afterAll hooks once, after everything, whenever one of its tests is    *)
(* selected and no outer beforeAll failed, and never otherwise (runSuite).    *)
OnceAround(e) ==
  \A s \in Suites(e.tree) :
    LET own == {i \in DOMAIN e.log : e.log[i].node \in Within(e, s)}
        of(kind) == {i \in own : e.log[i].node = s /\ e.log[i].kind = kind}
    IN /\ \A kind \in {"beforeAll", "afterAll"} :
            Cardinality(of(kind)) = IF IsSetUp(e, s) THEN e.tree[s].hooks[kind] ELSE 0
       /\ \A i \in of("beforeAll"), j \in own \ of("beforeAll") : i < j
       /\ \A i \in of("afterAll"), j \in own \ of("afterAll") : i > j
SetUpAndTearDown == [][exec' # exec /\ exec'.focusing = {} => OnceAround(exec')]_vars

(* The statuses, from the declarations alone: a test fails when a beforeAll   *)
(* around it failed; else it is skipped or todo when it is not selected; else *)
(* it fails exactly when its body or a beforeEach or afterEach around it      *)
(* fails; a failing afterAll is reported for its suite (runSuite, runTest).   *)
Fails(e, t) ==
  \/ e.tree[t].flag = "threw"
  \/ \E b \in e.fails : b.node \in Around(e, t) /\ b.kind \in {"body", "beforeEach", "afterEach"}
Status(e, t) ==
  IF Blocked(e, t) THEN "fail"
  ELSE IF ~Selected(e, t) THEN (IF e.tree[t].flag = "todo" THEN "todo" ELSE "skip")
  ELSE IF Fails(e, t) THEN "fail" ELSE "pass"
Expected(e) ==
  {[node |-> t, status |-> Status(e, t)] : t \in Executing(e)}
  \union {[node |-> s, status |-> "fail"] :
            s \in {s \in Suites(e.tree) : IsSetUp(e, s) /\ Breaks(e, s, "afterAll")}}
StatusesAgree ==
  [][exec' # exec /\ exec'.focusing = {} =>
       LET new == SubSeq(results', Len(results) + 1, Len(results'))
       IN ToSet(new) = Expected(exec') /\ Len(new) = Cardinality(Expected(exec'))]_vars
=============================================================================
