---------------------------- MODULE PlanTemplate -----------------------------
(***************************************************************************)
(* The plan every learner follows, made of the table of contents of a book *)
(* (content/planning/plan_builder.py): the table becomes a list of stages  *)
(* and a plan tree, a prerequisite graph is cleaned and written into both, *)
(* and the tree is annotated with the progress of a learner.               *)
(* The nodes of a tree are numbered: those of the book as they stand in it,*)
(* its root first, those of the plan in the order in which walk() makes    *)
(* them.  Both walks are recursive; building and summing are their calls   *)
(* under way, the innermost one last.  "" stands for a missing field.      *)
(***************************************************************************)
EXTENDS Numbering, Sequences, SequencesExt

CONSTANTS
    Names,             \* titles and ids, "" for a missing one
    Contents,          \* tables of contents
    RawGraphs,         \* prerequisite graphs: section ids to sequences of section ids
    Standings          \* progress of a learner: [count, current, done]

TocNode == [title : Names, id : Names, module : Names, children : Seq(Nat)]

IsBook(book) ==
    /\ book \in Seq(TocNode) /\ book # <<>>
    /\ \A n \in DOMAIN book : ToSet(book[n].children) \subseteq n + 1 .. Len(book)

ASSUME PlanAssumption ==
    /\ "" \in Names
    /\ \A book \in Contents : IsBook(book)
    /\ \A raw \in RawGraphs : \A s \in DOMAIN raw : raw[s] \in Seq(Names)
    /\ Standings \subseteq [count : Nat, current : Nat, done : BOOLEAN]

VARIABLES
    toc,
    building,          \* calls of the walk that builds: what is left, module, nodes made
    targets,           \* stage_targets
    tree, root,        \* the nodes of plan_tree and the top one, 0 for None
    covers,            \* history: which stages are below a node, [from, until]
    graph,             \* the prerequisite graph before it is cleaned
    standing,          \* whose progress is shown
    summing,           \* calls of the walk that annotates: what is left and its sums
    view,              \* the annotated nodes
    step

planVars == <<toc, building, targets, tree, root, covers, graph, standing, summing, view, step>>

MaxPrerequisites == 3
NotSeen == [completed |-> 0, total |-> 0, all |-> 0, branch |-> 0]

-----------------------------------------------------------------------------
(* build_hierarchical_plan.                                                *)

\* The first caller is build_hierarchical_plan itself.  (from is history: the
\* number of stages when the call began.)
InitPlan ==
    /\ toc \in Contents
    /\ building = <<[left |-> <<1>>, module |-> "", nodes |-> <<>>, from |-> 0]>>
    /\ targets = <<>> /\ tree = <<>> /\ root = 0 /\ covers = <<>>
    /\ graph = <<>>
    /\ standing = [count |-> 0, current |-> 0, done |-> FALSE]
    /\ summing = <<>> /\ view = <<>>
    /\ step = "build"

Innermost == building[Len(building)]
Visited == toc[Head(Innermost.left)]

\* node_module_id: a node inherits the module of the nodes above it.
ModuleOfVisited == IF Visited.module # "" THEN Visited.module ELSE Innermost.module

Titled == Visited.title # "" \/ Visited.id # ""

\* The innermost call has one child less to visit, ...
VisitsNext == [building EXCEPT ![Len(building)].left = Tail(@)]

\* ... and gets a node from the walk over it.
VisitsNextAndTakes(n) ==
    [building EXCEPT ![Len(building)].left = Tail(@), ![Len(building)].nodes = Append(@, n)]

\* A leaf with an id and a module becomes a stage.
VisitStage ==
    /\ step = "build" /\ Innermost.left # <<>>
    /\ Visited.children = <<>> /\ Visited.id # "" /\ ModuleOfVisited # ""
    /\ targets' = Append(targets, [index |-> Len(targets), section |-> Visited.id,
                                   module |-> ModuleOfVisited, prerequisites |-> <<>>])
    /\ tree' = Append(tree, [type |-> "stage", index |-> Len(targets), section |-> Visited.id,
                             module |-> ModuleOfVisited, prerequisites |-> <<>>, children |-> <<>>])
    /\ covers' = Append(covers, [from |-> Len(targets), until |-> Len(targets) + 1])
    /\ building' = VisitsNextAndTakes(Len(tree) + 1)
    /\ UNCHANGED <<toc, root, graph, standing, summing, view, step>>

\* Any other leaf, and whatever has neither title nor id, becomes nothing.
VisitNothing ==
    /\ step = "build" /\ Innermost.left # <<>>
    /\ \/ ~Titled
       \/ Visited.children = <<>> /\ (Visited.id = "" \/ ModuleOfVisited = "")
    /\ building' = VisitsNext
    /\ UNCHANGED <<toc, targets, tree, root, covers, graph, standing, summing, view, step>>

VisitGroup ==
    /\ step = "build" /\ Innermost.left # <<>>
    /\ Titled /\ Visited.children # <<>>
    /\ building' = Append(VisitsNext, [left |-> Visited.children, module |-> ModuleOfVisited,
                                       nodes |-> <<>>, from |-> Len(targets)])
    /\ UNCHANGED <<toc, targets, tree, root, covers, graph, standing, summing, view, step>>

Callers == SubSeq(building, 1, Len(building) - 1)

\* A group without stages disappears.
LeaveGroup ==
    /\ step = "build" /\ Innermost.left = <<>> /\ Len(building) > 1
    /\ \/ /\ Innermost.nodes = <<>>
          /\ building' = Callers
          /\ UNCHANGED <<tree, covers>>
       \/ /\ Innermost.nodes # <<>>
          /\ tree' = Append(tree, [type |-> IF Len(building) = 2 THEN "book" ELSE "group",
                                   index |-> -1, section |-> "", module |-> "",
                                   prerequisites |-> <<>>, children |-> Innermost.nodes])
          /\ covers' = Append(covers, [from |-> Innermost.from, until |-> Len(targets)])
          /\ building' = [Callers EXCEPT ![Len(building) - 1].nodes = Append(@, Len(tree) + 1)]
    /\ UNCHANGED <<toc, targets, root, graph, standing, summing, view, step>>

BuildPlan ==
    /\ step = "build" /\ Innermost.left = <<>> /\ Len(building) = 1
    /\ root' = IF Innermost.nodes = <<>> THEN 0 ELSE Head(Innermost.nodes)
    /\ targets' = IF Innermost.nodes = <<>> THEN <<>> ELSE targets
    /\ building' = <<>>
    /\ step' = "plan"
    /\ UNCHANGED <<toc, tree, covers, graph, standing, summing, view>>

-----------------------------------------------------------------------------
(* normalize_prerequisite_graph and apply_prerequisite_graph.              *)

\* section_to_index; of two stages with one section id the later counts.
PlanSections(stages) == {stages[i].section : i \in DOMAIN stages}
IndexOf(stages, s) == stages[CHOOSE i \in DOMAIN stages :
                                /\ stages[i].section = s
                                /\ \A j \in DOMAIN stages : stages[j].section = s => j <= i].index

\* (mutant: a section may require one that comes after it.)
RequirementsAnyOrder(stages, list, s) ==
    {n \in DOMAIN list : /\ list[n] \in PlanSections(stages) \ {s}
                         /\ \A m \in 1 .. n - 1 : list[m] # list[n]}

\* The places of a list of requirements of s that count: known sections that
\* come before s, each where it is first.
Requirements(stages, list, s) ==
    {n \in DOMAIN list : /\ list[n] \in PlanSections(stages)
                         /\ IndexOf(stages, list[n]) < IndexOf(stages, s)
                         /\ \A m \in 1 .. n - 1 : list[m] # list[n]}

\* The first of a set of places, as many as a section may have.
FirstPlaces(places) ==
    {n \in places : Cardinality({m \in places : m <= n}) <= MaxPrerequisites}

NormalizePrerequisiteGraph(stages, raw) ==
    [s \in PlanSections(stages) |->
        IF s \in DOMAIN raw
        THEN Kept(raw[s], FirstPlaces(Requirements(stages, raw[s], s))) ELSE <<>>]

\* Every stage of the list, and every one of the tree.
ApplyGraph ==
    /\ step = "plan"
    /\ \E raw \in RawGraphs :
        LET clean == NormalizePrerequisiteGraph(targets, raw)
        IN  /\ graph' = raw
            /\ targets' = [i \in DOMAIN targets |->
                              [targets[i] EXCEPT !.prerequisites = clean[targets[i].section]]]
            /\ tree' = [n \in DOMAIN tree |->
                              IF tree[n].type = "stage"
                              THEN [tree[n] EXCEPT !.prerequisites = clean[tree[n].section]]
                              ELSE tree[n]]
    /\ step' = "graph"
    /\ UNCHANGED <<toc, building, root, covers, standing, summing, view>>

-----------------------------------------------------------------------------
(* annotate_plan_tree, less the mastery average.  A flag is 0 or 1, so that*)
(* any() is the greatest of them.                                          *)

\* Building a session snapshot annotates the tree of the template.
ShowProgress ==
    /\ step = "graph" /\ root # 0
    /\ standing' \in Standings
    /\ summing' = <<[node |-> 0, left |-> <<root>>, total |-> 0, completed |-> 0, branch |-> 0]>>
    /\ view' = [n \in DOMAIN tree |-> NotSeen]
    /\ step' = "annotate"
    /\ UNCHANGED <<toc, building, targets, tree, root, covers, graph>>

Sums == summing[Len(summing)]
Child == Head(Sums.left)

\* The caller's sums with those of a child added.
Added(call, total, completed, branch) ==
    [node |-> call.node, left |-> call.left,
     total |-> call.total + total, completed |-> call.completed + completed,
     branch |-> IF branch = 1 THEN 1 ELSE call.branch]

IsCurrent(index) == ~standing.done /\ index = standing.current

AnnotateStage ==
    LET index     == tree[Child].index
        completed == IF index >= 0 /\ index < standing.count THEN 1 ELSE 0
        current   == IF IsCurrent(index) THEN 1 ELSE 0
    IN  /\ step = "annotate" /\ Sums.left # <<>>
        /\ tree[Child].type = "stage"
        /\ view' = [view EXCEPT ![Child] = [completed |-> completed, total |-> 1,
                                            all |-> completed, branch |-> current]]
        /\ summing' = [summing EXCEPT ![Len(summing)] =
                          Added([Sums EXCEPT !.left = Tail(@)], 1, completed, current)]
        /\ UNCHANGED <<toc, building, targets, tree, root, covers, graph, standing, step>>

OpenGroup ==
    /\ step = "annotate" /\ Sums.left # <<>>
    /\ tree[Child].type # "stage"
    /\ summing' = Append([summing EXCEPT ![Len(summing)].left = Tail(@)],
                         [node |-> Child, left |-> tree[Child].children,
                          total |-> 0, completed |-> 0, branch |-> 0])
    /\ UNCHANGED <<toc, building, targets, tree, root, covers, graph, standing, view, step>>

CloseGroup ==
    /\ step = "annotate" /\ Sums.left = <<>> /\ Len(summing) > 1
    /\ view' = [view EXCEPT ![Sums.node] =
                   [completed |-> Sums.completed, total |-> Sums.total,
                    all |-> IF Sums.total > 0 /\ Sums.completed = Sums.total THEN 1 ELSE 0,
                    branch |-> Sums.branch]]
    /\ summing' = [SubSeq(summing, 1, Len(summing) - 1) EXCEPT
                      ![Len(summing) - 1] =
                          Added(summing[Len(summing) - 1], Sums.total, Sums.completed, Sums.branch)]
    /\ UNCHANGED <<toc, building, targets, tree, root, covers, graph, standing, step>>

FinishView ==
    /\ step = "annotate" /\ Sums.left = <<>> /\ Len(summing) = 1
    /\ summing' = <<>>
    /\ step' = "view"
    /\ UNCHANGED <<toc, building, targets, tree, root, covers, graph, standing, view>>

-----------------------------------------------------------------------------
NextPlan ==
    \/ VisitStage \/ VisitNothing \/ VisitGroup \/ LeaveGroup \/ BuildPlan
    \/ ApplyGraph
    \/ ShowProgress \/ AnnotateStage \/ OpenGroup \/ CloseGroup \/ FinishView

SpecPlan == InitPlan /\ [][NextPlan]_planVars

-----------------------------------------------------------------------------
(* Properties.                                                             *)

StageTarget == [index : Nat, section : Names, module : Names, prerequisites : Seq(Names)]
PlanNode == [type : {"book", "group", "stage"}, index : Nat \cup {-1}, section : Names,
             module : Names, prerequisites : Seq(Names), children : Seq(Nat)]
BuildCall == [left : Seq(Nat), module : Names, nodes : Seq(Nat), from : Nat]
SumCall == [node : Nat, left : Seq(Nat), total : Nat, completed : Nat, branch : {0, 1}]
ShownNode == [completed : Nat, total : Nat, all : {0, 1}, branch : {0, 1}]

\* Calls, stages and nodes are what the walks make; a call has children of the
\* book or of the plan left.
PlanTypeOK ==
    /\ IsBook(toc)
    /\ building \in Seq(BuildCall)
    /\ \A c \in DOMAIN building : ToSet(building[c].left) \subseteq DOMAIN toc
    /\ targets \in Seq(StageTarget)
    /\ tree \in Seq(PlanNode)
    /\ root \in 0 .. Len(tree)
    /\ covers \in Seq([from : Nat, until : Nat]) /\ Len(covers) = Len(tree)
    /\ \A s \in DOMAIN graph : graph[s] \in Seq(Names)
    /\ standing \in [count : Nat, current : Nat, done : BOOLEAN]
    /\ summing \in Seq(SumCall)
    /\ \A c \in DOMAIN summing : ToSet(summing[c].left) \subseteq DOMAIN tree
    /\ view \in Seq(ShownNode)
    /\ step \in {"build", "plan", "graph", "annotate", "view"}

\* Nodes that follow one another: each covers the stages from where the one
\* before it ends.
InARow(nodes, from, until, covered) ==
    IF nodes = <<>> THEN from = until
    ELSE /\ covered[nodes[1]].from = from
         /\ covered[nodes[Len(nodes)]].until = until
         /\ \A i \in 1 .. Len(nodes) - 1 : covered[nodes[i]].until = covered[nodes[i + 1]].from

\* A stage of the tree is the stage of the list it covers; what the children
\* of a group cover makes up what it covers, in order and without gap.
NodeFits(n) ==
    /\ covers[n].from < covers[n].until /\ covers[n].until <= Len(targets)
    /\ IF tree[n].type = "stage"
       THEN LET stage == targets[tree[n].index + 1]
            IN  /\ covers[n] = [from |-> tree[n].index, until |-> tree[n].index + 1]
                /\ tree[n].section = stage.section /\ tree[n].module = stage.module
                /\ tree[n].prerequisites = stage.prerequisites
                /\ tree[n].children = <<>>
       ELSE /\ tree[n].children # <<>>
            /\ ToSet(tree[n].children) \subseteq 1 .. n - 1
            /\ InARow(tree[n].children, covers[n].from, covers[n].until, covers)

\* The list the turns advance along and the tree the learner sees are two
\* encodings of one order: read from left to right, the leaves of the tree are
\* the stages of the list, each once, with its section, module and
\* prerequisites.
StagesMatchTree ==
    step # "build" =>
        /\ \A i \in DOMAIN targets : targets[i].index = i - 1
        /\ IF root = 0 THEN targets = <<>> ELSE covers[root] = [from |-> 0, until |-> Len(targets)]
        /\ \A n \in DOMAIN tree : NodeFits(n)

DistinctSections == \A i, j \in DOMAIN targets : targets[i].section = targets[j].section => i = j

\* However wrong the generated graph is (cycles, forward references, unknown
\* sections, repetitions), a stage only ever requires stages before it, so no
\* learner is blocked; and it keeps as many valid requirements as a section may
\* have: a valid one is dropped only if it was given after all that are kept.
\* (For books whose section ids are distinct.)
PrerequisitesComeFirst ==
    step \in {"graph", "annotate", "view"} /\ DistinctSections =>
        \A i \in DOMAIN targets :
            LET required == targets[i].prerequisites
                earlier  == {targets[j].section : j \in 1 .. i - 1}
                given    == IF targets[i].section \in DOMAIN graph
                            THEN graph[targets[i].section] ELSE <<>>
                valid    == earlier \cap ToSet(given)
            IN  /\ ToSet(required) \subseteq valid
                /\ IsInjective(required)
                /\ Len(required) = IF Cardinality(valid) < MaxPrerequisites
                                   THEN Cardinality(valid) ELSE MaxPrerequisites
                /\ \A n \in DOMAIN given :
                      given[n] \in valid \ ToSet(required) =>
                          ToSet(required) \subseteq {given[m] : m \in 1 .. n - 1}

\* Of the stages before one, those that are completed.
DoneBefore(n) == IF n < standing.count THEN n ELSE standing.count

\* What a node says of the stages it covers.
SaysOf(n) ==
    LET from == covers[n].from until == covers[n].until
    IN  /\ view[n].total = until - from
        /\ view[n].completed = DoneBefore(until) - DoneBefore(from)
        /\ view[n].all = 1 <=> standing.count >= until
        /\ view[n].branch = 1 <=> \E index \in from .. until - 1 : IsCurrent(index)

\* Every node of the tree tells the learner what the counters of the plan row
\* say: how many of the stages below it are among the first `count`, whether
\* all are, and whether the current one is.
ProgressAddsUp ==
    step = "view" =>
        /\ view[root] # NotSeen
        /\ \A n \in DOMAIN tree : view[n] # NotSeen =>
              /\ SaysOf(n)
              /\ \A child \in ToSet(tree[n].children) : view[child] # NotSeen

\* List, tree and progress of a plan tell the same order, and a stage requires
\* earlier stages only.
PlanFitsBook == StagesMatchTree /\ PrerequisitesComeFirst /\ ProgressAddsUp
=============================================================================
