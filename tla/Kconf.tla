------------------------------- MODULE Kconf ---------------------------------
(* kconfiglib (tools/kconfig/) from the text of a Kconfig to its files: a    *)
(* Kconfig is parsed, finalized and searched for dependency loops, and then  *)
(* used, either by a script that reads and sets values in any order, or by   *)
(* the tools one after the other, each a process that may be killed.         *)
EXTENDS KParse

CONSTANT Cases                  \* what is tried: a text and its client, with the tools
                                \* it runs, the values it sets and the files it loads

VARIABLES l,                    \* the search for dependency loops
          phase, case, s,
          d,                    \* the files
          job                   \* the tool that runs
vars == <<text, p, l, kc, phase, case, s, d, job>>

-----------------------------------------------------------------------------
(* The search for dependency loops: depth first over the _dependents sets,   *)
(* whose order is that of Python's sets, with a mark on every item: 0 not    *)
(* visited, 1 on the way, 2 done.                                            *)

(* A call that is under way: its item, what it still has to visit, and the   *)
(* flag that keeps a choice symbol from going back into its choice.          *)
Frame(i, left, ignore) == [i |-> i, left |-> left, ignore |-> ignore]
StartLoops == [visited |-> [i \in Items |-> 0], stack |-> <<>>, loop |-> <<>>, at |-> 0]

(* The choice symbols in order, but for the one we came from.                *)
Members(c, skip) == SelectSeq(K.members[c], LAMBDA x : x # skip)
(* A call of _check_dep_loop_sym() or _check_dep_loop_choice().              *)
(* Bug: an item counts as checked before its dependents are.                 *)
check_dep_loopEarly(q, i, ignore, skip) ==
  IF q.visited[i] = 2 THEN q
  ELSE [q EXCEPT !.visited[i] = 2,
                 !.stack = Append(@, Frame(i, IF i \in K.choices THEN ToSet(Members(i, skip)) ELSE kc.deps[i], ignore))]
check_dep_loop(q, i, ignore, skip) ==
  CASE q.visited[i] = 0 ->
         [q EXCEPT !.visited[i] = 1,
                   !.stack = Append(@, Frame(i, IF i \in K.choices THEN ToSet(Members(i, skip)) ELSE kc.deps[i], ignore))]
    [] q.visited[i] = 1 -> [q EXCEPT !.loop = <<i>>]
    [] q.visited[i] = 2 -> q

Calls == Len(l.stack)
Call == l.stack[Calls]
Returning == l.loop # <<>>
IsNext(x) == IF Call.i \in K.choices THEN x = SelectSeq(K.members[Call.i], LAMBDA m : m \in Call.left)[1] ELSE TRUE
VisitNext ==
  /\ ~Returning /\ Calls > 0
  /\ \E x \in Call.left : /\ IsNext(x)
                          /\ l' = check_dep_loop([l EXCEPT !.stack[Calls].left = @ \ {x}], x, Call.i \in K.choices, NoneSelected)
EnterChoice ==
  /\ ~Returning /\ Calls > 0 /\ Call.left = {}
  /\ Call.i \in K.syms /\ K.choice[Call.i] # NoChoice /\ ~Call.ignore
  /\ l' = check_dep_loop([l EXCEPT !.stack[Calls].ignore = TRUE], K.choice[Call.i], FALSE, Call.i)
VisitDone ==
  /\ ~Returning /\ Calls > 0 /\ Call.left = {}
  /\ (IF Call.i \in K.syms THEN K.choice[Call.i] = NoChoice \/ Call.ignore ELSE TRUE)
  /\ l' = [l EXCEPT !.visited[Call.i] = 2, !.stack = Front(@)]
NextRoot ==
  /\ ~Returning /\ Calls = 0 /\ l.at < Len(K.order)
  /\ l' = check_dep_loop([l EXCEPT !.at = @ + 1], K.order[l.at + 1], FALSE, NoneSelected)

(* The loop is collected on the way back, until the item it began with.      *)
found_dep_loop == Returning /\ Call.i # l.loop[1] /\ l' = [l EXCEPT !.loop = Append(@, Call.i), !.stack = Front(@)]
LoopReported == Returning /\ Call.i = l.loop[1]
LoopsChecked == ~Returning /\ Calls = 0 /\ l.at = Len(K.order)

LoopStep == VisitNext \/ EnterChoice \/ VisitDone \/ NextRoot \/ found_dep_loop

-----------------------------------------------------------------------------
Gone == [ex |-> FALSE, lines |-> <<>>]
Holds(lines) == [ex |-> TRUE, lines |-> lines]
Recipe == [menuconfig |-> <<"load", "edit", "save">>, olddefconfig |-> <<"load", "save">>,
           savedefconfig |-> <<"load", "savemin">>, defconfig |-> <<"loadmin", "save">>,
           genconfig |-> <<"load", "header", "sync">>]
Idle == [todo |-> <<>>, file |-> "none", out |-> <<>>, left |-> <<>>]
(* prev: the .config a save has moved away, until it is done or another tool  *)
(* runs; torn: symbols whose line a kill has cut off auto.conf, until they    *)
(* are touched; obj: the values the objects that depend on a symbol were      *)
(* compiled with.                                                             *)
NewDisk == [conf |-> Gone, old |-> Gone, min |-> Gone, auto |-> Gone, hdr |-> Gone, prev |-> Gone,
            touched |-> {}, torn |-> {}, ready |-> FALSE, built |-> FALSE, obj |-> <<>>, faults |-> 0]

Init == /\ case \in Cases
        /\ text = case.text /\ p = StartParse
        /\ phase = "parse" /\ kc = <<>> /\ l = <<>> /\ s = <<>> /\ d = NewDisk /\ job = Idle

(* Kconfig._init() *)
Parse == phase = "parse" /\ ParseStep /\ UNCHANGED <<text, l, kc, phase, case, s, d, job>>
Finalize == /\ phase = "parse" /\ p.mode = "done"
            /\ kc' = Kconfig(p.blocks[1].list)
            /\ phase' = (IF kc'.malformed THEN "refused" ELSE "loops") /\ l' = (StartLoops)'
            /\ UNCHANGED <<text, p, case, s, d, job>>
CheckLoops == phase = "loops" /\ LoopStep /\ UNCHANGED <<text, p, kc, phase, case, s, d, job>>
Loaded == /\ phase = "loops" /\ LoopsChecked
          /\ phase' = "use" /\ s' = NewState /\ p' = StartParse /\ l' = <<>>
          /\ UNCHANGED <<text, kc, case, d, job>>
Failed == \/ phase = "parse" /\ p.mode = "error"
          \/ phase = "refused"
          \/ phase = "loops" /\ LoopReported
          \/ phase = "use" /\ case.client = "none"
Stop == Failed /\ UNCHANGED vars

(* A script *)
Script == phase = "use" /\ case.client = "script"
Quiet == UNCHANGED <<text, p, l, kc, phase, case, d, job>>
ReadSymbol == Script /\ Quiet /\ \E i \in K.syms : s' = With(assignable(i, s), LAMBDA a : str_value(i, a.s).s)
ReadChoice == Script /\ Quiet /\ \E c \in K.choices : s' = With(assignable(c, s), LAMBDA a : selection(c, a.s).s)
SetValue == Script /\ Quiet /\ \E i \in Items : \E v \in case.values : s' = set_value(i, v, s).s
UnsetValue == Script /\ Quiet /\ \E i \in Items : s' = unset_value(i, s)
UnsetValues == Script /\ Quiet /\ s' = unset_values(s)
LoadConfig == Script /\ Quiet /\ \E f \in case.lines : \E replace \in BOOLEAN : s' = load_config(f, replace, s)

(* The tools *)
Tools == phase = "use" /\ case.client = "tools"
Still == UNCHANGED <<text, p, l, kc, phase, case>>
At(step) == Tools /\ Still /\ job.todo # <<>> /\ Head(job.todo) = step
Done == [job EXCEPT !.todo = Tail(@)]
(* The next step of the tool; when there is none, the process ends.           *)
Proceed(s1) == LET last == Len(job.todo) = 1
               IN job' = (IF last THEN Idle ELSE Done) /\ s' = (IF last THEN NewState ELSE s1)
StartTool == /\ Tools /\ Still /\ job.todo = <<>>
             /\ \E t \in case.tools : job' = [Idle EXCEPT !.todo = Recipe[t]]
             /\ d' = [d EXCEPT !.ready = FALSE, !.prev = Gone] /\ UNCHANGED s
Load == At("load") /\ Proceed(IF d.conf.ex THEN load_config(d.conf.lines, TRUE, s) ELSE s) /\ UNCHANGED d
(* defconfig exits with an error when its input is missing.                   *)
LoadMin == /\ At("loadmin") /\ UNCHANGED d
           /\ IF d.min.ex THEN Proceed(load_config(d.min.lines, TRUE, s)) ELSE job' = Idle /\ s' = NewState

(* menuconfig: edits, a configuration loaded over the present one, the end.   *)
Editable(i) == With(assignable(i, s), LAMBDA a :
  IF i \in K.choices \/ BoolTri(i) THEN R(case.values \intersect a.v, a.s)
  ELSE With(visibility(i, a.s), LAMBDA vis : R(IF vis.v = 0 THEN {} ELSE case.values, vis.s)))
Edit == /\ At("edit") /\ UNCHANGED <<d, job>>
        /\ \E i \in Items : \E e \in {Editable(i)} : \E v \in e.v : s' = set_value(i, v, e.s).s
Reload == At("edit") /\ UNCHANGED <<d, job>> /\ d.conf.ex /\ s' = load_config(d.conf.lines, TRUE, s)
EditEnd == At("edit") /\ Proceed(s) /\ UNCHANGED d

(* _write_if_changed(): a file that would stay as it is is left alone; any    *)
(* other is truncated and written, which is a step of its own.                *)
Unwritten(file, c) == d[file] # Holds(c.v)
OpenWrite(file, c) == job' = [job EXCEPT !.todo = <<"write">> \o Tail(@), !.file = file, !.out = c.v] /\ s' = c.s
WriteIfChanged(file, c) == UNCHANGED d /\ IF Unwritten(file, c) THEN OpenWrite(file, c) ELSE Proceed(c.s)
Write == /\ At("write") /\ Proceed(s)
         /\ d' = [d EXCEPT ![job.file] = Holds(job.out), !.prev = IF job.file = "conf" THEN Gone ELSE @,
                           !.ready = (job.file = "auto")]

(* A fault of the machine, of which a behaviour has at most case.faults.      *)
Faulty(d1) == d.faults < case.faults /\ d' = [d1 EXCEPT !.faults = @ + 1]

(* write_config(): the old file is moved away first, unless that fails, which *)
(* is ignored: then the write truncates the only copy.                        *)
(* Bug: the old file is not kept.                                             *)
save_oldLost == d.conf.ex /\ d' = [d EXCEPT !.prev = d.conf, !.conf = Gone]
save_old == d.conf.ex /\ d' = [d EXCEPT !.prev = d.conf, !.old = d.conf, !.conf = Gone]
Save == /\ At("save")
        /\ \E c \in {config_contents(s)} :
              \/ ~Unwritten("conf", c) /\ Proceed(c.s) /\ UNCHANGED d
              \/ Unwritten("conf", c) /\ OpenWrite("conf", c) /\ (save_old \/ IF d.conf.ex THEN Faulty(d) ELSE UNCHANGED d)
SaveMin == At("savemin") /\ \E c \in {min_config_contents(s)} : WriteIfChanged("min", c)

(* genconfig: the header; sync_deps() touches one file after the other and    *)
(* writes auto.conf last.                                                     *)
Header == At("header") /\ \E c \in {autoconf_contents(s)} : WriteIfChanged("hdr", c)
(* Bug: auto.conf has the new values before the files are touched.            *)
SyncDepsWriteFirst ==
  /\ At("sync") /\ UNCHANGED s
  /\ d' = [d EXCEPT !.auto = Holds(old_vals_contents(s).v)]
  /\ job' = [job EXCEPT !.todo = <<"touch">>, !.left = changed_syms(d.auto.lines, s)]
SyncDeps == /\ At("sync") /\ UNCHANGED <<d, s>>
            /\ job' = [job EXCEPT !.todo = <<"touch">>, !.left = changed_syms(d.auto.lines, s)]
TouchDepFile == /\ At("touch") /\ job.left # <<>> /\ UNCHANGED s
                /\ d' = [d EXCEPT !.touched = @ \union {Head(job.left)}, !.torn = @ \ {Head(job.left)}]
                /\ job' = [job EXCEPT !.left = Tail(@)]
WriteOldVals == /\ At("touch") /\ job.left = <<>>
                /\ \E c \in {old_vals_contents(s)} :
                      \/ ~Unwritten("auto", c) /\ Proceed(c.s) /\ d' = [d EXCEPT !.ready = TRUE]
                      \/ Unwritten("auto", c) /\ OpenWrite("auto", c) /\ UNCHANGED d

(* The build that follows a genconfig that succeeded compiles what depends on *)
(* a touched file, or everything the first time.                              *)
Value(lines, i) == LET at == {n \in DOMAIN lines : lines[n][1] = i}
                   IN IF at = {} THEN NoLine ELSE lines[CHOOSE n \in at : TRUE][2]
Build == /\ Tools /\ Still /\ job.todo = <<>> /\ d.ready /\ UNCHANGED <<s, job>>
         /\ d' = [d EXCEPT !.ready = FALSE, !.built = TRUE, !.touched = {}, !.torn = IF d.built THEN @ ELSE {},
                           !.obj = [i \in K.syms |-> IF ~d.built \/ i \in d.touched THEN Value(d.hdr.lines, i) ELSE @[i]]]

(* A tool is killed between two steps, or while it writes a file: what is     *)
(* there then are some first lines (a line that is cut itself is lost).       *)
Kill == /\ Tools /\ Still /\ job.todo # <<>> /\ job' = Idle /\ s' = NewState
        /\ \/ Faulty(d)
           \/ /\ Head(job.todo) = "write"
              /\ \E n \in 0..(Len(job.out) - 1) :
                    Faulty([d EXCEPT ![job.file] = Holds(SubSeq(job.out, 1, n)),
                                     !.torn = IF job.file = "auto" THEN @ \union {job.out[k][1] : k \in (n + 1)..Len(job.out)} ELSE @])

Next == \/ Parse \/ Finalize \/ CheckLoops \/ Loaded \/ Stop
        \/ ReadSymbol \/ ReadChoice \/ SetValue \/ UnsetValue \/ UnsetValues \/ LoadConfig
        \/ StartTool \/ Load \/ LoadMin \/ Edit \/ Reload \/ EditEnd \/ Save \/ Write \/ SaveMin
        \/ Header \/ SyncDeps \/ TouchDepFile \/ WriteOldVals \/ Build \/ Kill
Spec == Init /\ [][Next]_vars

-----------------------------------------------------------------------------
(* What the text says, without parsing it.  Line i of file f is help text    *)
(* when a help keyword stands above it and no line since the first one       *)
(* below that keyword is indented less than that first one.                  *)
RECURSIVE IsHelp(_, _)
IsHelp(f, i) ==
  \E h \in 1..(i - 1) :
    /\ text[f][h].t = "help" /\ ~IsHelp(f, h)
    /\ LET body == {j \in (h + 1)..i : text[f][j].t # "blank"}
           first == CHOOSE j \in body : \A k \in body : j <= k
       IN body # {} => text[f][first].ind > 0 /\ \A j \in body : text[f][j].ind >= text[f][first].ind
RealLines(f) == SelectSeq([i \in 1..Len(text[f]) |-> IF IsHelp(f, i) THEN [text[f][i] EXCEPT !.t = "blank"] ELSE text[f][i]],
                          LAMBDA ln : ln.t # "blank")
Openers == DOMAIN EndOf
Enders == {EndOf[t] : t \in Openers}
Statements == {"config", "menuconfig", "comment", "menu", "choice", "if"}
Depth(seq, i) == Cardinality({j \in 1..i : seq[j].t \in Openers}) - Cardinality({j \in 1..i : seq[j].t \in Enders})
(* Every end closes the innermost open block of its kind, in the same file;  *)
(* a property line belongs to a definition above it.                         *)
NestedFile(f) ==
  LET ls == RealLines(f)
  IN /\ Depth(ls, Len(ls)) = 0
     /\ \A i \in DOMAIN ls :
          /\ ls[i].t \in Enders =>
               \E j \in 1..(i - 1) : /\ ls[j].t \in Openers /\ EndOf[ls[j].t] = ls[i].t
                                    /\ \A k \in j..(i - 1) : Depth(ls, k) > Depth(ls, i)
                                    /\ Depth(ls, j - 1) = Depth(ls, i)
          /\ ls[i].t \in PropKeywords =>
               \E j \in 1..(i - 1) : /\ ls[j].t \in Statements \ {"if"}
                                    /\ \A k \in (j + 1)..i : ls[k].t \in PropKeywords
          /\ ls[i].t # "text"
Sourced(f) == {ln.a[1] : ln \in {x \in ToSet(RealLines(f)) : x.t \in {"source", "osource"}}} \intersect DOMAIN text
RECURSIVE Reach(_)
Reach(fs) == LET more == fs \union UNION {Sourced(f) : f \in fs} IN IF more = fs THEN fs ELSE Reach(more)
WellFormed == \A f \in Reach({TopFile}) :
  /\ NestedFile(f) /\ f \notin Reach(Sourced(f))
  /\ \A ln \in ToSet(RealLines(f)) : ln.t = "source" => ln.a[1] \in DOMAIN text
RECURSIVE Expanded(_), PreOrder(_, _)
Expanded(f) == FoldLeft(LAMBDA acc, ln : acc \o (IF ln.t \notin {"source", "osource"} THEN <<ln>>
                                                 ELSE IF ln.a[1] \in DOMAIN text THEN Expanded(ln.a[1]) ELSE <<>>),
                        <<>>, RealLines(f))
PreOrder(list, n) == FoldLeft(LAMBDA acc, nd : acc \o <<<<nd.kind, nd.item, n>>>> \o PreOrder(nd.list, n + 1), <<>>, list)
Kind(t) == IF t \in {"config", "menuconfig"} THEN "sym" ELSE t
StatementsWithDepth ==
  LET e == Expanded(TopFile)
      at == SelectSeq([i \in 1..Len(e) |-> i], LAMBDA i : e[i].t \in Statements)
  IN [n \in 1..Len(at) |-> LET ln == e[at[n]] IN
        <<Kind(ln.t), IF ln.t = "if" THEN "if" ELSE ln.a[1], Depth(e, at[n] - 1)>>]

(* The parser takes a Kconfig exactly when it is well formed, and its tree    *)
(* has every definition of the text in order, at the depth at which the text  *)
(* has it, whatever files, help texts and lookahead lie between.              *)
ParsedAsWritten ==
  phase = "parse" => /\ p.mode = "error" => ~WellFormed
                     /\ p.mode = "done" => WellFormed /\ PreOrder(p.blocks[1].list, 0) = StatementsWithDepth

(* The conditions over a node, read off the tree as it was parsed: its own,   *)
(* what encloses it, and for symbols and choices the 'visible if's.           *)
Conjuncts(e) == ToSet(split_expr(e, "and")) \ {EY}
Same(e, cs) == IF EN \in cs THEN EN \in Conjuncts(e) ELSE Conjuncts(e) = cs
Occ(nd, over, visible) == [nd |-> nd, dep |-> over \union Conjuncts(nd.dep), visible |-> visible]
RECURSIVE Occurrences(_, _, _)
Occurrences(list, over, visible) ==
  FoldLeft(LAMBDA acc, nd :
             acc \o <<Occ(nd, over, visible)>> \o
             Occurrences(nd.list, IF nd.kind = "choice" THEN {Item(nd.item)} ELSE over \union Conjuncts(nd.dep),
                         IF nd.kind = "menu" THEN visible \union Conjuncts(nd.visib) ELSE visible),
           <<>>, list)
OfItem(i) == SelectSeq(Occurrences(p.blocks[1].list, {}, {}), LAMBDA o : o.nd.item = i)
PromptsOf(i) == LET at == SelectSeq(OfItem(i), LAMBDA o : o.nd.prompt.has)
                IN [n \in DOMAIN at |-> Conjuncts(at[n].nd.prompt.cond) \union at[n].dep \union at[n].visible]
DefaultsOf(i) == FoldLeft(LAMBDA acc, o : acc \o [n \in DOMAIN o.nd.defaults |-> Conjuncts(o.nd.defaults[n].cond) \union o.dep],
                          <<>>, OfItem(i))
SelectsOf(i) == UNION {{Conjuncts(x.cond) \union o.dep \union {Item(o.nd.item)} : x \in {y \in ToSet(o.nd.selects) : y.sym = i}} :
                       o \in ToSet(Occurrences(p.blocks[1].list, {}, {}))}
Kinds(nodes) == [n \in DOMAIN nodes |-> <<nodes[n].kind, nodes[n].item>>]

(* Finalizing loses no definition and changes no order, and every prompt,     *)
(* default and select ends up under exactly the conditions that enclose it in *)
(* the text: implicit menus, flattened ifs and definitions in several places  *)
(* add and drop none.                                                         *)
FinalizedAsWritten ==
  phase = "loops" /\ l = StartLoops =>
    /\ Kinds(NodesOf(kc.tree.list)) = Kinds(SelectSeq(NodesOf(p.blocks[1].list), LAMBDA n : n.kind # "if"))
    /\ \A i \in Items :
         /\ Len(K.prompts[i]) = Len(PromptsOf(i)) /\ Len(K.defaults[i]) = Len(DefaultsOf(i))
         /\ \A n \in DOMAIN K.prompts[i] : Same(K.prompts[i][n], PromptsOf(i)[n])
         /\ \A n \in DOMAIN K.defaults[i] : Same(K.defaults[i][n].cond, DefaultsOf(i)[n])
         /\ {Conjuncts(e) : e \in ToSet(split_expr(K.rev[i], "or")) \ {EN}} = SelectsOf(i)

(* Cycles, by reachability.  A value follows the values it depends on.        *)
Affects(i) == kc.deps[i] \intersect Items
RECURSIVE Closure(_)
Closure(set) == LET more == set \union UNION {Affects(i) : i \in set} IN IF more = set THEN set ELSE Closure(more)
InCycle(i) == i \in Closure(Affects(i))
Edge(a, b) == b \in Affects(a) \/ (a \in K.choices /\ Contains(K.members[a], b)) \/ (a \in K.syms /\ K.choice[a] = b)

(* In a choice every symbol's value also follows its siblings', through the   *)
(* selection, and all of them follow the choice.                              *)
Siblings(i) == IF K.choice[i] # NoChoice THEN ToSet(K.members[K.choice[i]]) ELSE {i}
Follow(i) == IF i \in K.choices THEN ToSet(K.members[i]) ELSE UNION {Affects(j) : j \in Siblings(i)}
RECURSIVE Following(_)
Following(set) == LET more == set \union UNION {Follow(i) : i \in set} IN IF more = set THEN set ELSE Following(more)
InChoiceCycle(i) == Siblings(i) \intersect Following(Follow(i)) # {}

(* A loop that is reported is a loop of the dependencies, item by item; and   *)
(* when none is reported no item depends on itself by dependencies alone, and *)
(* none through the siblings of a choice either where no choice has a symbol  *)
(* in a condition of its own: LoopsMarked is about the ones that have.        *)
LoopIffCycle ==
  phase = "loops" =>
    /\ LoopReported => LET n == Len(l.loop) IN \A i \in 1..n : Edge(l.loop[IF i = n THEN 1 ELSE i + 1], l.loop[i])
    /\ LoopsChecked => /\ \A i \in Items : ~InCycle(i)
                       /\ (\A x \in K.syms : kc.deps[x] \intersect K.choices = {}) => \A i \in K.syms : ~InChoiceCycle(i)

(* A symbol the search has marked 2, "visited, not part of a dependency       *)
(* loop", is not part of one, the siblings of a choice included.              *)
LoopsMarked == phase = "loops" /\ LoopsChecked => \A i \in K.syms : l.visited[i] = 2 => ~InChoiceCycle(i)

(* What is cached is what a calculation from nothing gives, in every order of *)
(* reads, assignments and loads: invalidation, which follows _dependents and  *)
(* stops early, drops all that a change makes stale.                          *)
CacheCoherent ==
  phase = "use" =>
    LET f == Uncached(s)
    IN /\ \A i \in Items : /\ s.vis[i] \in {None, visibility(i, f).v}
                           /\ s.asg[i] \in {{None}, assignable(i, f).v}
       /\ \A i \in K.syms : LET t == str_value(i, f)
                            IN /\ s.tri[i] \in {None, tri_value(i, f).v}
                               /\ s.str[i] \in {None, t.v} /\ (s.str[i] # None => s.wtc[i] = t.s.wtc[i])
       /\ \A c \in K.choices : s.sel[c] \in {NotCached, selection(c, f).v}

(* The next properties are about user values, and so need looking at only     *)
(* where a script has read nothing yet, and where a tool is about to save.    *)
Settled == phase = "use" /\ IF case.client = "script" THEN Fields(s) = NoCache
                            ELSE job.todo # <<>> /\ Head(job.todo) \in {"save", "savemin"}

(* Whatever was set, every value respects the Kconfig.  m needs modules; a   *)
(* select is obeyed; a value exceeds the dependencies only where a select or *)
(* an imply does, or where the type makes a y of m.  A number is in its range*)
(* unless the range is empty.  In a y-mode choice the selection, and nothing *)
(* but it, is y, whatever selects or defaults the others have (the checks    *)
(* warn that these have no effect), in m mode none is; there is a selection  *)
(* when a symbol is visible, unless the checks warned of the default.        *)
Warned(what, i) == <<what, i>> \in kc.warnings
(* val: the values of the symbols; of: what expressions are worth.           *)
TriLegal(i, type, val, of) ==
  /\ val[i] = 1 => type = "tristate"
  /\ val[i] >= of.rev
  /\ val[i] > Max2(of.dep, of.rev) => 1 \in {of.dep, of.rev} /\ (type = "bool" \/ of.weak = 2)
ChoiceLegal(c, mode, sel, val, shown) ==
  \A i \in {x \in ToSet(K.members[c]) : K.choice[x] = c /\ BoolTri(x)} :
    /\ mode = 2 => val[i] = IF i = sel THEN 2 ELSE 0
    /\ val[i] <= mode
    /\ mode = 2 /\ i \in shown => Contains(K.members[c], sel) \/ Warned("default outside", c)
NumLegal(v, g) == g.has /\ g.lo <= g.hi => AsNum(v) \in g.lo..g.hi
ValuesLegal ==
  Settled =>
    With(Uncached(s), LAMBDA f :
    With([i \in K.syms |-> str_value(i, f).v], LAMBDA val :
      /\ \A i \in {x \in K.syms : BoolTri(x) /\ ~InChoice(x)} :
           With([e \in {K.dep[i], K.rev[i], K.weak[i]} |-> expr_value(e, f).v], LAMBDA v :
             TriLegal(i, item_type(i, f).v, val, [dep |-> v[K.dep[i]], rev |-> v[K.rev[i]], weak |-> v[K.weak[i]]]))
      /\ \A i \in K.syms : OrigType(i) = "int" => NumLegal(val[i], ActiveRange(i, f))
      /\ \A c \in K.choices :
           With(selection(c, f), LAMBDA sel :
             ChoiceLegal(c, choice_tri(c, f).v, sel.v, val, {i \in K.syms : visibility(i, f).v # 0}))))

(* Loading a configuration over another leaves what loading it first would    *)
(* have: no value the file does not mention survives.                         *)
Values(st) == With(Uncached(st), LAMBDA u : [i \in K.syms |-> str_value(i, u).v])
LoadReplaces ==
  Settled => \A f \in case.lines : With(load_config(f, TRUE, s), LAMBDA over :
                                    With(load_config(f, TRUE, NewState), LAMBDA fresh :
                                      over.uv = fresh.uv /\ Values(over) = Values(fresh)))

(* A symbol whose default is y where its prompt offers m at most; a choice in *)
(* y mode that has a mode m, with a symbol that has none.                     *)
AboveOffer(i, f) == visibility(i, f).v = 1 /\ tri_value(i, f).v = 2
BoolInTristate(c, f) == item_type(c, f).v = "tristate" /\ choice_tri(c, f).v = 2 /\ \E i \in ToSet(K.members[c]) : OrigType(i) = "bool"

(* A configuration that is written and read back gives every symbol the value *)
(* it had, unless some value is above what its prompt offers, and comes back  *)
(* as m; and so does the minimal one, which leaves most of it out, unless a   *)
(* choice is of the kind whose mode it leaves out (see MinIsFull).            *)
Reread(lines) == With(lines, LAMBDA ls : With(load_config(ls, TRUE, NewState), Values))
RoundTrip ==
  Settled => With(Uncached(s), LAMBDA f :
    (\A i \in K.syms : ~AboveOffer(i, f)) =>
      /\ Reread(config_contents(s).v) = Values(s)
      /\ (\A c \in K.choices : ~BoolInTristate(c, f)) => Reread(min_config_contents(s).v) = Values(s))

(* "Loading such a configuration file is equivalent to loading the "full"     *)
(* configuration file" (savedefconfig.py).                                    *)
MinIsFull == Settled => Reread(min_config_contents(s).v) = Reread(config_contents(s).v)

(* A save that could move the old .config away and is cut short leaves it, as *)
(* .config.old.  Where the move fails ("Errors are silently ignored",         *)
(* kconfiglib.py:1547) nothing is promised: the write truncates the one copy. *)
PrevKept == d.prev.ex => d.prev \in {d.conf, d.old}

(* What a build leaves was compiled with the values in the header: every      *)
(* change reached it as a touched file, whichever tools were killed between   *)
(* their steps, or inside the write of .config or of the header.  A symbol    *)
(* whose line a kill inside the write of auto.conf has cut off is excepted:   *)
(* set to n next, it looks unchanged (kconfiglib.py:1813) and is not touched, *)
(* and what was compiled with y stays.                                        *)
UpToDate == [][Build => \A i \in K.syms \ d.torn : d'.obj[i] = Value(d.hdr.lines, i)]_vars
=============================================================================
