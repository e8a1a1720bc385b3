-------------------------------- MODULE KTree --------------------------------
(* Kconfig expressions, the menu tree of a Kconfig file, and what            *)
(* Kconfig._init() does to the tree after parsing                            *)
(* (tools/kconfig/kconfiglib.py): dependencies go from parent to child       *)
(* nodes, properties from nodes to symbols and choices, items that depend    *)
(* on the symbol above them into an implicit menu under it, 'if's away.      *)
(* A node holds its children as a sequence; the source chains them.          *)
EXTENDS Integers, Sequences, FiniteSets, SequencesExt

(* The value e under a name: calculations that go step by step are written   *)
(* With(first, LAMBDA x : With(second of x, ...)).  Comparing e with itself  *)
(* makes TLC evaluate it there, once and not where Body uses it.             *)
With(e, Body(_)) == CASE e = e -> Body(e)

(* An expression.  A leaf is a symbol or a choice by name, one of the        *)
(* constants n, m, y, or another constant (a numeral or a quoted string,     *)
(* coded by an integer).  An inner node is a tuple whose head is the         *)
(* operator, as in the source.                                               *)
Item(i) == <<"item", i>>
Tri(t) == <<"tri", t>>
Lit(k) == <<"lit", k>>
EN == Tri(0)
EM == Tri(1)
EY == Tri(2)
And(a, b) == <<"and", a, b>>
Or(a, b) == <<"or", a, b>>
Not(a) == <<"not", a>>
Rel(r, a, b) == <<r, a, b>>
Relations == {"=", "!=", "<", "<=", ">", ">="}

IsLeaf(e) == e[1] \in {"item", "tri", "lit"}

(* The source's trivial simplifications when a condition is and-ed or       *)
(* or-ed onto another one.                                                  *)
make_and(e1, e2) ==
  IF e1 = EY THEN e2 ELSE IF e2 = EY THEN e1
  ELSE IF EN \in {e1, e2} THEN EN ELSE And(e1, e2)

make_or(e1, e2) ==
  IF e1 = EN THEN e2 ELSE IF e2 = EN THEN e1
  ELSE IF EY \in {e1, e2} THEN EY ELSE Or(e1, e2)

(* The symbols and choices an expression mentions; constants never change   *)
(* and are left out, as _depend_on() leaves them out.                       *)
RECURSIVE expr_items(_)
expr_items(e) ==
  IF IsLeaf(e) THEN (IF e[1] = "item" THEN {e[2]} ELSE {})
  ELSE UNION {expr_items(e[i]) : i \in 2..Len(e)}

(* Whether the expression forces sym to be non-n, the test that decides     *)
(* which items go into the implicit menu of sym.                            *)
RECURSIVE expr_depends_on(_, _)
expr_depends_on(e, sym) ==
  CASE IsLeaf(e) -> e = Item(sym)
    [] e[1] \in {"=", "!="} ->
         /\ Item(sym) \in {e[2], e[3]}
         /\ LET right == IF e[3] = Item(sym) THEN e[2] ELSE e[3]
            IN \/ e[1] = "=" /\ right = EM
               \/ right = EY
               \/ e[1] = "!=" /\ right = EN
    [] OTHER -> e[1] = "and" /\ (expr_depends_on(e[2], sym) \/ expr_depends_on(e[3], sym))

(* The parser's expressions: a recursive descent over the tokens from       *)
(* position i, returning the expression and the position after it, or       *)
(* position 0 for a malformed one.  With tm, m becomes m && MODULES.        *)
TokenIs(ts, i, t) == i \in 1..Len(ts) /\ ts[i] = t
IsOperand(ts, i) == i \in 1..Len(ts) /\ ts[i] \notin Relations \union {"&&", "||", "!", "(", ")", "if"}
Constants == [n |-> EN, m |-> EM, y |-> EY, str |-> Lit(-2)]
Numeral == <<"1", "2", "3">>
Operand(t) == IF t \in DOMAIN Constants THEN Constants[t]
              ELSE IF \E i \in 1..3 : Numeral[i] = t THEN Lit(CHOOSE i \in 1..3 : Numeral[i] = t) ELSE Item(t)
Parsed(e, i) == [e |-> e, i |-> i]
Malformed == Parsed(EN, 0)

RECURSIVE parse_expr(_, _, _), parse_and_expr(_, _, _), parse_factor(_, _, _)
parse_expr(ts, i, tm) ==
  With(parse_and_expr(ts, i, tm), LAMBDA l :
    IF l.i = 0 \/ ~TokenIs(ts, l.i, "||") THEN l
    ELSE With(parse_expr(ts, l.i + 1, tm), LAMBDA r :
           IF r.i = 0 THEN Malformed ELSE Parsed(Or(l.e, r.e), r.i)))

parse_and_expr(ts, i, tm) ==
  With(parse_factor(ts, i, tm), LAMBDA l :
    IF l.i = 0 \/ ~TokenIs(ts, l.i, "&&") THEN l
    ELSE With(parse_and_expr(ts, l.i + 1, tm), LAMBDA r :
           IF r.i = 0 THEN Malformed ELSE Parsed(And(l.e, r.e), r.i)))

parse_factor(ts, i, tm) ==
  CASE IsOperand(ts, i) ->
         IF i + 1 \in 1..Len(ts) /\ ts[i + 1] \in Relations
         THEN IF IsOperand(ts, i + 2)
              THEN Parsed(Rel(ts[i + 1], Operand(ts[i]), Operand(ts[i + 2])), i + 3)
              ELSE Malformed
         ELSE Parsed(IF tm /\ ts[i] = "m" THEN And(EM, Item("MODULES")) ELSE Operand(ts[i]), i + 1)
    [] TokenIs(ts, i, "!") ->
         With(parse_factor(ts, i + 1, tm), LAMBDA f : IF f.i = 0 THEN Malformed ELSE Parsed(Not(f.e), f.i))
    [] TokenIs(ts, i, "(") ->
         With(parse_expr(ts, i + 1, tm), LAMBDA e :
           IF e.i # 0 /\ TokenIs(ts, e.i, ")") THEN Parsed(e.e, e.i + 1) ELSE Malformed)
    [] OTHER -> Malformed

(* "if <expr>" at the end of a property line: y when there is none, and     *)
(* nothing may follow.                                                      *)
parse_cond(ts, i) ==
  With(IF TokenIs(ts, i, "if") THEN parse_expr(ts, i + 1, TRUE) ELSE Parsed(EY, i),
       LAMBDA e : IF e.i = Len(ts) + 1 THEN e ELSE Malformed)

NoPrompt == [has |-> FALSE, cond |-> EN]
Prompt(cond) == [has |-> TRUE, cond |-> cond]
(* A node as MenuNode() and _parse_block() leave it before its properties.  *)
Node(kind, item) ==
  [kind |-> kind, item |-> item, type |-> "unknown", optional |-> FALSE, dep |-> EY, visib |-> EY,
   prompt |-> IF kind \in {"menu", "comment"} THEN Prompt(EY) ELSE NoPrompt,
   menuconfig |-> kind \in {"menu", "choice"},
   defaults |-> <<>>, ranges |-> <<>>, selects |-> <<>>, implies |-> <<>>, list |-> <<>>]

RECURSIVE NodesOf(_)
(* Every node of a list, in the order of the file. *)
NodesOf(list) == IF list = <<>> THEN <<>>
                 ELSE <<Head(list)>> \o NodesOf(Head(list).list) \o NodesOf(Tail(list))

(* Without duplicates, in order. *)
ordered_unique(s) == FoldLeft(LAMBDA acc, x : IF Contains(acc, x) THEN acc ELSE Append(acc, x), <<>>, s)
Defined(list, kind) ==
  With(SelectSeq(NodesOf(list), LAMBDA n : n.kind = kind), LAMBDA of :
    ordered_unique([i \in 1..Len(of) |-> of[i].item]))

(* The type _set_type() leaves on an item: the last one given to it.        *)
set_type(list, item) ==
  FoldLeft(LAMBDA t, n : IF n.item = item /\ n.type # "unknown" THEN n.type ELSE t, "unknown",
           SelectSeq(NodesOf(list), LAMBDA n : n.kind \in {"sym", "choice"}))

(* Everything known of the items before the tree is finalized.              *)
NoChoice == "none"
Targets(props) == {props[i].sym : i \in DOMAIN props}
Named(nodes) == UNION {Targets(n.selects) \union Targets(n.implies) : n \in nodes}
Blank(nodes, order, choices, items, types) ==
  [order |-> order, syms |-> ToSet(order), choices |-> choices, type |-> types,
   prompts |-> [i \in items |-> <<>>], defaults |-> [i \in items |-> <<>>], ranges |-> [i \in items |-> <<>>],
   dep |-> [i \in items |-> EN], rev |-> [i \in items |-> EN], weak |-> [i \in items |-> EN],
   choice |-> [i \in items |-> NoChoice], members |-> [c \in choices |-> <<>>],
   optional |-> [c \in choices |-> \E n \in nodes : n.item = c /\ n.optional]]
Fresh(list) ==
  With(ToSet(NodesOf(list)), LAMBDA nodes :
  With(Defined(list, "sym"), LAMBDA order :
  With(ToSet(Defined(list, "choice")), LAMBDA choices :
  With(ToSet(order) \union choices \union Named(nodes), LAMBDA items :
    Blank(nodes, order, choices, items, [i \in items |-> set_type(list, i)])))))

(* The node's dependencies, or the choice itself, go to each child; 'visible *)
(* if' reaches only the prompts of symbols and choices.                      *)
WithCond(props, dep) == [i \in DOMAIN props |-> [props[i] EXCEPT !.cond = make_and(@, dep)]]
Under(c, dep, pdep) ==
  [c EXCEPT !.dep = dep, !.prompt.cond = IF c.prompt.has THEN make_and(@, pdep) ELSE @,
            !.defaults = WithCond(@, dep), !.ranges = WithCond(@, dep),
            !.selects = WithCond(@, dep), !.implies = WithCond(@, dep)]
(* Bug: 'visible if' does not reach choices.                                 *)
PropagateToSymbols(c, basedep, visible_if) ==
  With(make_and(c.dep, basedep), LAMBDA dep :
    Under(c, dep, IF c.kind = "sym" THEN make_and(visible_if, dep) ELSE dep))
PropagateTo(c, basedep, visible_if) ==
  With(make_and(c.dep, basedep), LAMBDA dep :
    Under(c, dep, IF c.kind \in {"sym", "choice"} THEN make_and(visible_if, dep) ELSE dep))
propagate_deps(nd, visible_if) ==
  [i \in DOMAIN nd.list |-> PropagateTo(nd.list[i], IF nd.kind = "choice" THEN Item(nd.item) ELSE nd.dep, visible_if)]

(* A node's properties go up to its symbol, selects and implies to the      *)
(* (weak) reverse dependencies of their targets.                            *)
AddRev(rev, sym, props) ==
  FoldLeft(LAMBDA r, p : [r EXCEPT ![p.sym] = make_or(@, make_and(Item(sym), p.cond))], rev, props)
AddPrompt(k, nd) == IF nd.prompt.has THEN [k EXCEPT !.prompts[nd.item] = Append(@, nd.prompt.cond)] ELSE k
add_props_to_sym(nd, k) ==
  [AddPrompt(k, nd) EXCEPT !.dep[nd.item] = make_or(@, nd.dep),
     !.defaults[nd.item] = @ \o nd.defaults, !.ranges[nd.item] = @ \o nd.ranges,
     !.rev = AddRev(@, nd.item, nd.selects), !.weak = AddRev(@, nd.item, nd.implies)]

auto_menu_dep(nd1, nd2) == expr_depends_on(IF nd2.prompt.has THEN nd2.prompt.cond ELSE nd2.dep, nd1.item)

(* Promptless nodes other than choices hand their children to the level     *)
(* they are on; then the 'if's go.                                          *)
RECURSIVE flatten(_)
flatten(list) ==
  IF list = <<>> THEN <<>>
  ELSE With(Head(list), LAMBDA h :
         IF h.list # <<>> /\ ~h.prompt.has /\ h.kind # "choice"
         THEN <<[h EXCEPT !.list = <<>>]>> \o flatten(h.list \o Tail(list))
         ELSE <<h>> \o flatten(Tail(list)))
remove_ifs(list) == SelectSeq(list, LAMBDA n : n.kind # "if")

(* The symbols directly under a choice become its choice symbols; the type  *)
(* of the choice and of untyped choice symbols is worked out.               *)
ChoiceType(t, typed, k) == IF t # "unknown" \/ typed = <<>> THEN t ELSE k.type[typed[1]]
WithMembers(c, new, syms, ctype, k) ==
  [k EXCEPT !.members[c] = syms,
            !.choice = [s \in DOMAIN @ |-> IF s \in new THEN c ELSE @[s]],
            !.type = [i \in DOMAIN @ |-> IF i = c \/ (@[i] = "unknown" /\ Contains(syms, i)) THEN ctype ELSE @[i]]]
finalize_choice(nd, k) ==
  With(SelectSeq(nd.list, LAMBDA n : n.kind = "sym"), LAMBDA under :
  With([i \in 1..Len(under) |-> under[i].item], LAMBDA new :
  With(k.members[nd.item] \o new, LAMBDA syms :
    WithMembers(nd.item, ToSet(new), syms,
                ChoiceType(k.type[nd.item], SelectSeq(syms, LAMBDA s : k.type[s] # "unknown"), k), k))))

(* _finalize_node(): the node, the siblings that are left beside it, and    *)
(* what is known of the items afterwards.                                   *)
Final(nd, rest, k) == [node |-> nd, rest |-> rest, k |-> k]
AddPropsToChoice(nd, k) ==
  [AddPrompt(k, nd) EXCEPT !.dep[nd.item] = make_or(@, nd.dep), !.defaults[nd.item] = @ \o nd.defaults]
RECURSIVE finalize_node(_, _, _, _), finalize_list(_, _, _), implicit_menu(_, _, _, _)
finalize_node(nd, rest, visible_if, k) ==
  With(IF nd.kind = "menu" THEN make_and(visible_if, nd.visib) ELSE visible_if, LAMBDA vis :
  With(IF nd.kind = "sym" THEN implicit_menu(nd, rest, visible_if, add_props_to_sym(nd, k))
       ELSE With(finalize_list(propagate_deps(nd, vis), vis, k), LAMBDA kids :
              Final([nd EXCEPT !.list = kids.list], rest, kids.k)), LAMBDA r :
  With([r.node EXCEPT !.list = remove_ifs(flatten(@))], LAMBDA done :
    Final(done, r.rest, IF nd.kind = "choice" THEN finalize_choice(done, AddPropsToChoice(nd, r.k)) ELSE r.k))))

finalize_list(list, visible_if, k) ==
  IF list = <<>> THEN [list |-> <<>>, k |-> k]
  ELSE With(finalize_node(Head(list), Tail(list), visible_if, k), LAMBDA r :
       With(finalize_list(r.rest, visible_if, r.k), LAMBDA t : [list |-> <<r.node>> \o t.list, k |-> t.k]))

implicit_menu(nd, rest, visible_if, k) ==
  IF rest # <<>> /\ auto_menu_dep(nd, rest[1])
  THEN With(finalize_node(Head(rest), Tail(rest), visible_if, k), LAMBDA r :
         implicit_menu([nd EXCEPT !.list = Append(@, r.node)], r.rest, visible_if, r.k))
  ELSE Final(nd, rest, k)

(* What an item's value may depend on, and the items to recalculate when    *)
(* one changes: the _dependents sets.                                       *)
Conds(props) == UNION {expr_items(props[i].cond) : i \in DOMAIN props}
DependsOn(k, i) ==
  UNION {expr_items(k.prompts[i][p]) : p \in DOMAIN k.prompts[i]} \union Conds(k.defaults[i]) \union
  IF i \in k.choices THEN {}
  ELSE UNION {expr_items(k.defaults[i][d].val) : d \in DOMAIN k.defaults[i]} \union Conds(k.ranges[i]) \union
       UNION {expr_items(k.ranges[i][r].lo) \union expr_items(k.ranges[i][r].hi) : r \in DOMAIN k.ranges[i]} \union
       expr_items(k.rev[i]) \union expr_items(k.weak[i]) \union expr_items(k.dep[i])
build_dep(k) ==
  With([i \in k.syms \union k.choices |-> DependsOn(k, i)], LAMBDA on :
    [i \in DOMAIN k.type |-> {x \in DOMAIN on : i \in on[x]}])
(* Bug: siblings in a choice do not follow each other.                       *)
add_choice_depsNone(k, deps) == deps
add_choice_deps(k, deps) ==
  [i \in DOMAIN deps |-> deps[i] \union {c \in k.choices : Contains(k.members[c], i)}]

(* The sanity checks: a default that is an expression stops an int, a string *)
(* or a choice; the rest are warnings <<what, about>>.  Left out is the one   *)
(* about the style of a string default.                                      *)
BoolTypes == {"bool", "tristate"}
Expressions(props) == \E n \in DOMAIN props : ~IsLeaf(props[n].val)
malformed_default(k) ==
  \E i \in k.syms \union k.choices : (i \in k.choices \/ k.type[i] \in {"int", "string"}) /\ Expressions(k.defaults[i])
num_ok(e, k) == IF e[1] = "item" THEN e[2] \in k.syms /\ k.type[e[2]] = "int" ELSE e[1] = "lit" /\ e[2] >= 0
Picks(nodes, i) == UNION {Targets(n.selects) \union Targets(n.implies) : n \in {x \in nodes : x.kind = "sym" /\ x.item = i}}
check_sym_sanity(k, nodes) ==
  LET typed(types) == {i \in k.syms : k.type[i] \in types}
      warn(what, items) == {<<what, i>> : i \in items}
  IN UNION {
       warn("picks a value", {i \in typed(BoolTypes) : \E t \in Picks(nodes, i) : k.type[t] \notin BoolTypes \union {"unknown"}}),
       warn("no number", {i \in typed({"int"}) : \E n \in DOMAIN k.defaults[i] : ~num_ok(k.defaults[i][n].val, k)}),
       warn("value picks", {i \in typed({"int", "string"}) : Picks(nodes, i) # {}}),
       warn("no type", typed({"unknown"})),
       warn("range", {i \in k.syms \ typed({"int"}) : k.ranges[i] # <<>>}),
       warn("range", {i \in typed({"int"}) : \E g \in ToSet(k.ranges[i]) : ~num_ok(g.lo, k) \/ ~num_ok(g.hi, k)})}

Within(nodes, c) == UNION {ToSet(n.list) : n \in {x \in nodes : x.kind = "choice" /\ x.item = c}}
Without(nodes, c) == UNION {ToSet(n.list) : n \in {x \in nodes : x.kind # "choice" \/ x.item # c}}
check_choice_sanity(k, nodes) ==
  LET choices(P(_)) == {c \in k.choices : P(c)}
      members(P(_, _)) == UNION {{i \in ToSet(k.members[c]) : P(i, c)} : c \in k.choices}
      warn(what, items) == {<<what, i>> : i \in items}
  IN UNION {
       warn("choice type", choices(LAMBDA c : k.type[c] \notin BoolTypes)),
       warn("no prompt", choices(LAMBDA c : k.prompts[c] = <<>>)),
       warn("default outside", choices(LAMBDA c : \E x \in ToSet(k.defaults[c]) :
              x.val[1] # "item" \/ x.val[2] \notin k.syms \/ k.choice[x.val[2]] # c)),
       warn("default", members(LAMBDA i, c : k.defaults[i] # <<>>)),
       warn("selected", members(LAMBDA i, c : k.rev[i] # EN)),
       warn("implied", members(LAMBDA i, c : k.weak[i] # EN)),
       warn("no prompt", members(LAMBDA i, c : \E n \in Within(nodes, c) : n.kind = "sym" /\ n.item = i /\ ~n.prompt.has)),
       warn("prompt outside", members(LAMBDA i, c : \E n \in Without(nodes, c) : n.kind = "sym" /\ n.item = i /\ n.prompt.has))}

(* Kconfig._init() after parsing, up to the loop check.                     *)
Kconfig(list) ==
  With(finalize_node([Node("menu", "top") EXCEPT !.list = list], <<>>, EY, Fresh(list)), LAMBDA top :
  With({top.node} \union ToSet(NodesOf(top.node.list)), LAMBDA nodes :
  With(build_dep(top.k), LAMBDA deps :
    [k |-> top.k, tree |-> top.node, malformed |-> malformed_default(top.k),
     warnings |-> IF malformed_default(top.k) THEN {} ELSE check_sym_sanity(top.k, nodes) \union check_choice_sanity(top.k, nodes),
     deps |-> deps, dependents |-> add_choice_deps(top.k, deps)])))
=============================================================================
