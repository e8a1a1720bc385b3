------------------------------- MODULE KValue --------------------------------
(* Values of symbols and choices (tools/kconfig/kconfiglib.py): visibility,  *)
(* tristate and string value, assignable values, the selection of a choice,  *)
(* with the caches that computing them fills and setting a value drops.      *)
(*                                                                           *)
(* A value is an integer: n, m, y are 0, 1, 2; other types' strings are      *)
(* their numerals (single digits, so that both orders agree), Empty, or the  *)
(* Name of an undefined symbol, which sorts after the numerals.  A state s   *)
(* has the user values (uv), user selections (usel), the items that were set *)
(* (was: _was_set, which unsetting leaves alone), the caches                 *)
(* (vis, tri, str, asg per symbol; vis, asg, sel per choice) and the         *)
(* _write_to_conf flags (wtc).  An evaluation returns the value v and the    *)
(* state s with the caches it filled on the way.                             *)
EXTENDS KTree

VARIABLE kc                     \* the Kconfig object: what KTree!Kconfig returns

None == -1
Empty == -2
Name == 100
NotCached == "?"
NoneSelected == "none"
K == kc.k
Items == K.syms \union K.choices
OrigType(i) == IF i \in DOMAIN K.type THEN K.type[i] ELSE "unknown"
BoolTri(i) == OrigType(i) \in {"bool", "tristate"}

Unset(items) == [i \in items |-> None]
NoCache == [vis |-> Unset(Items), tri |-> Unset(K.syms), str |-> Unset(K.syms),
            asg |-> [i \in Items |-> {None}], sel |-> [c \in K.choices |-> NotCached]]
Fields(s) == [vis |-> s.vis, tri |-> s.tri, str |-> s.str, asg |-> s.asg, sel |-> s.sel]
(* Symbol() and Choice(): nothing set, nothing cached.                       *)
NewState == [uv |-> Unset(Items), usel |-> [c \in K.choices |-> NoneSelected],
             vis |-> NoCache.vis, tri |-> NoCache.tri, str |-> NoCache.str, asg |-> NoCache.asg,
             sel |-> NoCache.sel, wtc |-> [i \in K.syms |-> FALSE], was |-> {}]
(* The same user values with nothing cached.                                 *)
Uncached(s) == [NewState EXCEPT !.uv = s.uv, !.usel = s.usel, !.was = s.was]

R(v, s) == [v |-> v, s |-> s]
Min2(a, b) == IF a < b THEN a ELSE b
Max2(a, b) == IF a > b THEN a ELSE b
HasPrompt(i) == K.prompts[i] # <<>>

(* The calculations call each other through one recursive operator: the      *)
(* accessors below name what they ask it for.                                *)
RECURSIVE calc(_, _, _)
expr_value(e, s) == calc("expr_value", e, s)
tri_value(i, s) == calc("tri_value", i, s)
str_value(i, s) == calc("str_value", i, s)
visibility(i, s) == calc("visibility", i, s)
choice_tri(c, s) == calc("choice_tri", c, s)
item_type(i, s) == calc("item_type", i, s)
selection(c, s) == calc("selection", c, s)
selection_from_defaults(c, s) == calc("selection_from_defaults", c, s)

RECURSIVE prompt_max(_, _, _), first_true(_, _, _), first_visible(_, _, _), default_visible(_, _, _)

(* Comparison of two operands: as numbers, or as strings when one is empty,  *)
(* which is below every other; Empty is coded below every numeral.           *)
comp(v1, v2) == v1 - v2
holds(rel, c) ==
  CASE rel = "=" -> c = 0 [] rel = "!=" -> c # 0 [] rel = "<" -> c < 0
    [] rel = "<=" -> c <= 0 [] rel = ">" -> c > 0 [] rel = ">=" -> c >= 0
LeafStr(e, s) == IF e[1] = "item" THEN str_value(e[2], s) ELSE R(e[2], s)
sym_to_num(e, s) == IF e[1] = "item" /\ BoolTri(e[2]) THEN tri_value(e[2], s) ELSE LeafStr(e, s)

Negated(r) == R(2 - r.v, r.s)
AndThen(l, e) == IF l.v = 0 THEN l ELSE With(expr_value(e, l.s), LAMBDA r : R(Min2(l.v, r.v), r.s))
OrElse(l, e) == IF l.v = 2 THEN l ELSE With(expr_value(e, l.s), LAMBDA r : R(Max2(l.v, r.v), r.s))
Compare(rel, l, e) == With(sym_to_num(e, l.s), LAMBDA r : R(IF holds(rel, comp(l.v, r.v)) THEN 2 ELSE 0, r.s))
calc_expr_value(e, s) ==
  CASE e[1] = "item" -> IF e[2] \in K.choices THEN choice_tri(e[2], s) ELSE tri_value(e[2], s)
    [] e[1] = "tri" -> R(e[2], s)
    [] e[1] = "lit" -> R(0, s)
    [] e[1] = "and" -> With(expr_value(e[2], s), LAMBDA l : AndThen(l, e[3]))
    [] e[1] = "or" -> With(expr_value(e[2], s), LAMBDA l : OrElse(l, e[3]))
    [] e[1] = "not" -> With(expr_value(e[2], s), Negated)
    [] OTHER -> With(sym_to_num(e[2], s), LAMBDA l : Compare(e[1], l, e[3]))

(* The largest of the prompt conditions from the p-th on.                    *)
prompt_max(i, p, s) ==
  IF p > Len(K.prompts[i]) THEN R(0, s)
  ELSE With(expr_value(K.prompts[i][p], s), LAMBDA c :
       With(prompt_max(i, p + 1, c.s), LAMBDA t : R(Max2(c.v, t.v), t.s)))

(* _visibility() and the caching property around it.  vis is the prompts'.   *)
InChoice(i) == i \in K.syms /\ K.choice[i] # NoChoice
OnlyInY(i) == InChoice(i) /\ OrigType(K.choice[i]) = "tristate" /\ OrigType(i) # "tristate"
NotInY(i, vis) == InChoice(i) /\ OrigType(i) = "tristate" /\ vis.v = 1
InMode(i, vis) ==
  IF OnlyInY(i) \/ NotInY(i, vis)
  THEN With(choice_tri(K.choice[i], vis.s), LAMBDA m : R(IF OnlyInY(i) = (m.v = 2) THEN vis.v ELSE 0, m.s))
  ELSE vis
(* An m that the type cannot express is a y.                                 *)
Promote(i, vis) ==
  IF vis.v # 1 THEN vis ELSE With(item_type(i, vis.s), LAMBDA t : R(IF t.v # "tristate" THEN 2 ELSE 1, t.s))
calc_visibility(i, s) ==
  IF i \notin Items THEN R(0, s)
  ELSE IF s.vis[i] # None THEN R(s.vis[i], s)
  ELSE With(prompt_max(i, 1, s), LAMBDA max :
       With(InMode(i, max), LAMBDA mode :
       With(Promote(i, mode), LAMBDA v : R(v.v, [v.s EXCEPT !.vis[i] = v.v]))))

(* The type in effect: a tristate is a bool in a y-mode choice and with      *)
(* modules off.                                                              *)
calc_item_type(i, s) ==
  IF OrigType(i) # "tristate" THEN R(OrigType(i), s)
  ELSE With(IF InChoice(i) THEN choice_tri(K.choice[i], s) ELSE R(0, s), LAMBDA m :
         IF m.v = 2 THEN R("bool", m.s)
         ELSE With(tri_value("MODULES", m.s), LAMBDA mods : R(IF mods.v = 0 THEN "bool" ELSE "tristate", mods.s)))

calc_choice_tri(c, s) ==
  With(visibility(c, s), LAMBDA vis :
  With(Min2(Max2(IF K.optional[c] THEN 0 ELSE 1, s.uv[c]), vis.v), LAMBDA v :
    IF v = 1 THEN With(item_type(c, vis.s), LAMBDA t : R(IF t.v = "bool" THEN 2 ELSE 1, t.s)) ELSE R(v, vis.s)))

(* The first of the properties whose condition is not n: its index (0 for    *)
(* none) and the condition's value.                                          *)
first_true(props, p, s) ==
  IF p > Len(props) THEN [p |-> 0, v |-> 0, s |-> s]
  ELSE With(expr_value(props[p].cond, s), LAMBDA c :
         IF c.v # 0 THEN [p |-> p, v |-> c.v, s |-> c.s] ELSE first_true(props, p + 1, c.s))

(* Value and _write_to_conf of a bool or tristate outside choices: the       *)
(* default, then what implies, then what selects it.                         *)
Written(v, w, s) == [v |-> v, w |-> w, s |-> s]
DefaultTri(i, s) ==
  With(first_true(K.defaults[i], 1, s), LAMBDA d :
    IF d.p = 0 THEN R(0, d.s)
    ELSE With(expr_value(K.defaults[i][d.p].val, d.s), LAMBDA x : R(Min2(x.v, d.v), x.s)))
Implied(i, b) ==
  With(expr_value(K.weak[i], b.s), LAMBDA wk :
    IF wk.v = 0 THEN [b EXCEPT !.s = wk.s]
    ELSE With(expr_value(K.dep[i], wk.s), LAMBDA dep :
           IF dep.v = 0 THEN [b EXCEPT !.s = dep.s] ELSE Written(Max2(wk.v, b.v), TRUE, dep.s)))

(* The warning about a select that exceeds the direct dependencies looks at  *)
(* every select, and so fills caches.                                        *)
RECURSIVE split_expr(_, _)
split_expr(e, op) == IF e[1] = op THEN split_expr(e[2], op) \o split_expr(e[3], op) ELSE <<e>>
Selector(select) == split_expr(select, "and")[1][2]
WarnSelector(select, s) ==
  With(expr_value(K.dep[Selector(select)], str_value(Selector(select), s).s), LAMBDA st :
    IF IsLeaf(select) THEN st.s ELSE expr_value(select[3], st.s).s)
warn_select_unsatisfied_deps(i, s0) ==
  FoldLeft(LAMBDA s, select :
             With(expr_value(select, s), LAMBDA sv :
             With(expr_value(K.dep[i], sv.s), LAMBDA dep :
               IF sv.v <= dep.v THEN dep.s ELSE WarnSelector(select, dep.s))),
           s0, split_expr(K.rev[i], "or"))
Selected(i, b) ==
  With(expr_value(K.rev[i], b.s), LAMBDA rv :
    IF rv.v = 0 THEN [b EXCEPT !.s = rv.s]
    ELSE With(expr_value(K.dep[i], rv.s), LAMBDA dep :
           Written(Max2(rv.v, b.v), TRUE, IF dep.v < rv.v THEN warn_select_unsatisfied_deps(i, dep.s) ELSE dep.s)))
PromoteTri(i, b) ==
  IF b.v # 1 THEN b
  ELSE With(item_type(i, b.s), LAMBDA t :
         IF t.v = "bool" THEN [b EXCEPT !.v = 2, !.s = t.s]
         ELSE With(expr_value(K.weak[i], t.s), LAMBDA wk : [b EXCEPT !.v = IF wk.v = 2 THEN 2 ELSE 1, !.s = wk.s]))
UserOrDefaultTri(i, vis) ==
  IF vis.v # 0 /\ vis.s.uv[i] # None THEN Written(Min2(vis.s.uv[i], vis.v), TRUE, vis.s)
  ELSE With(DefaultTri(i, vis.s), LAMBDA d : Implied(i, Written(d.v, vis.v # 0 \/ d.v # 0, d.s)))
plain_tri(i, vis) ==
  With(UserOrDefaultTri(i, vis), LAMBDA base : With(Selected(i, base), LAMBDA b : PromoteTri(i, b)))
(* Bug: what selects a choice symbol sets it.                                *)
choice_sym_triSelected(i, vis) ==
  IF vis.v = 2 THEN With(selection(K.choice[i], vis.s), LAMBDA c : Selected(i, Written(IF c.v = i THEN 2 ELSE 0, TRUE, c.s)))
  ELSE Written(IF vis.v # 0 /\ vis.s.uv[i] \notin {None, 0} THEN 1 ELSE 0, vis.v # 0, vis.s)
choice_sym_tri(i, vis) ==
  IF vis.v = 2 THEN With(selection(K.choice[i], vis.s), LAMBDA c : Written(IF c.v = i THEN 2 ELSE 0, TRUE, c.s))
  ELSE Written(IF vis.v # 0 /\ vis.s.uv[i] \notin {None, 0} THEN 1 ELSE 0, vis.v # 0, vis.s)

calc_tri_value(i, s) ==
  IF ~BoolTri(i) THEN R(0, IF i \in K.syms THEN [s EXCEPT !.tri[i] = 0] ELSE s)
  ELSE IF s.tri[i] # None THEN R(s.tri[i], s)
  ELSE With(visibility(i, s), LAMBDA vis :
       With(IF InChoice(i) THEN choice_sym_tri(i, vis) ELSE plain_tri(i, vis), LAMBDA b :
         R(b.v, [b.s EXCEPT !.tri[i] = b.v, !.wtc[i] = b.w])))

(* int and hex: a user value outside the active range is ignored, a default  *)
(* is clamped to it, and so is "no default".                                 *)
AsNum(v) == IF v \in {Empty, Name} THEN 0 ELSE v
ActiveRange(i, s) ==
  With(first_true(K.ranges[i], 1, s), LAMBDA g :
    IF g.p = 0 THEN [has |-> FALSE, s |-> g.s]
    ELSE With(LeafStr(K.ranges[i][g.p].lo, g.s), LAMBDA lo :
         With(LeafStr(K.ranges[i][g.p].hi, lo.s), LAMBDA hi :
           [has |-> TRUE, lo |-> AsNum(lo.v), hi |-> AsNum(hi.v), s |-> hi.s])))
(* Bug: only the lower end counts.                                           *)
ClampedLow(v, g) == IF ~g.has \/ AsNum(v) >= g.lo THEN v ELSE g.lo
Clamped(v, g) ==
  IF ~g.has \/ AsNum(v) \in g.lo..g.hi THEN v ELSE IF AsNum(v) < g.lo THEN g.lo ELSE g.hi
(* The first default that holds, which makes the symbol written.             *)
StrDefault(i, written, s) ==
  With(first_true(K.defaults[i], 1, s), LAMBDA d :
    IF d.p = 0 THEN Written(Empty, written, d.s)
    ELSE With(LeafStr(K.defaults[i][d.p].val, d.s), LAMBDA x : Written(x.v, TRUE, x.s)))
int_value(i, vis) ==
  With(ActiveRange(i, vis.s), LAMBDA g :
    IF vis.v # 0 /\ vis.s.uv[i] # None /\ (g.has => vis.s.uv[i] \in g.lo..g.hi)
    THEN Written(vis.s.uv[i], TRUE, g.s)
    ELSE With(StrDefault(i, vis.v # 0, g.s), LAMBDA b : [b EXCEPT !.v = Clamped(@, g)]))
string_value(i, vis) ==
  IF vis.v # 0 /\ vis.s.uv[i] # None THEN Written(vis.s.uv[i], TRUE, vis.s) ELSE StrDefault(i, vis.v # 0, vis.s)

calc_str_value(i, s) ==
  IF OrigType(i) = "unknown" THEN R(Name, s)
  ELSE IF s.str[i] # None THEN R(s.str[i], s)
  ELSE IF BoolTri(i) THEN With(tri_value(i, s), LAMBDA t : R(t.v, [t.s EXCEPT !.str[i] = t.v]))
  ELSE With(visibility(i, s), LAMBDA vis :
       With(IF OrigType(i) = "int" THEN int_value(i, vis) ELSE string_value(i, vis), LAMBDA b :
         R(b.v, [b.s EXCEPT !.str[i] = b.v, !.wtc[i] = b.w])))

(* The selected symbol of a y-mode choice: the user's if visible, else the   *)
(* first default that holds and is visible, else the first visible symbol.   *)
AndVisible(d, s) == With(expr_value(d.cond, s), LAMBDA c :
  IF c.v = 0 \/ d.val[1] # "item" THEN R(0, c.s) ELSE visibility(d.val[2], c.s))
default_visible(c, p, s) ==
  IF p > Len(K.defaults[c]) THEN R(NoneSelected, s)
  ELSE With(AndVisible(K.defaults[c][p], s), LAMBDA vis :
         IF vis.v # 0 THEN R(K.defaults[c][p].val[2], vis.s) ELSE default_visible(c, p + 1, vis.s))
first_visible(syms, p, s) ==
  IF p > Len(syms) THEN R(NoneSelected, s)
  ELSE With(visibility(syms[p], s), LAMBDA vis :
         IF vis.v # 0 THEN R(syms[p], vis.s) ELSE first_visible(syms, p + 1, vis.s))
calc_selection_from_defaults(c, s) ==
  With(default_visible(c, 1, s), LAMBDA d : IF d.v # NoneSelected THEN d ELSE first_visible(K.members[c], 1, d.s))
UserOrDefault(c, u, s) ==
  With(IF u = NoneSelected THEN R(0, s) ELSE visibility(u, s), LAMBDA vis :
    IF vis.v # 0 THEN R(u, vis.s) ELSE selection_from_defaults(c, vis.s))
calc_selection(c, s) ==
  IF s.sel[c] # NotCached THEN R(s.sel[c], s)
  ELSE With(With(choice_tri(c, s), LAMBDA m :
              IF m.v # 2 THEN R(NoneSelected, m.s) ELSE UserOrDefault(c, s.usel[c], m.s)), LAMBDA v :
         R(v.v, [v.s EXCEPT !.sel[c] = v.v]))

calc(what, x, s) ==
  CASE what = "expr_value" -> calc_expr_value(x, s)
    [] what = "tri_value" -> calc_tri_value(x, s)
    [] what = "str_value" -> calc_str_value(x, s)
    [] what = "visibility" -> calc_visibility(x, s)
    [] what = "choice_tri" -> calc_choice_tri(x, s)
    [] what = "item_type" -> calc_item_type(x, s)
    [] what = "selection" -> calc_selection(x, s)
    [] what = "selection_from_defaults" -> calc_selection_from_defaults(x, s)

(* The values a user can give a bool, tristate or choice now.                *)
YOnly(i, s) ==
  With(item_type(i, s), LAMBDA t :
    IF t.v = "bool" THEN R(TRUE, t.s) ELSE With(expr_value(K.weak[i], t.s), LAMBDA wk : R(wk.v = 2, wk.s)))
AssignableY(i, rv) ==
  IF InChoice(i) \/ rv.v = 2 THEN R({2}, rv.s)
  ELSE With(YOnly(i, rv.s), LAMBDA y : R((IF rv.v = 0 THEN {0, 2} ELSE {2}) \union (IF y.v THEN {} ELSE {1}), y.s))
AssignableM(i, rv) ==
  IF rv.v # 0 THEN R({rv.v}, rv.s)
  ELSE With(expr_value(K.weak[i], rv.s), LAMBDA wk : R(IF wk.v # 2 THEN {0, 1} ELSE {0, 2}, wk.s))
sym_assignable(i, s) ==
  IF ~BoolTri(i) THEN R({}, s)
  ELSE With(visibility(i, s), LAMBDA vis :
         IF vis.v = 0 THEN R({}, vis.s)
         ELSE With(expr_value(K.rev[i], vis.s), LAMBDA rv :
                IF vis.v = 2 THEN AssignableY(i, rv) ELSE AssignableM(i, rv)))
choice_assignable(c, s) ==
  With(visibility(c, s), LAMBDA vis :
  With(IF K.optional[c] THEN {0} ELSE {}, LAMBDA zero :
    IF vis.v = 0 THEN R({}, vis.s)
    ELSE IF vis.v = 1 THEN R(zero \union {1}, vis.s)
    ELSE With(item_type(c, vis.s), LAMBDA t : R(zero \union (IF t.v = "bool" THEN {2} ELSE {1, 2}), t.s))))
assignable(i, s) ==
  IF s.asg[i] # {None} THEN R(s.asg[i], s)
  ELSE With(IF i \in K.choices THEN choice_assignable(i, s) ELSE sym_assignable(i, s), LAMBDA a :
         R(a.v, [a.s EXCEPT !.asg[i] = a.v]))

(* What the symbol's line in a .config says, or that it has none.            *)
NoLine == -3
config_string(i, s) == With(str_value(i, s), LAMBDA t : R(IF t.s.wtc[i] THEN t.v ELSE NoLine, t.s))

(* The value without a user value, as the minimal configuration sees it.     *)
BoolDefault(i, s) ==
  With(DefaultTri(i, s), LAMBDA dv :
  With(expr_value(K.rev[i], dv.s), LAMBDA rv :
  With(expr_value(K.weak[i], rv.s), LAMBDA wk :
  With(Max2(Max2(rv.v, wk.v), dv.v), LAMBDA v :
    IF v = 1 THEN With(item_type(i, wk.s), LAMBDA t : R(IF t.v = "bool" THEN 2 ELSE 1, t.s)) ELSE R(v, wk.s)))))
str_default(i, s) ==
  IF OrigType(i) = "unknown" THEN R(Empty, s)
  ELSE IF ~BoolTri(i) THEN With(StrDefault(i, FALSE, s), LAMBDA b : R(b.v, b.s))
  ELSE IF InChoice(i) THEN R(0, s) ELSE BoolDefault(i, s)

(* Setting and unsetting user values, and the invalidation that has to drop  *)
(* exactly the caches a change makes stale.                                  *)

(* _write_to_conf belongs to the cached value: it is only read after the     *)
(* value, which sets it again, so that it may be dropped with it.            *)
invalidate(i, s) ==
  IF i \in K.choices THEN [s EXCEPT !.vis[i] = None, !.asg[i] = {None}, !.sel[i] = NotCached]
  ELSE [s EXCEPT !.vis[i] = None, !.asg[i] = {None}, !.tri[i] = None, !.str[i] = None, !.wtc[i] = FALSE]

invalidate_all(s) == Uncached(s)

(* From an item to its dependents, stopping at those with no cached          *)
(* visibility; MODULES drops everything.                                     *)
RECURSIVE rec_invalidate(_, _)
rec_invalidate(i, s) ==
  IF i = "MODULES" THEN invalidate_all(s)
  ELSE FoldSet(LAMBDA d, t : IF t.vis[d] # None THEN rec_invalidate(d, t) ELSE t, invalidate(i, s), kc.dependents[i])
rec_invalidate_if_has_prompt(i, s) == IF HasPrompt(i) THEN rec_invalidate(i, s) ELSE s

ValidFor(i, v) ==
  CASE OrigType(i) = "bool" -> v \in {0, 2}
    [] OrigType(i) = "tristate" -> v \in 0..2
    [] OrigType(i) = "unknown" -> FALSE
    [] OTHER -> v >= 0

(* set_value(): r is what it returns.                                        *)
Did(r, s) == [r |-> r, s |-> s]
Mark(items, s) == [s EXCEPT !.was = @ \union items]
sym_set_value(i, v, s) ==
  IF v = s.uv[i] /\ ~InChoice(i) THEN Did(TRUE, Mark({i}, s))
  ELSE IF ~ValidFor(i, v) THEN Did(FALSE, s)
  ELSE IF InChoice(i) /\ v = 2
       THEN With(K.choice[i], LAMBDA c :
              Did(TRUE, rec_invalidate(c, Mark({i, c}, [s EXCEPT !.uv[i] = v, !.usel[c] = i]))))
  ELSE Did(TRUE, rec_invalidate_if_has_prompt(i, Mark({i}, [s EXCEPT !.uv[i] = v])))

choice_set_value(c, v, s) ==
  IF v = s.uv[c] THEN Did(TRUE, Mark({c}, s))
  ELSE IF ~ValidFor(c, v) THEN Did(FALSE, s)
  ELSE Did(TRUE, rec_invalidate(c, Mark({c}, [s EXCEPT !.uv[c] = v])))
set_value(i, v, s) == IF i \in K.choices THEN choice_set_value(i, v, s) ELSE sym_set_value(i, v, s)

unset_value(i, s) ==
  IF i \in K.choices
  THEN IF s.uv[i] # None \/ s.usel[i] # NoneSelected
       THEN rec_invalidate(i, [s EXCEPT !.uv[i] = None, !.usel[i] = NoneSelected]) ELSE s
  ELSE IF s.uv[i] # None THEN rec_invalidate_if_has_prompt(i, [s EXCEPT !.uv[i] = None]) ELSE s

unset_values(s) == FoldSet(unset_value, s, Items)

-----------------------------------------------------------------------------
(* The files of the configuration: loading a .config, and what goes into a   *)
(* .config, a minimal configuration, the C header and auto.conf.  A file is  *)
(* a sequence of lines <<symbol, value>>; "# A is not set" and "A=n" are     *)
(* both <<"A", 0>>.                                                          *)
(* One line of a .config.  A value for a choice symbol sets the choice's     *)
(* mode first.  The warning about a symbol that is set again looks up its    *)
(* user value, which a bool or tristate may have lost since: KeyError.       *)
(* Bug: the mode of a choice is not inferred.                                *)
LoadModeNone(sym, v, s) == s
LoadMode(sym, v, s) ==
  IF BoolTri(sym) /\ InChoice(sym) /\ v # 0 THEN choice_set_value(K.choice[sym], v, s).s ELSE s
assigned_twice(sym, r) == [r EXCEPT !.raised = sym \in r.s.was /\ BoolTri(sym) /\ r.s.uv[sym] = None]
SetLoaded(sym, v, r) == IF r.raised THEN r ELSE [r EXCEPT !.s = sym_set_value(sym, v, @).s]
LoadLine(r, line) ==
  IF r.raised \/ line[1] \notin K.syms \/ (BoolTri(line[1]) /\ ~ValidFor(line[1], line[2])) THEN r
  ELSE SetLoaded(line[1], line[2], assigned_twice(line[1], [r EXCEPT !.s = LoadMode(line[1], line[2], @)]))

(* With replace, what the file did not set is unset afterwards.              *)
(* Bug: choices keep their mode and selection.                               *)
UnsetRestSymbols(s0) == FoldLeft(LAMBDA s, i : IF i \in s0.was THEN s ELSE unset_value(i, s), s0, K.order)
UnsetRest(s0) ==
  FoldSet(unset_value, FoldLeft(LAMBDA s, i : IF i \in s0.was THEN s ELSE unset_value(i, s), s0, K.order),
          K.choices \ s0.was)
load_config(lines, replace, s) ==
  With(FoldLeft(LoadLine, [s |-> IF replace THEN [s EXCEPT !.was = {}] ELSE s, raised |-> FALSE], lines), LAMBDA r :
    IF replace THEN UnsetRest(r.s) ELSE r.s)

(* A full .config: the tree in order, each symbol once.  Menus and comments  *)
(* give comment lines, for which their conditions are evaluated.             *)
NodeComment(r, n) ==
  With(expr_value(n.dep, r.s), LAMBDA dep :
    [r EXCEPT !.s = IF n.kind = "menu" /\ dep.v # 0 THEN expr_value(n.visib, dep.s).s ELSE dep.s])
NodeLine(r, i) ==
  With(config_string(i, r.s), LAMBDA c :
    [v |-> IF c.v = NoLine THEN r.v ELSE Append(r.v, <<i, c.v>>), s |-> c.s, seen |-> r.seen \union {i}])
config_contents(s0) ==
  With(FoldLeft(LAMBDA r0, n : With(r0, LAMBDA r : IF n.kind # "sym" THEN NodeComment(r, n)
                              ELSE IF n.item \in r.seen THEN r ELSE NodeLine(r, n.item)),
                [v |-> <<>>, s |-> s0, seen |-> {}], NodesOf(kc.tree.list)), LAMBDA out : R(out.v, out.s))

(* A minimal configuration leaves out the symbols that cannot be changed,    *)
(* those at their default and those a choice selects by default.             *)
Unchangeable(i, s) ==
  IF InChoice(i) THEN R(FALSE, s)
  ELSE With(visibility(i, s), LAMBDA vis :
       With(expr_value(K.rev[i], vis.s), LAMBDA rv : R(vis.v <= rv.v, rv.s)))
(* Bug: an optional choice may be in n mode.                                 *)
SelectedByDefaultOptional(i, s) ==
  IF ~InChoice(i) THEN R(FALSE, s)
  ELSE With(selection_from_defaults(K.choice[i], s), LAMBDA sel :
         IF sel.v # i \/ OrigType(i) # "bool" THEN R(FALSE, sel.s)
         ELSE With(tri_value(i, sel.s), LAMBDA t : R(t.v = 2, t.s)))
SelectedByDefault(i, s) ==
  IF ~InChoice(i) \/ K.optional[K.choice[i]] THEN R(FALSE, s)
  ELSE With(selection_from_defaults(K.choice[i], s), LAMBDA sel :
         IF sel.v # i \/ OrigType(i) # "bool" THEN R(FALSE, sel.s)
         ELSE With(tri_value(i, sel.s), LAMBDA t : R(t.v = 2, t.s)))
MinSkips(i, s0) ==
  With(Unchangeable(i, s0), LAMBDA fixed :
    IF fixed.v THEN fixed
    ELSE With(str_value(i, fixed.s), LAMBDA v :
         With(str_default(i, v.s), LAMBDA def :
           IF v.v = def.v THEN R(TRUE, def.s) ELSE SelectedByDefault(i, def.s))))
(* The lines of the symbols that Skips leaves in, in order.                  *)
Lines(Skips(_, _), s0) ==
  FoldLeft(LAMBDA r0, i : With(r0, LAMBDA r : With(Skips(i, r.s), LAMBDA skip :
                         With(config_string(i, skip.s), LAMBDA c :
                           IF skip.v THEN R(r.v, skip.s)
                           ELSE R(IF c.v = NoLine THEN r.v ELSE Append(r.v, <<i, c.v>>), c.s)))),
           R(<<>>, s0), K.order)
min_config_contents(s0) == Lines(MinSkips, s0)

(* The header's #defines and auto.conf's lines: n and an unwritten symbol    *)
(* both leave nothing.                                                       *)
LeavesNothing(i, s) == With(config_string(i, s), LAMBDA c : R(BoolTri(i) /\ c.v = 0, c.s))
Defines(s0) == Lines(LeavesNothing, s0)
autoconf_contents(s) == Defines(s)
old_vals_contents(s) == Defines(s)

(* What auto.conf says of each symbol, and the symbols sync_deps() touches:  *)
(* those that are defined differently now.                                   *)
load_old_vals(lines) ==
  FoldLeft(LAMBDA old, line : IF line[1] \in K.syms THEN [old EXCEPT ![line[1]] = line[2]] ELSE old,
           Unset(K.syms), lines)
Changed(i, old, s) ==
  With(str_value(i, s), LAMBDA t :
    ~IF t.s.wtc[i] THEN t.v = old \/ (old = None /\ BoolTri(i) /\ t.v = 0) ELSE old = None)
changed_syms(lines, s) == With(load_old_vals(lines), LAMBDA old : SelectSeq(K.order, LAMBDA i : Changed(i, old[i], s)))
=============================================================================
