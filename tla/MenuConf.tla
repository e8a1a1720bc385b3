------------------------------ MODULE MenuConf -------------------------------
(* The configuration interface (tools/kconfig/menuconfig.py) on a Kconfig:   *)
(* the list of the current menu with its selection and scroll, the dialogs   *)
(* above it, and the files it loads and saves.  A node is the path to it in  *)
(* the tree.  Symbols are evaluated from their user values: what they have   *)
(* cached is what that gives (CacheCoherent).                                *)
EXTENDS Kconf

CONSTANTS SCROLL_OFFSET, MIN_WIDTH, \* _SCROLL_OFFSET, _INPUT_DIALOG_MIN_WIDTH
          Terms,                \* the terminal sizes [rows, cols]
          TextMax,              \* bound: the characters in an edit box
          StrayMax,             \* bound: how far the selection strays in an empty list
          InfoLines             \* the lines of an information text

VARIABLE u                      \* the interface, with the values under .s
mvars == <<vars, u>>
Menu == phase = "menu"

NoScreen == [n |-> 1, h |-> 1, sel |-> 0, scroll |-> 0]
Shown == [n |-> Len(u.shown), h |-> u.h, sel |-> u.sel, scroll |-> u.scroll]
List == INSTANCE Scroll WITH v <- IF Menu /\ u.end = "" THEN Shown ELSE NoScreen

W(x) == List!View(Len(x.shown), x.h, x.sel, x.scroll)
Put(x, w) == [x EXCEPT !.sel = w.sel, !.scroll = w.scroll, !.h = w.h]
SelNode(x) == x.shown[x.sel + 1]
IndexOf(list, q) == SelectInSeq(list, LAMBDA y : y = q) - 1
Crash(x) == [x EXCEPT !.end = "crash"]  \* an uncaught ValueError

NodeAt(q) == FoldLeft(LAMBDA nd, i : nd.list[i], kc.tree, q)
Kids(q) == [i \in 1..Len(NodeAt(q).list) |-> Append(q, i)]
RECURSIVE PathsUnder(_), rec(_, _, _)
PathsUnder(q) == FoldLeft(LAMBDA acc, kid : Append(acc, kid) \o PathsUnder(kid), <<>>, Kids(q))
NodesOfItem(kind, i) == SelectSeq(PathsUnder(<<>>), LAMBDA q : NodeAt(q).kind = kind /\ NodeAt(q).item = i)
Changes(nd) == nd.kind \in {"sym", "choice"}

-----------------------------------------------------------------------------
(* What is shown.                                                            *)
IsOn(e, st) == expr_value(e, st).v # 0
PromptOn(nd, st) == nd.prompt.has /\ IsOn(nd.prompt.cond, st)
visible(nd, st) == nd.prompt.has /\ \A e \in {nd.prompt.cond} \union (IF nd.kind = "menu" THEN {nd.visib} ELSE {}) : IsOn(e, st)
Shows1(nd, q, all, st) ==
  IF visible(nd, st) \/ all THEN <<q>> \o (IF nd.menuconfig THEN <<>> ELSE rec(q, all, st))
  ELSE IF nd.kind # "sym" \/ nd.list = <<>> THEN <<>>
  ELSE With(rec(q, all, st), LAMBDA kids :
         IF kids = <<>> THEN <<>> ELSE <<q>> \o (IF nd.menuconfig THEN <<>> ELSE kids))
rec(q, all, st) == FoldLeft(LAMBDA acc, kid : acc \o Shows1(NodeAt(kid), kid, all, st), <<>>, Kids(q))
(* A choice shows what all its definitions hold, each symbol once.           *)
SymbolsAt(list) == {NodeAt(q).item : q \in {x \in ToSet(list) : NodeAt(x).kind = "sym"}}
Gather(menu, at, list, acc) ==
  FoldLeft(LAMBDA r, q : IF NodeAt(q).item \in r.seen /\ at # menu THEN r
                         ELSE [res |-> Append(r.res, q), seen |-> r.seen \union SymbolsAt(<<q>>)], acc, list)
shown_nodes(menu, all, st) ==
  LET nodes == IF NodeAt(menu).kind = "choice" THEN NodesOfItem("choice", NodeAt(menu).item) ELSE <<menu>>
  IN With([at \in ToSet(nodes) |-> rec(at, all, st)], LAMBDA lists :
       FoldLeft(LAMBDA acc, at : Gather(menu, at, lists[at], acc), [res |-> <<>>, seen |-> SymbolsAt(lists[menu])], nodes).res)
ShownIn(x, menu) == shown_nodes(menu, x.all, x.s)
parent_menu(q) == CHOOSE o \in Prefixes(Front(q)) :
  /\ NodeAt(o).menuconfig
  /\ \A o2 \in Prefixes(Front(q)) : NodeAt(o2).menuconfig => Len(o2) <= Len(o)

-----------------------------------------------------------------------------
(* Moving around.                                                            *)
center(x) == Put(x, List!center_vertically(W(x)))
menu_win_height(term, help) == List!Larger(term.rows - (IF help THEN 8 ELSE 4) - 3, 1)
resize_main(x) == Put(x, List!resize(W(x), menu_win_height(x.term, x.help)))

FirstShown(x, nodes) == SelectSeq(nodes, LAMBDA q : Contains(x.shown, q))
select_selected_choice_sym(x) ==
  IF NodeAt(x.menu).kind # "choice" THEN x
  ELSE With(selection(NodeAt(x.menu).item, x.s).v, LAMBDA i :
       With(FirstShown(x, NodesOfItem("sym", i)), LAMBDA nodes :
         IF nodes = <<>> THEN x ELSE center([x EXCEPT !.sel = IndexOf(x.shown, nodes[1])])))

Enterable(x, q) == NodeAt(q).menuconfig /\ ShownIn(x, q) # <<>>
enter_menu(x, q) ==
  select_selected_choice_sym([x EXCEPT !.rows = Append(@, x.sel - x.scroll), !.menu = q, !.shown = ShownIn(x, q),
                                       !.sel = 0, !.scroll = 0])

(* Bug: the window may have become smaller than the row.                     *)
ParentRowAny(x) == Last(x.rows)
ParentRow(x) == List!Smaller(Last(x.rows), x.h - 1)
ToParent(x, shown, parent) ==
  With([x EXCEPT !.shown = shown, !.sel = IndexOf(shown, x.menu), !.menu = parent], LAMBDA y :
    IF x.rows = <<>> THEN center(y) ELSE [Put(y, List!to_row(W(y), ParentRow(x))) EXCEPT !.rows = Front(@)])
leave_menu(x) ==
  IF x.menu = <<>> THEN x
  ELSE With(parent_menu(x.menu), LAMBDA parent :
       With(ShownIn(x, parent), LAMBDA shown :
         IF Contains(shown, x.menu) THEN ToParent(x, shown, parent) ELSE Crash(x)))

(* The selected node, or the closest one before or else after it, stays      *)
(* selected; when none is left, show-all mode stays on.                      *)
Closest(x, new) ==
  LET before == SelectLastInSeq(SubSeq(x.shown, 1, x.sel + 1), LAMBDA q : Contains(new, q))
      after == SelectInSeq(x.shown, LAMBDA q : Contains(new, q))
  IN IF before # 0 THEN before ELSE after
toggle_show_all(x) ==
  With(shown_nodes(x.menu, ~x.all, x.s), LAMBDA new :
  With(Closest(x, new), LAMBDA at :
    IF at = 0 THEN [x EXCEPT !.all = TRUE]
    ELSE With([x EXCEPT !.all = ~@, !.shown = new, !.sel = IndexOf(new, x.shown[at])], LAMBDA y :
           Put(y, List!to_row(W(y), x.sel - x.scroll)))))

Into(q) == NodeAt(q).kind \in {"choice", "menu"} /\ NodeAt(q).list # <<>>
JumpShown(x, q) ==
  With(ShownIn(x, x.menu), LAMBDA shown :
    IF Contains(shown, q) THEN [x EXCEPT !.shown = shown]
    ELSE [x EXCEPT !.all = TRUE, !.shown = shown_nodes(x.menu, TRUE, x.s)])
JumpSelect(x, q, all) ==
  IF ~Contains(x.shown, q) THEN Crash(x)
  ELSE With([x EXCEPT !.sel = IndexOf(x.shown, q)], LAMBDA y :
         center(IF x.all /\ ~all THEN toggle_show_all(y) ELSE y))
jump_to(x, q) ==
  LET to == IF Into(q) THEN Append(q, 1) ELSE q
      menu == IF Into(q) THEN q ELSE parent_menu(q)
  IN With(JumpSelect(JumpShown([x EXCEPT !.rows = <<>>, !.menu = menu], to), to, ~Into(q) \/ x.all), LAMBDA y :
       IF Into(q) THEN select_selected_choice_sym(y) ELSE y)

-----------------------------------------------------------------------------
(* Changing values.                                                          *)
(* Bug: the scroll stays as it is.                                           *)
update_menuScroll(x) ==
  With(ShownIn(x, x.menu), LAMBDA new :
    IF ~Contains(new, SelNode(x)) THEN Crash(x)
    ELSE [x EXCEPT !.shown = new, !.sel = IndexOf(new, SelNode(x))])
update_menu(x) ==
  With(ShownIn(x, x.menu), LAMBDA new :
    IF ~Contains(new, SelNode(x)) THEN Crash(x)
    ELSE With([x EXCEPT !.shown = new, !.sel = IndexOf(new, SelNode(x))], LAMBDA y :
           Put(y, List!to_row(W(y), x.sel - x.scroll))))

ValueOf(i, st) == IF i \in K.choices THEN choice_tri(i, st).v ELSE str_value(i, st).v
(* Bug: the change is forgotten.                                             *)
set_valUnmarked(x, i, val) ==
  IF val = ValueOf(i, x.s) THEN x ELSE update_menu([x EXCEPT !.s = Uncached(set_value(i, val, @).s)])
set_val(x, i, val) ==
  IF val = ValueOf(i, x.s) THEN x
  ELSE update_menu([x EXCEPT !.s = Uncached(set_value(i, val, @).s), !.changed = TRUE])

is_y_mode_choice_sym(i, st) == InChoice(i) /\ visibility(i, st).v = 2
IsText(i) == OrigType(i) \in {"int", "string"}
changeable(x, nd) ==
  /\ Changes(nd) /\ PromptOn(nd, x.s)
  /\ IsText(nd.item) \/ Cardinality(assignable(nd.item, x.s).v) > 1 \/ is_y_mode_choice_sym(nd.item, x.s)
NextValue(vals, val) == LET above == {x \in vals : x > val} IN Min(IF above = {} THEN vals ELSE above)
Toggle(x, i) ==
  With(assignable(i, x.s).v, LAMBDA vals :
  With(ValueOf(i, x.s), LAMBDA val :
    IF Cardinality(vals) # 1 /\ val \notin vals THEN Crash(x) ELSE set_val(x, i, NextValue(vals, val))))
AfterChange(x, nd) ==
  IF x.end = "" /\ is_y_mode_choice_sym(nd.item, x.s) /\ nd.list = <<>> THEN leave_menu(x) ELSE x

-----------------------------------------------------------------------------
(* Dialogs: the stack of them, the last one on top.                          *)
InputWidth(term) == List!Smaller(MIN_WIDTH, term.cols) - 4
JumpWidth(term) == term.cols - 2
MatchesHeight(term) == List!Larger(term.rows - 5 - 4, 1)
TextHeight(term) == List!Larger(term.rows - 1 - 2, 1)
Inputs == {"load", "save", "min", "value"}
FullScreen == {"jump", "info"}
Box(len, hs) == [len |-> len, i |-> len, hs |-> hs]
(* fit: no resize since the box was last scrolled.                           *)
Dlg(kind, box) == [kind |-> kind, box |-> box, fit |-> TRUE, list |-> <<>>, sel |-> 0, scroll |-> 0, name |-> "conf"]
Plain(kind) == Dlg(kind, Box(0, 0))
input_dialog(kind, x) == Dlg(kind, Box(TextMax - 1, List!Larger(TextMax - 1 - InputWidth(x.term) + 1, 0)))
TopDlg(x) == Last(x.dlg)
Push(x, d1) == [x EXCEPT !.dlg = Append(@, d1)]
Pop(x) == [x EXCEPT !.dlg = Front(@)]
SetTop(x, d1) == [x EXCEPT !.dlg = Append(Front(@), d1)]
TopIs(x, kinds) == x.dlg # <<>> /\ TopDlg(x).kind \in kinds

change_node(x, q) == LET nd == NodeAt(q)
                     IN IF IsText(nd.item) THEN Push(x, input_dialog("value", x))
                        ELSE With(Toggle(x, nd.item), LAMBDA y : AfterChange(y, nd))
quit_dialog(x) == IF x.changed THEN Push(x, Plain("quit")) ELSE [x EXCEPT !.end = "quit"]

(* Files.  lost: a write over the file of the configuration has failed.      *)
FileNames == {"conf", "alt"}
needs_save(lines, st) ==
  \/ \E n \in DOMAIN lines : lines[n][1] \notin K.syms
  \/ \E i \in K.syms : IF st.uv[i] = None THEN config_string(i, st).v # NoLine ELSE ValueOf(i, st) # st.uv[i]
LoadInto(x, f) ==
  With(Uncached(load_config(x.disk[f].lines, TRUE, x.s)), LAMBDA st :
  With([x EXCEPT !.s = st, !.file = f, !.lost = FALSE, !.changed = needs_save(x.disk[f].lines, st)], LAMBDA y :
    update_menu([y EXCEPT !.all = @ \/ ~Contains(ShownIn(y, y.menu), SelNode(y))])))
CutShort(lines) == {Holds(SubSeq(lines, 1, n)) : n \in 0..(Len(lines) - 1)}
FailedWrites(x, f, lines, moved) ==
  IF x.disk[f] = Holds(lines) THEN {}
  ELSE {[x EXCEPT !.disk[f] = c, !.lost = @ \/ (f = x.file /\ c # x.disk[f])] :
        c \in {x.disk[f]} \union moved \union CutShort(lines)}
Stored(x, f, lines) == [x EXCEPT !.disk[f] = Holds(lines)]
(* _save_old() moves a .config away before it is written again.              *)
SaveFails(x, f) == FailedWrites(x, f, config_contents(x.s).v, {Gone})
MinSaveFails(x, f) == FailedWrites(x, f, min_config_contents(x.s).v, {})

(* _check_valid() of what is typed; None stands for what is no number.       *)
check_valid(i, val, st) ==
  \/ OrigType(i) = "string"
  \/ val # None /\ LET g == ActiveRange(i, st) IN g.has => val \in g.lo..g.hi

(* The nodes the jump-to dialog searches, in its order up to the sorting of  *)
(* names, and what a search may leave of them.                               *)
Sorted(kind) == SelectSeq(PathsUnder(<<>>), LAMBDA q : NodeAt(q).kind = kind)
Searched == Sorted("sym") \o Sorted("choice") \o Sorted("menu") \o Sorted("comment")
SearchResults == {<<>>, Searched} \union {<<q>> : q \in ToSet(Searched)}
JumpView(x) == List!View(Len(TopDlg(x).list), MatchesHeight(x.term), TopDlg(x).sel, TopDlg(x).scroll)
PutMatch(x, w) == SetTop(x, [TopDlg(x) EXCEPT !.sel = w.sel, !.scroll = w.scroll])
resize_jump_to_dialog(x) == PutMatch(x, List!resize(JumpView(x), MatchesHeight(x.term)))
(* Back from a full-screen dialog: to the jump-to dialog, the information    *)
(* dialog, or the main list.                                                 *)
Return(x) == LET y == Pop(x) IN IF TopIs(y, {"jump"}) THEN resize_jump_to_dialog(y) ELSE IF y.dlg = <<>> THEN resize_main(y) ELSE y

-----------------------------------------------------------------------------
(* menuconfig(), up to the first key.                                        *)
Started(conf, alt, term, st) ==
  With(shown_nodes(<<>>, FALSE, st), LAMBDA shown :
  With(IF shown = <<>> THEN shown_nodes(<<>>, TRUE, st) ELSE shown, LAMBDA nodes :
    resize_main([s |-> st, menu |-> <<>>, shown |-> nodes, sel |-> 0, scroll |-> 0, h |-> 1, rows |-> <<>>,
                 all |-> shown = <<>>, help |-> FALSE, changed |-> ~conf.ex \/ needs_save(conf.lines, st),
                 file |-> "conf", lost |-> FALSE, disk |-> [conf |-> conf, alt |-> alt], term |-> term, dlg |-> <<>>,
                 end |-> IF nodes = <<>> THEN "empty" ELSE ""])))
LoadAtStart(conf) == IF conf.ex THEN Uncached(load_config(conf.lines, TRUE, s)) ELSE s
SomeFile == {Gone} \union {Holds(f) : f \in case.lines}
MenuStart ==
  /\ phase = "use" /\ case.client = "menu" /\ phase' = "menu" /\ UNCHANGED <<text, p, l, kc, case, s, d, job>>
  /\ \E conf \in SomeFile : \E alt \in SomeFile : \E term \in Terms :
       u' = Started(conf, alt, term, LoadAtStart(conf))

(* The user's keys; case.tools has the kinds of them that are pressed.       *)
Keys(kind) == Menu /\ u.end = "" /\ kind \in case.tools /\ UNCHANGED vars
MainKey(kind) == Keys(kind) /\ u.dlg = <<>>
DlgKey(kinds) == Menu /\ u.end = "" /\ TopIs(u, kinds) /\ UNCHANGED vars
Sel == SelNode(u)

SelectEntry == /\ MainKey("move")
               /\ \E w \in {List!select_next_menu_entry(W(u)), List!select_prev_menu_entry(W(u)), List!select_last_menu_entry(W(u)),
                            List!select_first_menu_entry(W(u)), List!page_down(W(u)), List!page_up(W(u))} : u' = Put(u, w)
(* Space changes the node if it can, and else enters it; Enter the other way *)
(* round.                                                                    *)
SpaceOrEnter ==
  \E key \in {"change", "enter"} :
    /\ MainKey(key)
    /\ \E can \in {changeable(u, NodeAt(Sel))} :
         u' = IF Enterable(u, Sel) /\ (key = "enter" \/ ~can) THEN enter_menu(u, Sel)
              ELSE IF can THEN change_node(u, Sel) ELSE u
SetTri == /\ MainKey("change") /\ Changes(NodeAt(Sel))
          /\ \E val \in assignable(NodeAt(Sel).item, u.s).v : u' = set_val(u, NodeAt(Sel).item, val)
Leave == MainKey("enter") /\ u' = leave_menu(u)
ToggleShowAll == MainKey("all") /\ u' = toggle_show_all(u)
ToggleHelp == MainKey("help") /\ u' = resize_main([u EXCEPT !.help = ~@])
Quit == MainKey("quit") /\ u' = quit_dialog(u)
LoadDialog == MainKey("load") /\ u' = Push(u, IF u.changed THEN Plain("confirm") ELSE input_dialog("load", u))
SaveDialog == MainKey("save") /\ u' = Push(u, input_dialog("save", u))
SaveMinDialog == MainKey("min") /\ u' = Push(u, input_dialog("min", u))
(* The jump-to dialog starts with every node, as nothing is searched for.    *)
JumpToDialog == [Plain("jump") EXCEPT !.list = Searched]
OpenJump == MainKey("jump") /\ u' = Push(u, JumpToDialog)
OpenInfo == MainKey("info") /\ u' = Push(u, Plain("info"))

(* The terminal is resized: the dialog that reads the keys handles it.       *)
Resize == /\ Keys("resize")
          /\ \E term \in Terms \ {u.term} :
               LET x == [u EXCEPT !.term = term, !.dlg = [n \in DOMAIN @ |-> [@[n] EXCEPT !.fit = FALSE]]]
               IN u' = IF TopIs(x, {"jump"}) THEN resize_jump_to_dialog(x) ELSE IF TopIs(x, {"info"}) THEN x ELSE resize_main(x)

(* Dialogs that wait for one key.  After an error an input dialog is opened  *)
(* again.                                                                    *)
CloseMsg == /\ DlgKey({"msg"})
            /\ u' = LET x == Pop(u) IN IF TopIs(x, Inputs) THEN SetTop(x, input_dialog(TopDlg(x).kind, x)) ELSE x
ConfirmLoad == DlgKey({"confirm"}) /\ u' \in {Pop(u), SetTop(u, input_dialog("load", u))}
QuitKey == /\ DlgKey({"quit"})
           /\ \/ u' \in {Pop(u), [u EXCEPT !.end = "quit"], [Stored(u, u.file, config_contents(u.s).v) EXCEPT !.end = "quit"]}
              \/ \E x \in SaveFails(u, u.file) : u' = Push(x, Plain("msg"))

(* Input dialogs: keys, and what is typed in the end.                        *)
CancelInput == DlgKey(Inputs) /\ u' = IF TopIs(u, {"value"}) THEN AfterChange(Pop(u), NodeAt(Sel)) ELSE Pop(u)
EditText == /\ DlgKey(Inputs) /\ "edit" \in case.tools
            /\ \E b \in List!edit_text(TopDlg(u).box, InputWidth(u.term)) :
                 b.len <= TextMax /\ u' = SetTop(u, [TopDlg(u) EXCEPT !.box = b, !.fit = TRUE])
TryLoad == /\ DlgKey({"load"})
           /\ \E f \in FileNames : u' = IF u.disk[f].ex THEN SetTop(LoadInto(u, f), Plain("msg")) ELSE Push(u, Plain("msg"))
TrySave == /\ DlgKey({"save"})
           /\ \E f \in FileNames :
                \/ u' = SetTop(Stored(u, f, config_contents(u.s).v), [Plain("saved") EXCEPT !.name = f])
                \/ \E x \in SaveFails(u, f) : u' = Push(x, Plain("msg"))
(* Only when the message is dismissed is the configuration taken as saved.   *)
SaveDone == DlgKey({"saved"}) /\ u' = [Pop(u) EXCEPT !.file = TopDlg(u).name, !.changed = FALSE, !.lost = FALSE]
TrySaveMin == /\ DlgKey({"min"})
              /\ \E f \in FileNames :
                   \/ u' = SetTop(Stored(u, f, min_config_contents(u.s).v), Plain("msg"))
                   \/ \E x \in MinSaveFails(u, f) : u' = Push(x, Plain("msg"))
EnterValue == /\ DlgKey({"value"})
              /\ \E val \in case.values \union {None} :
                   u' = IF check_valid(NodeAt(Sel).item, val, u.s) THEN With(set_val(Pop(u), NodeAt(Sel).item, val), LAMBDA x : AfterChange(x, NodeAt(Sel)))
                        ELSE Push(u, Plain("msg"))

(* The jump-to dialog.                                                       *)
MoveMatch == /\ DlgKey({"jump"})
             /\ \E w \in {List!select_next_match(JumpView(u)), List!select_prev_match(JumpView(u)),
                          List!select_last_menu_entry(JumpView(u)), List!select_first_menu_entry(JumpView(u)),
                          List!page_down_match(JumpView(u)), List!page_up_match(JumpView(u))} :
                  w.sel \in (-StrayMax)..(Len(TopDlg(u).list) + StrayMax) /\ u' = PutMatch(u, w)
EditSearch == /\ DlgKey({"jump"}) /\ "edit" \in case.tools
              /\ \E b \in List!edit_text(TopDlg(u).box, JumpWidth(u.term)) :
                   /\ b.len <= TextMax
                   /\ LET x == [TopDlg(u) EXCEPT !.box = b, !.fit = TRUE]
                      IN IF b.len = TopDlg(u).box.len THEN u' = SetTop(u, x)
                         ELSE \E found \in SearchResults : u' = SetTop(u, [x EXCEPT !.list = found, !.sel = 0, !.scroll = 0])
JumpTo == /\ DlgKey({"jump"}) /\ TopDlg(u).list # <<>>
          /\ u' = resize_main(jump_to([u EXCEPT !.dlg = <<>>], TopDlg(u).list[TopDlg(u).sel + 1]))
MatchInfo == DlgKey({"jump"}) /\ TopDlg(u).list # <<>> /\ u' = Push(u, Plain("info"))
CancelJump == DlgKey({"jump"}) /\ u' = Return(u)

(* The information dialog: its text scrolls by lines and pages.              *)
ScrollInfo == /\ DlgKey({"info"})
              /\ LET most == List!max_scroll(InfoLines, TextHeight(u.term))
                     at == TopDlg(u).scroll
                 IN \E to \in {IF at < most THEN at + 1 ELSE at, List!Smaller(at + 6, most), List!Larger(at - 6, 0), most, 0,
                               List!Larger(at - 1, 0)} : u' = SetTop(u, [TopDlg(u) EXCEPT !.scroll = to])
(* '/' in it opens the jump-to dialog, or returns to it.                     *)
SearchFromInfo == DlgKey({"info"}) /\ u' = IF TopIs(Pop(u), {"jump"}) THEN Return(u) ELSE Push(u, JumpToDialog)
CloseInfo == DlgKey({"info"}) /\ u' = Return(u)

MInit == Init /\ u = <<>>
Ended == Menu /\ u.end # "" /\ UNCHANGED mvars
MNext == \/ Next /\ UNCHANGED u
         \/ MenuStart \/ SelectEntry \/ SpaceOrEnter \/ SetTri \/ Leave \/ ToggleShowAll \/ ToggleHelp \/ Quit
         \/ LoadDialog \/ SaveDialog \/ SaveMinDialog \/ OpenJump \/ OpenInfo \/ Resize
         \/ CloseMsg \/ ConfirmLoad \/ QuitKey \/ CancelInput \/ EditText \/ TryLoad \/ TrySave \/ SaveDone \/ TrySaveMin
         \/ EnterValue \/ MoveMatch \/ EditSearch \/ JumpTo \/ MatchInfo \/ CancelJump
         \/ ScrollInfo \/ SearchFromInfo \/ CloseInfo \/ Ended
MSpec == MInit /\ [][MNext]_mvars

-----------------------------------------------------------------------------
(* The Kconfigs for which an '.index()' of the interface may find nothing: a *)
(* symbol or choice with several definitions; a comment or menu in a menu    *)
(* with 'visible if', which hides the menu and not them; a symbol whose      *)
(* default is y where its prompt only offers m; a symbol without a type in a *)
(* choice.                                                                   *)
RECURSIVE UnderVisibleIf(_)
UnderVisibleIf(q) == q # <<>> /\ (NodeAt(Front(q)).visib # EY \/ UnderVisibleIf(Front(q)))
MayCrash == \/ \E q, q2 \in ToSet(Searched) : q # q2 /\ Changes(NodeAt(q)) /\ NodeAt(q).item = NodeAt(q2).item
            \/ \E q \in ToSet(Searched) : ~Changes(NodeAt(q)) /\ UnderVisibleIf(q)
            \/ \E i \in K.syms : \/ AboveOffer(i, u.s)
                                 \/ InChoice(i) /\ Warned("no type", i)

(* The list on the screen is that of the current menu as the values are, in  *)
(* whatever order values, show-all mode, files, jumps and window sizes have  *)
(* changed (but for a choice defined several times, where turning on         *)
(* show-all may keep the old list); its selected entry, the selected match   *)
(* and the cursor of an edit box are on the screen; and the interface only   *)
(* dies on Kconfigs of the kinds above.                                      *)
SeveralNodes(q) == NodeAt(q).kind = "choice" /\ Len(NodesOfItem("choice", NodeAt(q).item)) > 1
ListOnScreen == /\ List!InView /\ (SeveralNodes(u.menu) \/ u.shown = ShownIn(u, u.menu))
                /\ TopIs(u, FullScreen) \/ u.h = menu_win_height(u.term, u.help)
BoxOnScreen(b, width) == b.hs <= b.i /\ b.i < b.hs + width
OnScreen ==
  Menu => /\ u.end = "" => /\ ListOnScreen
                           /\ TopIs(u, Inputs) /\ TopDlg(u).fit => BoxOnScreen(TopDlg(u).box, InputWidth(u.term))
                           /\ TopIs(u, {"jump"}) /\ TopDlg(u).fit => BoxOnScreen(TopDlg(u).box, JumpWidth(u.term))
                           /\ TopIs(u, {"jump"}) /\ TopDlg(u).list # <<>> => List!Shows(JumpView(u))
          /\ u.end = "crash" => MayCrash

(* The main list only ever does what Scroll's list does, of which it is      *)
(* proved that its selection stays on the screen.                            *)
ListIsScroll == List!ListSpec

(* When the interface would leave without asking, the file it names has the  *)
(* configuration: reading it back gives every symbol the value it has now.   *)
(* Two things are excepted.  A save over that file that failed (lost): it    *)
(* may have removed or truncated the file, but leaves _conf_changed as it    *)
(* was (menuconfig.py:1895), so quitting right after it need not ask.  And a *)
(* value above what its prompt offers, which no file brings back.            *)
QuitKeepsAll ==
  Menu /\ u.end = "" /\ ~u.changed /\ ~u.lost /\ (\A i \in K.syms : ~AboveOffer(i, u.s)) =>
    u.disk[u.file].ex /\ Reread(u.disk[u.file].lines) = Values(u.s)
=============================================================================
