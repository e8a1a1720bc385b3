------------------------------- MODULE Scroll --------------------------------
(* Lists and edit boxes of the configuration interface                       *)
(* (tools/kconfig/menuconfig.py).  A view of a list has its length n, the    *)
(* height h of its window, the selected entry and the entry in the top row,  *)
(* both counted from 0; a box has the length of its text, the cursor i and   *)
(* the first character hs that it shows.  The specification below is the     *)
(* main list: what the keys, a changed list and a resized window do to it.   *)
EXTENDS Integers

CONSTANT SCROLL_OFFSET          \* how close to an edge the selection scrolls

Larger(a, b) == IF a > b THEN a ELSE b
Smaller(a, b) == IF a < b THEN a ELSE b
View(n, h, sel, scroll) == [n |-> n, h |-> h, sel |-> sel, scroll |-> scroll]
max_scroll(n, h) == Larger(0, n - h)

NearEnd(w) == w.sel + 1 >= w.scroll + w.h - SCROLL_OFFSET /\ w.scroll < max_scroll(w.n, w.h)
NearTop(w) == w.sel - 1 < w.scroll + SCROLL_OFFSET
StepDown(w) == View(w.n, w.h, w.sel + 1, IF NearEnd(w) THEN w.scroll + 1 ELSE w.scroll)
StepUp(w) == View(w.n, w.h, w.sel - 1, IF NearTop(w) THEN Larger(w.scroll - 1, 0) ELSE w.scroll)

select_next_menu_entry(w) == IF w.sel < w.n - 1 THEN StepDown(w) ELSE w
select_prev_menu_entry(w) == IF w.sel > 0 THEN StepUp(w) ELSE w
select_last_menu_entry(w) == View(w.n, w.h, w.n - 1, max_scroll(w.n, w.h))
select_first_menu_entry(w) == View(w.n, w.h, 0, 0)
(* _PG_JUMP is 6. *)
Thrice(Op(_), w) == Op(Op(Op(w)))
page_down(w) == Thrice(select_next_menu_entry, Thrice(select_next_menu_entry, w))
page_up(w) == Thrice(select_prev_menu_entry, Thrice(select_prev_menu_entry, w))

(* The list of matches in the jump-to dialog, which may be empty.            *)
select_next_match(w) == IF w.sel = w.n - 1 THEN w ELSE StepDown(w)
select_prev_match(w) == IF w.sel = 0 THEN w ELSE StepUp(w)
page_down_match(w) == Thrice(select_next_match, Thrice(select_next_match, w))
page_up_match(w) == Thrice(select_prev_match, Thrice(select_prev_match, w))

center_vertically(w) == View(w.n, w.h, w.sel, Smaller(Larger(w.sel - w.h \div 2, 0), max_scroll(w.n, w.h)))
to_row(w, row) == View(w.n, w.h, w.sel, Larger(w.sel - row, 0))
(* A window of another height: the selection stays in it.                    *)
(* Bug: off by one.                                                          *)
resizeShort(w, h) == View(w.n, h, w.sel, IF w.sel - w.scroll > h THEN w.sel - h + 1 ELSE w.scroll)
resize(w, h) == View(w.n, h, w.sel, IF w.sel - w.scroll >= h THEN w.sel - h + 1 ELSE w.scroll)

(* _edit_text(): what the keys do to the text and the cursor, ctrl-W taking  *)
(* back to the start of some word, and the scroll that follows.              *)
Text(len, i) == [len |-> len, i |-> i]
Edits(b) ==
  {Text(b.len, Larger(b.i - 1, 0)), Text(b.len, Smaller(b.i + 1, b.len)), Text(b.len, 0), Text(b.len, b.len),
   IF b.i > 0 THEN Text(b.len - 1, b.i - 1) ELSE Text(b.len, b.i), Text(IF b.i < b.len THEN b.len - 1 ELSE b.len, b.i),
   Text(b.i, b.i), Text(b.len - b.i, 0), Text(b.len + 1, b.i + 1)} \union
  {Text(b.len - (b.i - new_i), new_i) : new_i \in 0..b.i}
HScroll(t, hs, width) ==
  IF t.i < hs + SCROLL_OFFSET THEN Larger(t.i - SCROLL_OFFSET, 0)
  ELSE IF t.i >= hs + width - SCROLL_OFFSET
       THEN Smaller(t.i - width + SCROLL_OFFSET + 1, Larger(t.len - width + 1, 0))
  ELSE hs
edit_text(b, width) == {[len |-> t.len, i |-> t.i, hs |-> HScroll(t, b.hs, width)] : t \in Edits(b)}

-----------------------------------------------------------------------------
VARIABLE v                      \* the view of the main list

Pos == Nat \ {0}
(* Another list in the same window, with one of its entries selected.        *)
OtherList(n, sel) == View(n, v.h, sel, v.scroll)
AnotherList == v'.n \in Pos /\ v'.sel \in 0..(v'.n - 1)

ListInit == v \in [n : Pos, h : Pos, sel : {0}, scroll : {0}]
ListKey == v' \in {select_next_menu_entry(v), select_prev_menu_entry(v), select_last_menu_entry(v),
                   select_first_menu_entry(v), page_down(v), page_up(v)}
(* A menu is shown from the top, at first in a window of any height.         *)
Open == v'.n \in Pos /\ v'.h \in Pos /\ v' = View(v'.n, v'.h, 0, 0)
(* The list has changed around the selection, which stays on its row; or its *)
(* parent is shown, on the row it was left on if there is still one.         *)
Keep == AnotherList /\ \E row \in 0..(v.h - 1) : v' = to_row(OtherList(v'.n, v'.sel), row)
(* An entry is jumped to: it is centred in the window as it was before the   *)
(* dialog, if there was one.                                                 *)
Jump == AnotherList /\ v'.h \in Pos /\ v' = resize(center_vertically(OtherList(v'.n, v'.sel)), v'.h)
Resize == v'.h \in Pos /\ v' = resize(v, v'.h)
ListNext == ListKey \/ Open \/ Keep \/ Jump \/ Resize
ListSpec == ListInit /\ [][ListNext]_v

(* There is a selected entry, and it is on the screen.                       *)
Views == [n : Pos, h : Pos, sel : Nat, scroll : Nat]
Shows(w) == w.sel < w.n /\ w.scroll <= w.sel /\ w.sel < w.scroll + w.h
InView == v \in Views /\ Shows(v)
=============================================================================
