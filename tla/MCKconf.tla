------------------------------ MODULE MCKconf --------------------------------
EXTENDS MenuConf
L(t, a) == [t |-> t, a |-> a, ind |-> 1]
S(t, a) == [t |-> t, a |-> a, ind |-> 0]
T(n) == [t |-> "text", a |-> <<>>, ind |-> n]
BlankLn == [t |-> "blank", a |-> <<>>, ind |-> 0]
OneFile(lines) == [Kconfig |-> lines]
Use(txt, client, tools, values, lines) == [text |-> txt, client |-> client, tools |-> tools, values |-> values, lines |-> lines, faults |-> 0]
None1(txt) == Use(txt, "none", {}, {}, {})

Sy(n) == S("config", <<n>>)
B == L("bool", <<"str">>)
Nest1 == [Kconfig |-> <<S("mainmenu", <<"str">>), S("menu", <<"M">>), L("depends", <<"A">>), BlankLn, Sy("A"), B, L("help", <<>>), T(3), BlankLn,
    [L("config", <<"X">>) EXCEPT !.ind = 3], L("source", <<"sub">>), S("endmenu", <<>>), Sy("C"), B>>,
   sub |-> <<Sy("B"), B, S("if", <<"A">>), S("comment", <<"cm">>), L("depends", <<"B">>), S("endif", <<>>), Sy("D"), L("help", <<>>)>>]
Nest2 == [Nest1 EXCEPT !["sub"] = <<S("endmenu", <<>>), S("menu", <<"M2">>)>>]
Nest3 == [Nest1 EXCEPT !["sub"] = <<S("osource", <<"gone">>), Sy("B"), L("source", <<"Kconfig">>)>>]
Nest4 == OneFile(<<S("choice", <<"CH">>), L("prompt", <<"str">>), Sy("A"), B, S("if", <<"A">>), Sy("B"), B, S("endchoice", <<>>), S("endif", <<>>)>>)
Nest5 == OneFile(<<Sy("A"), B, L("help", <<>>), S("config", <<"B">>), B, L("help", <<>>), T(4), T(2), Sy("C")>>)
Nest7 == OneFile(<<Sy("A"), B, S("if", <<"A">>), L("bool", <<"str">>), S("endif", <<>>)>>)
Nest8 == OneFile(<<Sy("A"), S("menu", <<"M">>), L("visible", <<"A">>), L("source", <<"gone">>), S("endmenu", <<>>)>>)
Nest9 == OneFile(<<Sy("A"), S("menu", <<"M">>), L("visible", <<"A">>), S("menuconfig", <<"B">>), B>>)
NestTexts == {Nest1, Nest2, Nest3, Nest4, Nest5, Nest7, Nest8, Nest9}
\* Every text of four of these lines.
Pieces == {S("menu", <<"M">>), S("endmenu", <<>>), S("if", <<"A">>), S("endif", <<>>), Sy("A"), B, L("help", <<>>), T(1), T(2)}
PieceTexts == {OneFile(w) : w \in [1..4 -> Pieces]}

\* Conditions from everywhere, and a symbol and a choice defined twice.
Conds1 == OneFile(<<Sy("A"), B, S("menu", <<"M">>), L("depends", <<"A">>), L("visible", <<"!", "C">>),
    Sy("B"), L("bool", <<"str", "if", "C">>), L("default", <<"y", "if", "A">>), L("select", <<"C", "if", "A">>), S("if", <<"B", "=", "y">>),
    S("comment", <<"cm">>), Sy("D"), B, L("depends", <<"B", "||", "A">>), S("endif", <<>>), S("endmenu", <<>>), Sy("C"), L("bool", <<>>),
    Sy("B"), L("default", <<"n", "if", "D">>)>>)
Conds3 == OneFile(<<Sy("A"), B, S("menu", <<"M">>), L("visible", <<"A">>), S("comment", <<"cm">>),
    S("choice", <<"CH">>), L("prompt", <<"str">>), Sy("X"), B, S("endchoice", <<>>), S("endmenu", <<>>), S("menuconfig", <<"P">>), L("def_bool", <<"X">>),
    Sy("Q"), B, L("depends", <<"P", "&&", "A">>), Sy("R"), L("tristate", <<"str">>), L("depends", <<"Q">>), L("imply", <<"A", "if", "m">>)>>)
Conds2 == OneFile(<<Sy("A"), B, S("choice", <<"CH">>), L("prompt", <<"str", "if", "A">>), L("default", <<"Y", "if", "A">>), S("if", <<"A", "&&", "n">>),
    Sy("X"), B, S("endif", <<>>), Sy("Y"), B, L("depends", <<"A">>), Sy("Z"), B, L("depends", <<"Y">>), S("endchoice", <<>>),
    S("choice", <<"CH">>), L("prompt", <<"str">>), L("optional", <<>>), Sy("W"), B, S("endchoice", <<>>)>>)

\* Every way in which three symbols depend on each other, the last two in a choice (whose prompt has a condition or not) or in none, the first with
\* a select or not.
On(x) == IF x = "none" THEN BlankLn ELSE L("depends", <<x>>)
Graph(a, b, c, sel, ch) ==
  OneFile(<<Sy("A"), B, On(a), IF sel THEN L("select", <<"B">>) ELSE BlankLn>> \o
          (IF ch = <<>> THEN <<>> ELSE <<S("choice", <<"CH">>), L("prompt", ch)>>) \o
          <<Sy("B"), B, On(b), Sy("C"), B, On(c)>> \o (IF ch = <<>> THEN <<>> ELSE <<S("endchoice", <<>>)>>))
Names == {"none", "A", "B", "C"}
CondPrompt == <<"str", "if", "A">>
GraphTexts == {Graph(a, b, c, sel, ch) : a \in Names, b \in Names, c \in Names, sel \in BOOLEAN, ch \in {<<>>, <<"str">>, CondPrompt}}

\* What a script uses: modules with an imply, selects, ranges, and choices of both types.
Tri3 == L("tristate", <<"str">>)
Modules == OneFile(<<Sy("MODULES"), B, Sy("A"), Tri3, Sy("B"), Tri3, L("depends", <<"A">>), L("default", <<"m">>), L("imply", <<"C">>),
    Sy("C"), L("def_tristate", <<"y", "if", "B">>)>>)
Selects == OneFile(<<Sy("B"), B, Sy("A"), B, L("depends", <<"B">>), Sy("D"), B, L("select", <<"A", "if", "!", "B">>)>>)
BoolChoice == OneFile(<<Sy("A"), B, L("select", <<"X">>), S("choice", <<"CH">>), L("bool", <<"str">>), L("optional", <<>>), L("default", <<"Y">>), Sy("X"), B, Sy("Y"), B, L("default", <<"y">>), L("depends", <<"A">>),
    S("endchoice", <<>>)>>)
TriChoice == OneFile(<<Sy("MODULES"), L("def_bool", <<"y">>), S("choice", <<"CH">>), L("tristate", <<"str">>), Sy("X"), Tri3, Sy("Y"), Tri3, S("endchoice", <<>>)>>)
TriBools == OneFile(<<Sy("MODULES"), L("def_bool", <<"y">>), S("choice", <<"CH">>), L("tristate", <<"str">>), Sy("X"), B, Sy("Y"), B, S("endchoice", <<>>)>>)
Above == OneFile(<<Sy("MODULES"), L("def_bool", <<"y">>), Sy("A"), L("tristate", <<"str", "if", "m">>), L("default", <<"y">>), Sy("B"), B, L("depends", <<"A", "=", "y">>)>>)
Ranges == OneFile(<<Sy("N"), L("int", <<"str">>), L("range", <<"1", "M">>), L("default", <<"3">>), Sy("M"), L("int", <<"str">>), L("default", <<"2">>)>>)
Outside == OneFile(<<Sy("A"), B, S("choice", <<"CH">>), L("bool", <<"str">>), L("default", <<"A">>), Sy("X"), B, S("endchoice", <<>>)>>)
Malformed1 == OneFile(<<Sy("N"), L("int", <<"str">>), L("default", <<"1", "&&", "N">>)>>)
\* What the tools use.
SyncedBool == OneFile(<<Sy("A"), B>>)
SyncedInt == OneFile(<<Sy("A"), B, L("default", <<"y">>), Sy("N"), L("int", <<>>), L("default", <<"1", "if", "A">>)>>)
SyncedBoth == OneFile(<<Sy("A"), L("def_bool", <<"y", "if", "N", "!=", "2">>), Sy("N"), L("int", <<"str">>), L("default", <<"0">>)>>)
Minimal == OneFile(<<Sy("A"), B, L("default", <<"y">>), L("imply", <<"B">>), Sy("B"), B, L("depends", <<"A">>)>>)
WithTools(txt, tools, values, faults) == [Use(txt, "tools", tools, values, {}) EXCEPT !.faults = faults]
Uses == {WithTools(SyncedBool, {"menuconfig", "genconfig"}, {0, 2}, 1),
         WithTools(SyncedInt, {"menuconfig", "genconfig"}, {0}, 2),
         WithTools(SyncedBoth, {"menuconfig", "genconfig"}, {1, 2}, 1),
         WithTools(Minimal, {"menuconfig", "olddefconfig", "savedefconfig", "defconfig"}, {0, 2}, 0),
         Use(Modules, "script", {}, {1, 2}, {<<<<"A", 1>>, <<"C", 2>>>>}),
         Use(Selects, "script", {}, {0, 2}, {<<<<"D", 2>>>>}),
         Use(BoolChoice, "script", {}, {2}, {<<<<"A", 2>>, <<"X", 2>>>>}),
         Use(Outside, "script", {}, {0, 2}, {<<<<"A", 2>>>>}),
         Use(TriChoice, "script", {}, {2}, {<<<<"X", 1>>>>}),
         Use(TriBools, "script", {}, {2}, {<<<<"Y", 2>>>>}),
         Use(Above, "script", {}, {1, 2}, {<<<<"A", 2>>>>}),
         Use(Ranges, "script", {}, {0, 1, 2}, {<<<<"N", 1>>, <<"M", 1>>>>})}

\* What the interface shows: nested menus and a menuconfig, a choice, values that are typed, and the Kconfigs on which it may die.
MenuNest == OneFile(<<Sy("A"), B, Sy("B"), B, L("depends", <<"A">>), S("menu", <<"M">>), L("depends", <<"B">>), Sy("C"), B, L("depends", <<"!", "B">>), S("endmenu", <<>>),
    S("menuconfig", <<"E">>), B, Sy("F"), B, L("depends", <<"E">>)>>)
MenuTall == OneFile(<<Sy("A"), B, S("comment", <<"cm">>), L("depends", <<"!", "B">>), Sy("B"), B, L("depends", <<"A">>), S("menu", <<"M">>), Sy("C"), B, Sy("D"), B, S("endmenu", <<>>)>>)
MenuChoice == OneFile(<<Sy("A"), B, S("choice", <<"CH">>), L("bool", <<"str">>), Sy("X"), B, Sy("Y"), B, L("depends", <<"A">>), S("endchoice", <<>>)>>)
MenuFiles == OneFile(<<Sy("A"), B, L("default", <<"y">>), Sy("B"), B, L("depends", <<"A">>)>>)
MenuJump == OneFile(<<Sy("A"), B, S("menu", <<"M">>), L("depends", <<"A">>), S("choice", <<"CH">>), L("bool", <<"str">>),
    Sy("X"), B, S("endchoice", <<>>), S("endmenu", <<>>)>>)
MenuSearch == OneFile(<<Sy("A"), B, S("comment", <<"cm">>)>>)
MenuValue == OneFile(<<S("comment", <<"cm">>), L("depends", <<"N", "=", "2">>), Sy("N"), L("int", <<"str">>), L("range", <<"1", "2">>), L("default", <<"2">>)>>)
MenuTwice == OneFile(<<Sy("A"), B, Sy("X"), B, Sy("A"), L("bool", <<"str", "if", "X">>), Sy("C"), B, L("depends", <<"A">>)>>)
MenuVisibleIf == OneFile(<<Sy("A"), B, L("default", <<"y">>), S("menu", <<"M">>), L("visible", <<"A">>), S("comment", <<"cm">>), Sy("B"), B, S("endmenu", <<>>)>>)
MenuM == OneFile(<<Sy("MODULES"), B, L("default", <<"y">>), Sy("A"), L("tristate", <<"str", "if", "m">>), L("default", <<"y">>)>>)
Pressed(txt, keys) == Use(txt, "menu", keys, {}, {})
Menus == {Pressed(MenuNest, {"move", "change", "enter", "all"}),
          Pressed(MenuTall, {"move", "change", "enter", "resize"}),
          Pressed(MenuChoice, {"move", "change", "enter", "all"}),
          Use(MenuFiles, "menu", {"change", "load", "save", "min", "quit"}, {}, {<<<<"A", 2>>>>}),
          Use(MenuValue, "menu", {"move", "change", "edit", "resize"}, {0, 1, 2}, {}),
          Pressed(MenuJump, {"jump", "enter"}),
          Pressed(MenuSearch, {"jump", "info", "resize", "help"}),
          Pressed(MenuSearch, {"jump", "edit", "resize"}),
          Pressed(MenuTwice, {"move", "change"}),
          Use(MenuVisibleIf, "menu", {"move", "enter", "load"}, {}, {<<<<"A", 0>>>>}),
          Pressed(MenuM, {"move", "change", "save"})}
MCTerms == {[rows |-> 9, cols |-> 6], [rows |-> 11, cols |-> 10]}

MCCases == {None1(t) : t \in NestTexts \union PieceTexts \union {Conds1, Conds2, Conds3, Malformed1} \union GraphTexts} \union Uses \union Menus
\* The Kconfigs of two disagreements: a loop through a choice that is entered from outside, and a choice's mode in a minimal file.
MCLoopCases == {None1(Graph("none", b, c, FALSE, ch)) : b \in Names, c \in Names, ch \in {<<"str">>, CondPrompt}}
MCMinCases == {Use(TriBools, "script", {}, {1, 2}, {<<<<"Y", 2>>>>})}
=============================================================================
