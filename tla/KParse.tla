------------------------------- MODULE KParse --------------------------------
(* The Kconfig parser (tools/kconfig/kconfiglib.py), one line a step: files   *)
(* that source files, blocks within blocks, the property lines that follow a  *)
(* definition, help texts that go by indentation, and the one line of         *)
(* lookahead that ends them.  A line is its keyword t, the tokens a after it  *)
(* and its indentation ind; every string literal is the token "str".  Choices *)
(* are named; 'option', preprocessor macros and globbing are left out.        *)
EXTENDS KValue

VARIABLES text,                 \* the files: name -> sequence of lines
          p                     \* the parser

TopFile == "Kconfig"
Types == {"bool", "tristate", "string", "int"}
DefTypes == [def_bool |-> "bool", def_tristate |-> "tristate"]
PropKeywords == Types \union DOMAIN DefTypes \union
  {"depends", "help", "select", "imply", "default", "prompt", "range", "visible", "optional"}
EndOf == [menu |-> "endmenu", choice |-> "endchoice", if |-> "endif"]

(* files: the open files and the lines read of each; blocks: the open blocks, *)
(* each with the token that ends it, its node and the nodes in it so far;     *)
(* cur: the node whose properties are read; reuse: the line last read is to   *)
(* be read again; ind: the indentation of the help text.                      *)
Block(end, nd) == [end |-> end, node |-> nd, list |-> <<>>]
NoNode == Node("none", "none")
StartParse == [files |-> <<[f |-> TopFile, n |-> 0]>>, blocks |-> <<Block("eof", Node("menu", "top"))>>,
               cur |-> NoNode, mode |-> "block", reuse |-> FALSE, ind |-> 0]
Top(seq) == seq[Len(seq)]
File == text[Top(p.files).f]
AtEof == ~p.reuse /\ Top(p.files).n = Len(File)
LineNo == IF p.reuse THEN Top(p.files).n ELSE Top(p.files).n + 1
Line == File[LineNo]
(* The parser after it has read Line.                                         *)
Read == [p EXCEPT !.files[Len(p.files)].n = LineNo, !.reuse = FALSE]
(* _reuse_tokens: the line is left for whoever reads next.                    *)
Unread(q) == [q EXCEPT !.reuse = TRUE]

Error(q) == [q EXCEPT !.mode = "error"]
AddNode(q, nd) == [q EXCEPT !.blocks[Len(q.blocks)].list = Append(@, nd)]
Open(q, nd) == [q EXCEPT !.blocks = Append(@, Block(EndOf[nd.kind], nd)), !.mode = "block"]
ReadProps(nd) == [Read EXCEPT !.cur = nd, !.mode = "props"]

(* The properties of a node: Malformed lines stop the parser.                 *)
Ok(nd) == [ok |-> TRUE, nd |-> nd]
Bad == [ok |-> FALSE, nd |-> NoNode]
OkIf(c, nd) == IF c THEN Ok(nd) ELSE Bad
expect_expr_and_eol(a) == With(parse_expr(a, 1, TRUE), LAMBDA e : IF e.i = Len(a) + 1 THEN e ELSE Malformed)
expect_sym(a, i) == IsOperand(a, i)
expect_nonconst_sym(a) == IsOperand(a, 1) /\ a[1] \notin DOMAIN Constants
parse_prompt(nd, a) ==
  With(parse_cond(a, 2), LAMBDA c : OkIf(TokenIs(a, 1, "str") /\ c.i # 0, [nd EXCEPT !.prompt = Prompt(c.e)]))
parse_default(nd, a) ==
  With(parse_expr(a, 1, FALSE), LAMBDA v :
    With(parse_cond(a, v.i), LAMBDA c :
      OkIf(v.i # 0 /\ c.i # 0, [nd EXCEPT !.defaults = Append(@, [val |-> v.e, cond |-> c.e])])))
(* select and imply: sel is the list they go to.                              *)
parse_select(nd, a, sel) ==
  With(parse_cond(a, 2), LAMBDA c :
    With([sym |-> a[1], cond |-> c.e], LAMBDA x :
      OkIf(nd.kind = "sym" /\ expect_nonconst_sym(a) /\ c.i # 0,
           IF sel = "select" THEN [nd EXCEPT !.selects = Append(@, x)] ELSE [nd EXCEPT !.implies = Append(@, x)])))
parse_range(nd, a) ==
  With(parse_cond(a, 3), LAMBDA c :
    OkIf(expect_sym(a, 1) /\ expect_sym(a, 2) /\ c.i # 0,
         [nd EXCEPT !.ranges = Append(@, [lo |-> Operand(a[1]), hi |-> Operand(a[2]), cond |-> c.e])]))
parse_depends(nd, e) == OkIf(e.i # 0, [nd EXCEPT !.dep = make_and(@, e.e)])
parse_visible(nd, e) == OkIf(e.i # 0, [nd EXCEPT !.visib = make_and(@, e.e)])
parse_type(nd, a) == IF a = <<>> THEN Ok(nd) ELSE parse_prompt(nd, a)
parse_props(nd, t, a) ==
  CASE t \in Types -> parse_type([nd EXCEPT !.type = t], a)
    [] t \in DOMAIN DefTypes -> parse_default([nd EXCEPT !.type = DefTypes[t]], a)
    [] t = "prompt" -> parse_prompt(nd, a)
    [] t = "default" -> parse_default(nd, a)
    [] t = "depends" -> parse_depends(nd, expect_expr_and_eol(a))
    [] t = "visible" -> parse_visible(nd, expect_expr_and_eol(a))
    [] t \in {"select", "imply"} -> parse_select(nd, a, t)
    [] t = "range" -> parse_range(nd, a)
    [] t = "optional" -> OkIf(nd.kind = "choice", [nd EXCEPT !.optional = TRUE])

(* A definition opens its block, or is a node of the block it is in.          *)
Defined1(q) == IF q.cur.kind \in {"menu", "choice"} THEN Open(q, q.cur)
               ELSE [AddNode(q, q.cur) EXCEPT !.mode = "block"]
PropLine ==
  /\ p.mode = "props" /\ ~AtEof /\ Line.t \in PropKeywords \ {"help"}
  /\ p' = With(parse_props(p.cur, Line.t, Line.a), LAMBDA r : IF r.ok THEN [Read EXCEPT !.cur = r.nd] ELSE Error(p))
HelpKeyword == p.mode = "props" /\ ~AtEof /\ Line.t = "help" /\ p' = [Read EXCEPT !.mode = "help", !.ind = 0]
PropsEnd ==
  /\ p.mode = "props"
  /\ \/ AtEof /\ p' = Defined1(p)
     \/ ~AtEof /\ Line.t \notin PropKeywords \union {"blank"} /\ p' = Unread(Defined1(Read))
BlankLine == p.mode \in {"props", "block", "help"} /\ ~AtEof /\ Line.t = "blank" /\ p' = Read

(* Bug: only a line that is not indented ends the help text.                  *)
HelpLineAnyIndent ==
  /\ p.mode = "help" /\ ~AtEof /\ Line.t # "blank"
  /\ p' = IF Line.ind = 0 THEN [Unread(Read) EXCEPT !.mode = "props"]
          ELSE [Read EXCEPT !.ind = IF p.ind = 0 THEN Line.ind ELSE p.ind]
(* _parse_help(): up to the first line indented less than the first one.      *)
HelpLine ==
  /\ p.mode = "help" /\ ~AtEof /\ Line.t # "blank"
  /\ p' = IF Line.ind = 0 \/ Line.ind < p.ind THEN [Unread(Read) EXCEPT !.mode = "props"]
          ELSE [Read EXCEPT !.ind = IF p.ind = 0 THEN Line.ind ELSE p.ind]
HelpEof == p.mode = "help" /\ AtEof /\ p' = [p EXCEPT !.mode = "props"]

(* _parse_block(): the statements.                                            *)
InBlock(ts) == p.mode = "block" /\ ~AtEof /\ Line.t \in ts
Config ==
  /\ InBlock({"config", "menuconfig"})
  /\ p' = IF Len(Line.a) = 1 /\ expect_nonconst_sym(Line.a)
          THEN ReadProps([Node("sym", Line.a[1]) EXCEPT !.menuconfig = (Line.t = "menuconfig")]) ELSE Error(p)
MenuOrComment ==
  /\ InBlock({"menu", "comment"})
  /\ p' = IF Len(Line.a) = 1 THEN ReadProps(Node(Line.t, Line.a[1])) ELSE Error(p)
ChoiceBlock == InBlock({"choice"}) /\ p' = ReadProps(Node("choice", Line.a[1]))
IfBlock ==
  /\ InBlock({"if"})
  /\ p' = With(expect_expr_and_eol(Line.a), LAMBDA e :
            IF e.i # 0 THEN Open(Read, [Node("if", "if") EXCEPT !.dep = e.e]) ELSE Error(p))
Mainmenu == InBlock({"mainmenu"}) /\ p' = Read

(* _enter_file(): a file that is already open must not be sourced again.      *)
enter_file(q, f) ==
  IF \E i \in 1..Len(q.files) : q.files[i].f = f THEN Error(q)
  ELSE [q EXCEPT !.files = Append(@, [f |-> f, n |-> 0]), !.blocks = Append(@, Block("eof", NoNode))]
Source ==
  /\ InBlock({"source", "osource"})
  /\ LET f == Line.a[1]
     IN p' = IF f \in DOMAIN text THEN enter_file(Read, f)
             ELSE IF Line.t = "osource" THEN Read ELSE Error(p)

(* The end of a block: its nodes become the list of its node.                 *)
EndBlock ==
  /\ InBlock({"endmenu", "endchoice", "endif"})
  /\ LET b == Top(p.blocks)
         up == [Read EXCEPT !.blocks = Front(@)]
     IN p' = IF Line.t = b.end /\ Line.a = <<>> THEN AddNode(up, [b.node EXCEPT !.list = b.list]) ELSE Error(p)
Unrecognized == InBlock(PropKeywords \union {"text"}) /\ p' = Error(p)

(* The end of a file: the nodes of a sourced file go where the 'source' is.   *)
leave_file(q) ==
  LET up == Len(q.blocks) - 1
  IN [q EXCEPT !.files = Front(@), !.blocks = Front([q.blocks EXCEPT ![up].list = @ \o Top(q.blocks).list])]
EndOfFile ==
  /\ p.mode = "block" /\ AtEof
  /\ p' = IF Top(p.blocks).end # "eof" THEN Error(p)
          ELSE IF Len(p.files) = 1 THEN [p EXCEPT !.mode = "done"] ELSE leave_file(p)

ParseStep == PropLine \/ HelpKeyword \/ PropsEnd \/ BlankLine \/ HelpLine \/ HelpEof \/ Config \/ MenuOrComment
             \/ ChoiceBlock \/ IfBlock \/ Mainmenu \/ Source \/ EndBlock \/ Unrecognized \/ EndOfFile
=============================================================================
