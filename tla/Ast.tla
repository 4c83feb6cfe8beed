-------------------------------- MODULE Ast --------------------------------
(***************************************************************************)
(* The syntax tree as the passes meet it.  Every pass walks the tree in    *)
(* the order of incl/parser/AstVisitor.h and differs from the others only  *)
(* in the visit methods it overrides, so a tree is modelled by the events  *)
(* of that walk: a leaf is one event, an inner node a pair of events       *)
(* around those of its children.  An event carries what an overriding      *)
(* method reads from its node:                                             *)
(*                                                                         *)
(*   op    the node, or the end of the node                                *)
(*   path  the parts of a name (one part for a declared name)              *)
(*   mut   whether a declared name is mutable                              *)
(*   link  how far away the event it points to is; 0 is null:              *)
(*         fn -> its body, declare -> the function it names,               *)
(*         assign -> the variable on its left, another opener -> its end   *)
(*   loc   the source location                                             *)
(*                                                                         *)
(* The order of the walk is not the order of the source: `let x = e`       *)
(* visits e before x.  So the events of a node are first ranked by where   *)
(* they stand in the text, and Layout turns ranks into lines and bytes.    *)
(***************************************************************************)
EXTENDS SymTable, Integers

CONSTANT LineLength   \* how many ranks share a source line

ASSUME LineAssumption == LineLength \in Nat \ {0}

Op == {"fn", "endfn", "arg", "block", "end", "in", "endin", "type", "endtype",
       "declare", "name", "use", "target", "callee", "assign", "lit", "node", "endnode",
       "unop", "otherunop", "binop", "compare", "otherop", "call", "endcall",
       "if", "then", "endthen", "else", "endelse", "endif"}

Event == [op : Op, path : Seq(Name \cup {""}), mut : BOOLEAN, link : Int, loc : Location]

(* The events that open a node and those that close it. *)
Openers == {"fn", "block", "in", "type", "node", "call", "if", "then", "else"}
Closers == {"endfn", "end", "endin", "endtype", "endnode", "endcall",
            "endif", "endthen", "endelse"}

Brackets == {<<"fn", "endfn">>, <<"block", "end">>, <<"in", "endin">>, <<"type", "endtype">>,
             <<"node", "endnode">>, <<"call", "endcall">>, <<"if", "endif">>,
             <<"then", "endthen">>, <<"else", "endelse">>}

(* Where the node that opens at event i closes: a function after its body. *)
EndOf(p, i) ==
  IF p[i].op = "fn" THEN i + p[i].link + p[i + p[i].link].link + 1 ELSE i + p[i].link

(* A walk leaves every node it enters, and the inner nodes first. *)
WellNested(p) ==
  /\ \A i \in DOMAIN p : p[i].op \in Openers =>
       /\ EndOf(p, i) \in DOMAIN p /\ i < EndOf(p, i)
       /\ <<p[i].op, p[EndOf(p, i)].op>> \in Brackets
       /\ \A j \in i + 1 .. EndOf(p, i) : p[j].op \in Openers => EndOf(p, j) < EndOf(p, i)
  /\ \A j \in DOMAIN p : p[j].op \in Closers =>
       \E i \in 1 .. j - 1 : p[i].op \in Openers /\ EndOf(p, i) = j

(* The nodes of the given kinds that are open when the walk comes to event i. *)
Open(p, kinds, i) == {o \in 1 .. i - 1 : p[o].op \in kinds /\ i <= EndOf(p, o)}

-----------------------------------------------------------------------------
(* The walk of each node, events ranked from 0.                            *)

Visit(op, path, mut, link, rank) ==
  [op |-> op, path |-> path, mut |-> mut, link |-> link, rank |-> rank]

Plain(op) == <<Visit(op, <<>>, FALSE, 0, 0)>>

Shift(node, k) == [i \in DOMAIN node |-> [node[i] EXCEPT !.rank = @ + k]]

Then(first, second) == first \o Shift(second, Len(first))

Around(open, inside, close) ==
  Then(Then(<<Visit(open, <<>>, FALSE, Len(inside) + 1, 0)>>, inside), Plain(close))

(* A child that an overriding method visits for its value. *)
Operand(expr) == Around("node", expr, "endnode")

Literal == Plain("lit")

Variable(path) == <<Visit("use", path, FALSE, 0, 0)>>

(* Block: its statements in order. *)
Block(statements) ==
  LET walk[n \in 0 .. Len(statements)] ==
        IF n = 0 THEN <<>> ELSE Then(walk[n - 1], statements[n])
  IN  Around("block", walk[Len(statements)], "end")

(* Function: its arguments, which all have the location of the function,
   then its body. *)
Function(args, body) ==
  LET fn == <<Visit("fn", <<>>, FALSE, Len(args) + 1, 0)>>
            \o [i \in DOMAIN args |-> Visit("arg", <<args[i]>>, FALSE, 0, 0)]
  IN  Then(Then(fn, body), Plain("endfn"))

(* VarAssign: its value first, although the name stands before it. *)
VarAssign(name, mut, expr) ==
  LET value == Shift(expr, 1)
      fn    == IF value[1].op = "fn" THEN -Len(value) ELSE 0
  IN  Append(value, Visit("declare", <<name>>, mut, fn, 0))

(* Interface: a name with a type and no value. *)
Interface(name) == <<Visit("name", <<name>>, FALSE, 0, 0)>>

(* TypeAssign: its name, the arguments of its constructor, its body. *)
TypeAssign(name, args, body) ==
  LET head == <<Visit("name", <<name>>, FALSE, 0, 0)>>
              \o [i \in DOMAIN args |-> Visit("arg", <<args[i]>>, FALSE, 0, 1)]
  IN  Around("type", Then(head, body), "endtype")

InAssign(bind, expr) == Around("in", Then(bind, expr), "endin")

(* BinOpCall of "=" on a variable, and on any other expression. *)
Assign(path, rhs) ==
  LET sides == Then(<<Visit("target", path, FALSE, 0, 0)>>, Operand(rhs))
  IN  Append(sides, Visit("assign", <<>>, FALSE, -Len(sides), 0))
AssignTo(lhs, rhs) ==
  LET sides == Then(Operand(lhs), Operand(rhs))
  IN  Append(sides, Visit("assign", <<>>, FALSE, 0, 0))

(* UnOpCall, of an operator that computes or of `~`, which the code
   generator does not know; and BinOpCall of any other operator: one that
   computes, one that compares, or one the code generator does not know. *)
UnOpOf(op, expr) == Then(Operand(expr), Plain(op))
UnOp(expr) == UnOpOf("unop", expr)
BinOpOf(op, lhs, rhs) == Then(Then(Operand(lhs), Operand(rhs)), Plain(op))
BinOp(lhs, rhs) == BinOpOf("binop", lhs, rhs)

(* FnCall: its arguments, then what it calls, a name or another expression. *)
Arguments(args) ==
  LET walk[n \in 0 .. Len(args)] ==
        IF n = 0 THEN <<>> ELSE Then(walk[n - 1], Operand(args[n]))
  IN  walk[Len(args)]
FnCall(path, args) ==
  Around("call", Then(Arguments(args), <<Visit("callee", path, FALSE, 0, 0)>>), "endcall")
FnCallOn(expr, args) == Around("call", Then(Arguments(args), Operand(expr)), "endcall")

(* IfElse: branches of a test and a body, and the expressions after else, of
   which there is one or none. *)
IfElse(branches, else) ==
  LET walk[n \in 0 .. Len(branches)] ==
        IF n = 0 THEN <<>>
        ELSE Then(walk[n - 1], Then(Operand(branches[n].test),
                                    Around("then", branches[n].body, "endthen")))
      last == IF else = <<>> THEN <<>> ELSE Around("else", else[1], "endelse")
  IN  Around("if", Then(walk[Len(branches)], last), "endif")

(* The stack of top-level nodes, walked in order; and the events of a tree
   with their locations, starting at a given line. *)
Walk(nodes) ==
  LET walk[n \in 0 .. Len(nodes)] ==
        IF n = 0 THEN <<>> ELSE Then(walk[n - 1], nodes[n])
  IN  walk[Len(nodes)]

Layout(node, line) ==
  [i \in DOMAIN node |->
     [op |-> node[i].op, path |-> node[i].path, mut |-> node[i].mut, link |-> node[i].link,
      loc |-> [line_num |-> line + node[i].rank \div LineLength,
               byte |-> node[i].rank % LineLength]]]
=============================================================================
