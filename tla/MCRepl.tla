------------------------------- MODULE MCRepl -------------------------------
(***************************************************************************)
(* Lines to enter: functions, expressions, declarations and mistakes of    *)
(* each phase, as text, as a file to load and as a file to compile.        *)
(***************************************************************************)
EXTENDS Repl

MCName == {"a", "f", "g", "jitfunc", "self", "super"}

LOCAL Input(command, nodes, parse) ==
  LET all   == Layout(Walk(nodes), 1)
      upto[n \in 0 .. Len(nodes)] == IF n = 0 THEN 0 ELSE upto[n - 1] + Len(nodes[n])
  IN  [command |-> command, parse |-> parse,
       nodes |-> [n \in 1 .. Len(nodes) |-> SubSeq(all, upto[n - 1] + 1, upto[n])]]

LOCAL Text(nodes) == Input("text", nodes, "parsed")

LOCAL A == Variable(<<"a">>)
LOCAL DefineF == VarAssign("f", FALSE, Function(<<"a">>, Block(<<A>>)))
LOCAL DefineG == VarAssign("g", FALSE, Function(<<>>, Block(<<FnCall(<<"f">>, <<Literal>>)>>)))
LOCAL CallJit == VarAssign("g", FALSE, Function(<<>>, Block(<<FnCall(<<"jitfunc">>, <<>>)>>)))
LOCAL DefineJit == VarAssign("jitfunc", FALSE, Function(<<>>, Block(<<Literal>>)))
LOCAL LetA == VarAssign("a", FALSE, Literal)
LOCAL CallF == FnCall(<<"f">>, <<Literal>>)

MCLines ==
  {Text(<<DefineF>>), Text(<<DefineG>>), Text(<<CallF>>), Text(<<A, DefineF>>), Text(<<CallJit>>), Text(<<DefineJit, CallJit>>),
   Text(<<FnCall(<<"f">>, <<>>), Literal>>), Text(<<LetA>>),
   Text(<<Block(<<VarAssign("g", FALSE, Function(<<>>, Block(<<Literal>>))), FnCall(<<"g">>, <<>>)>>)>>),
   Text(<<VarAssign("f", FALSE, Function(<<>>, Block(<<Literal>>)))>>),
   Input("text", <<>>, "errors"), Input("text", <<DefineF>>, "throws"),
   Input("load", <<DefineF, LetA>>, "parsed"), Input("load", <<>>, "throws"),
   Input("load", <<>>, "errors"), Input("compile", <<DefineG, CallF>>, "parsed"),
   Input("compile", <<>>, "no argument"), Input("flag", <<>>, "parsed"),
   Input("flag", <<>>, "no argument"), Input("quit", <<>>, "parsed")}

(* A call that the generator refuses before a value, then only functions.  *)
MCStale == {Text(<<FnCall(<<"f">>, <<>>), Literal>>), Text(<<DefineF>>), Text(<<DefineG>>)}

(* A line that defines a value. *)
MCDefinition == {Text(<<LetA>>)}

(* No inputs but those of the lines. *)
MCPrograms == {}
=============================================================================
