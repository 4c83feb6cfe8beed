----------------------------- MODULE MCCodegen -----------------------------
(***************************************************************************)
(* Programs to generate code for: a function g of two statements after a   *)
(* function f, and the programs of _test, with f and g for their function  *)
(* names and a, b, c for their variables.                                  *)
(***************************************************************************)
EXTENDS CodegenCorrect

MCName == {"a", "b", "c", "f", "g", "T", "self", "super"}

Program(nodes) == Layout(Walk(nodes), 1)

LOCAL A == Variable(<<"a">>)
LOCAL B == Variable(<<"b">>)
LOCAL C == Variable(<<"c">>)
LOCAL Let(n, e) == VarAssign(n, FALSE, e)
LOCAL Mut(n, e) == VarAssign(n, TRUE, e)
LOCAL Fun(n, args, statements) == VarAssign(n, FALSE, Function(args, Block(statements)))
LOCAL Less == BinOpOf("compare", A, Literal)
LOCAL If(then, else) == IfElse(<<[test |-> Less, body |-> then]>>, else)

(* The programs of _test/tests.yaml that are to compile and do.            *)
Suite ==
  {Program(<<Fun("g", <<>>, <<Literal>>)>>),
   Program(<<Fun("g", <<>>, <<BinOp(Literal, Literal)>>)>>),
   Program(<<Fun("g", <<>>, <<BinOp(BinOp(Literal, BinOp(Literal, Literal)), BinOp(Literal, Literal))>>)>>),
   Program(<<Fun("g", <<>>, <<Let("a", Literal), A>>)>>),
   Program(<<Fun("g", <<>>, <<Let("a", Literal), Let("b", Literal), Let("c", Literal),
                              BinOp(BinOp(A, B), C)>>)>>),
   Program(<<Fun("g", <<>>, <<BinOp(Literal, Block(<<BinOpOf("compare", Literal, Literal)>>))>>)>>),
   Program(<<Fun("g", <<>>, <<Let("a", Literal),
                InAssign(Let("b", Block(<<Let("a", Literal), BinOp(A, Literal)>>)), BinOp(B, A))>>)>>),
   Program(<<Fun("g", <<>>, <<Mut("a", Literal), Assign(<<"a">>, BinOp(A, Literal)), A>>)>>),
   Program(<<Fun("f", <<"a", "b">>, <<BinOp(A, B)>>),
             Fun("g", <<>>, <<FnCall(<<"f">>, <<Literal, Literal>>)>>)>>),
   Program(<<Fun("f", <<"a">>, <<A>>),
             Fun("g", <<>>, <<BinOp(FnCall(<<"f">>, <<Literal>>), FnCall(<<"f">>, <<Literal>>))>>)>>),
   Program(<<Fun("f", <<"a">>, <<IfElse(<<[test |-> BinOpOf("compare", A, Literal), body |-> Block(<<Literal>>)]>>,
                <<Block(<<BinOp(A, FnCall(<<"f">>, <<BinOp(A, Literal)>>))>>)>>)>>),
             Fun("g", <<>>, <<BinOp(FnCall(<<"f">>, <<Literal>>), FnCall(<<"f">>, <<Literal>>))>>)>>),
   Program(<<Fun("c", <<>>, <<Literal>>),
             Fun("f", <<"a">>, <<BinOp(FnCall(<<"c">>, <<>>), A)>>),
             Fun("g", <<>>, <<FnCall(<<"f">>, <<Literal>>)>>)>>)}

(* Those that are to compile as well and are refused.  func_after.spr:     *)
(* main calls a function that is declared after it.  func_pointless.spr: a *)
(* function whose two parameters are both `Int`; what its body is does not *)
(* matter to the pass that refuses it.                                     *)
Refused ==
  {Program(<<Fun("g", <<>>, <<FnCall(<<"f">>, <<Literal, Literal>>)>>),
             Fun("f", <<"a", "b">>, <<BinOp(A, B)>>)>>),
   Program(<<Fun("f", <<"a", "a">>, <<Literal>>),
             Fun("g", <<>>, <<FnCall(<<"f">>, <<Literal, Literal>>)>>)>>)}

Expressions ==
  {Literal, A, Variable(<<"super", "a">>), Variable(<<"f">>), Assign(<<"a">>, Literal),
   FnCall(<<"f">>, <<A>>), FnCall(<<"f">>, <<>>), FnCall(<<"g">>, <<>>),
   BinOp(A, FnCall(<<"f">>, <<Literal>>)), UnOp(A), UnOpOf("otherunop", A), BinOpOf("otherop", A, Literal),
   If(A, <<Literal>>), If(Literal, <<>>), InAssign(Let("a", Literal), A)}

Statements ==
  Expressions \cup
  {Mut("a", Literal), Let("a", A), Block(<<Mut("a", Literal), A>>), Block(<<>>),
   Fun("f", <<"a">>, <<A>>), Fun("f", <<>>, <<Variable(<<"super", "a">>)>>)}

(* A function f before g, or none. *)
Before_g == {<<Fun("f", <<"a">>, <<A>>)>>, <<Fun("f", <<>>, <<Literal, Let("a", Literal)>>)>>, <<>>}

Pairs ==
  {Program(<<Fun("f", <<"b">>, <<B>>), Fun("g", <<"a">>, <<s, t>>)>>) : s, t \in Statements}
  \cup {Program(f \o <<Fun("g", <<>>, <<Mut("a", Literal), t>>)>>) : f \in Before_g, t \in Statements}
  \cup {Program(f \o <<Fun("g", <<>>, <<t>>)>>) : f \in Before_g, t \in Statements}

(* What the generator does not support, at the top and in a function. *)
Odd ==
  {Less, UnOp(Less), BinOp(Block(<<>>), Literal), UnOp(Block(<<>>)), UnOpOf("otherunop", Block(<<>>)), Let("b", Less),
   IfElse(<<[test |-> A, body |-> A]>>, <<>>), If(Block(<<>>), <<Literal>>), If(A, <<Less>>),
   Interface("b"), TypeAssign("T", <<"b">>, Block(<<Interface("c"), Let("b", A)>>)),
   TypeAssign("T", <<>>, Block(<<B, TypeAssign("a", <<"c">>, Block(<<>>))>>)),
   Fun("f", <<>>, <<Literal>>), Function(<<>>, Block(<<A>>)), FnCallOn(Block(<<A>>), <<Literal>>), FnCall(<<"f">>, <<Less>>),
   Assign(<<"a">>, Block(<<>>)), Let("f", Literal), Let("b", Variable(<<"f">>)),
   Fun("b", <<>>, <<Fun("c", <<>>, <<FnCall(<<"b">>, <<>>)>>)>>),
   Block(<<VarAssign("c", TRUE, Function(<<>>, Block(<<A>>))), Literal, Assign(<<"c">>, A)>>)}

Corners ==
  UNION {{Program(<<Fun("f", <<"b">>, <<B>>), Fun("g", <<>>, <<Mut("a", Literal), o, t>>)>>),
          Program(<<Fun("g", <<"b">>, <<Mut("a", Literal), B, o, t>>)>>),
          Program(<<Fun("f", <<"a">>, <<A>>), o>>), Program(<<Fun("f", <<>>, <<Literal>>), o, t>>)} :
            o \in Odd, t \in {Literal, A, FnCall(<<"f">>, <<Literal>>),
                              TypeAssign("T", <<"b">>, Block(<<>>))}}

(* A function within g, under a name of its own or one that is taken, and
   declarations after it. *)
Nested ==
  {Program(<<Fun("f", <<>>, <<Literal>>),
             Fun("g", <<>>, <<Literal, Fun(n, args, <<Literal>>), Let(x, Literal), y>>)>>) :
     n \in {"c", "f"}, args \in {<<>>, <<"a">>}, x \in {"a", "b"},
     y \in {Literal, A, B, FnCall(<<"c">>, <<>>), FnCall(<<"f">>, <<>>)}}

(* A name that means a function of an outer scope where it is called and
   another one where it is generated; an argument of a constructor, which
   takes the storage of another function's; a function whose argument has
   its own name, so that the vector of the name is out of order. *)
Scattered ==
  {Program(<<Block(<<Fun("f", <<>>, <<Literal>>)>>), Fun("g", <<>>, <<FnCall(<<"f">>, <<>>)>>),
             Fun("f", <<>>, <<Literal>>)>>),
   Program(<<Fun("f", <<"a">>,
               <<Fun("g", <<>>,
                   <<Literal, TypeAssign("T", <<>>, Block(<<A, TypeAssign("b", <<"c">>, Block(<<>>)), C>>)),
                     Literal>>), Literal>>)>>),
   Program(<<Fun("a", <<"a">>, <<A>>), Fun("g", <<>>, <<FnCall(<<"a">>, <<Literal>>), A>>)>>)}

MCPrograms == Suite \cup Refused \cup Pairs \cup Corners \cup Nested \cup Scattered

(* The programs of the test suite compile: nothing is refused, nothing     *)
(* crashes, and main, here g, is a function of the module that returns a   *)
(* number; recursion, nested scopes and calls in arguments included.  Two  *)
(* of them do not, though _test/tests.yaml:111-122 has them among those    *)
(* that do: one calls a function that is generated later                   *)
(* (LlvmIrGenerator.cpp:388), and goes on to the null that this leaves for *)
(* main (:144); one has a second parameter of the same name                *)
(* (VarDeclPass.cpp:18).  Neither comes to its end without an error.       *)
SuiteCompiles ==
  /\ ast \in Suite =>
       /\ diagnosed = {} /\ pass # "crashed"
       /\ pass = "done" /\ generated =>
            module["g"].state = "complete" /\ module["g"].value.type \in Int32
  /\ ast \in Refused /\ (pass = "crashed" \/ (pass = "done" /\ generated)) => diagnosed # {}
=============================================================================
