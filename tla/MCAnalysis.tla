----------------------------- MODULE MCAnalysis -----------------------------
(***************************************************************************)
(* Programs to analyse: the names a, f and T, declared, shadowed, used and *)
(* reassigned in every nesting of two scopes around pairs of statements.   *)
(***************************************************************************)
EXTENDS AnalysisCorrect

MCName == {"a", "f", "g", "T", "self", "super"}

(* A program from its top-level nodes, its text starting at line 1. *)
Program(nodes) == Layout(Walk(nodes), 1)

LetA    == VarAssign("a", FALSE, Literal)
LetMutA == VarAssign("a", TRUE, Literal)
UseA    == Variable(<<"a">>)

Expressions ==
  {Variable(path) : path \in {<<"a">>, <<"self", "a">>, <<"super", "a">>, <<"", "a">>, <<"f">>}}
  \cup {Assign(<<"a">>, Literal), Assign(<<"self", "a">>, Variable(<<"f">>))}

Statements == Expressions \cup {LetA, LetMutA, VarAssign("f", TRUE, UseA)}

(* The scopes that statements may stand in. *)
Scopes(statements) ==
  {Block(statements),
   VarAssign("f", FALSE, Function(<<>>, Block(statements))),
   VarAssign("f", FALSE, Function(<<"a">>, Block(statements))),
   TypeAssign("T", <<>>, Block(statements))}

Bindings(expr) ==
  {InAssign(LetMutA, expr),
   InAssign(VarAssign("f", FALSE, Function(<<"a">>, Block(<<expr>>))), expr)}

(* One scope, with a declaration before or after it. *)
Flat ==
  UNION {{Program(<<n>>), Program(<<LetA, n>>), Program(<<n, LetMutA>>)} :
           n \in UNION {Scopes(<<s, t>>) : s, t \in Statements}}

(* A scope in a scope, with a declaration before or after it. *)
Nested ==
  UNION {{Program(<<LetMutA, n>>), Program(<<n, LetA>>)} :
           n \in UNION {Scopes(<<VarAssign("f", FALSE, m), t>>) \cup Scopes(<<t, m>>) :
                          m \in {Block(<<s>>) : s \in Statements}
                                \cup UNION {Bindings(e) : e \in Expressions},
                          t \in Statements}}

OddExpressions ==
  {Variable(path) : path \in {<<"self">>, <<"super">>, <<"T">>, <<"super", "super", "a">>, <<"a", "f">>}}
  \cup {Assign(<<"self">>, Literal), AssignTo(Literal, UseA), BinOp(UseA, Literal),
        FnCall(<<"f">>, <<UseA>>)}

OddStatements ==
  OddExpressions \cup
  {VarAssign("self", FALSE, Literal), VarAssign("super", FALSE, Literal), Interface("a"),
   TypeAssign("T", <<"a">>, Block(<<>>)), VarAssign("f", FALSE, Function(<<"a", "a">>, Block(<<UseA>>))),
   VarAssign("a", FALSE, Function(<<"a">>, Block(<<UseA>>)))}

Corners ==
  UNION {{Program(<<o>>), Program(<<s, o>>), Program(<<Block(<<o, s>>)>>)} :
           o \in OddStatements, s \in Statements \cup OddStatements}
  \cup {Program(<<InAssign(VarAssign("a", FALSE, o), e)>>) :
           o \in OddExpressions, e \in Expressions}

MCPrograms == Flat \cup Nested \cup Corners

(* A few inputs of every kind, for sessions of several. *)
MCInputs ==
  {Program(<<n>>) :
     n \in {VarAssign("f", FALSE, Function(<<"a">>, Block(<<UseA>>))),
            VarAssign("f", FALSE, Function(<<>>, Block(<<UseA>>))),
            VarAssign("a", TRUE, Block(<<LetA, UseA>>)),
            Block(<<Assign(<<"a">>, Literal), FnCall(<<"f">>, <<Literal>>)>>),
            InAssign(LetA, Assign(<<"super", "a">>, UseA)),
            TypeAssign("T", <<"a">>, Block(<<Interface("a")>>)),
            VarAssign("self", FALSE, Variable(<<"super">>)),
            VarAssign("super", FALSE, Literal)}}

-----------------------------------------------------------------------------
(* Two functions with parameters of the same name.                         *)
MCParameters ==
  {Program(<<VarAssign("f", FALSE, Function(<<"a">>, Block(<<UseA>>))),
             VarAssign("g", FALSE, Function(<<"a">>, Block(<<UseA>>)))>>)}
=============================================================================
