----------------------------- MODULE ParseNodes -----------------------------
(***************************************************************************)
(* The nodes of incl/parser/ast.h as the parser builds them, and the       *)
(* operations of incl/util/parser.h on a stack of them.  A kind has the    *)
(* kinds that derive from it and the members that own other nodes; names,  *)
(* numbers and locations are left out, what an action asks about is not.   *)
(***************************************************************************)
EXTENDS Naturals, Sequences, SequencesExt

ptr(kind) == [of |-> kind, many |-> FALSE]
deque(kind) == [of |-> kind, many |-> TRUE]

(* The kinds that own no nodes.                                            *)
PlainKinds ==
  [kind \in {"Token", "Type", "Statement", "ValExpr", "Literal", "Bool", "Byte",
             "Float", "Int", "Char", "String", "Future", "BasicBinding", "Pattern",
             "AssignPattern", "Constructor", "Branch", "Symbol", "Error",
             "CloseSymbolError", "ValError"} |-> <<>>]

AtomKinds ==
  [Tuple |-> <<deque("ValExpr")>>,
   Array |-> <<deque("ValExpr")>>,
   Block |-> <<deque("Statement")>>,
   Function |-> <<deque("Argument"), ptr("Block")>>]

NameKinds ==
  [PathPart |-> <<ptr("Array")>>,
   Path |-> <<deque("PathPart")>>,
   TuplePattern |-> <<deque("Pattern")>>,
   VarPattern |-> <<ptr("Path")>>,
   AdtPattern |-> <<ptr("Path"), ptr("TuplePattern")>>,
   ValPattern |-> <<ptr("ValExpr")>>,
   AssignName |-> <<ptr("BasicBinding")>>,
   AssignTuple |-> <<deque("AssignPattern")>>]

TypeKinds ==
  [SourceType |-> <<ptr("Path")>>,
   GenericType |-> <<ptr("Path"), ptr("Array")>>,
   TupleType |-> <<deque("Type")>>,
   FunctionType |-> <<ptr("TupleType"), ptr("Type")>>,
   AndType |-> <<deque("Type")>>,
   OrType |-> <<deque("Type")>>]

DecoratorKinds ==
  [Annotation |-> <<ptr("BasicBinding"), ptr("Tuple")>>,
   LocalAnnotation |-> <<ptr("BasicBinding"), ptr("Tuple")>>,
   GenericPart |-> <<ptr("BasicBinding"), ptr("Type")>>,
   TypeGeneric |-> <<ptr("BasicBinding"), ptr("Type")>>,
   ValueGeneric |-> <<ptr("BasicBinding"), ptr("Type"), ptr("ValExpr")>>,
   LitGeneric |-> <<ptr("ValExpr")>>,
   GenericArray |-> <<deque("GenericPart")>>,
   Adt |-> <<ptr("BasicBinding"), ptr("TupleType")>>,
   TypeAnnotation |-> <<ptr("ValExpr"), ptr("Type")>>,
   Argument |-> <<ptr("BasicBinding"), ptr("Type")>>,
   ArgTuple |-> <<deque("Argument")>>]

ControlKinds ==
  [Loop |-> <<ptr("ValExpr")>>,
   While |-> <<ptr("ValExpr"), ptr("ValExpr")>>,
   For |-> <<ptr("Pattern"), ptr("ValExpr"), ptr("ValExpr")>>,
   IfBranch |-> <<ptr("ValExpr"), ptr("ValExpr")>>,
   IfElse |-> <<deque("IfBranch"), ptr("ValExpr")>>,
   Case |-> <<ptr("TuplePattern"), ptr("ValExpr"), ptr("ValExpr")>>,
   Match |-> <<ptr("ValExpr"), deque("Case")>>,
   Jump |-> <<ptr("ValExpr")>>]

StatementKinds ==
  [ModDec |-> <<ptr("Path")>>,
   ImplExpr |-> <<ptr("SourceType"), ptr("SourceType"), ptr("Block")>>,
   ModRebindImport |-> <<ptr("Path")>>,
   SingleImport |-> <<ptr("Path")>>,
   MultipleImport |-> <<ptr("Path"), deque("PathPart")>>,
   Rebind |-> <<ptr("Path"), ptr("Path")>>,
   Interface |-> <<ptr("AssignPattern"), ptr("GenericArray"), ptr("Type")>>,
   TypeAssign |-> <<ptr("AssignPattern"), ptr("GenericArray"),
                  deque("Constructor"), ptr("Block")>>,
   VarAssign |-> <<ptr("AssignPattern"), ptr("GenericArray"),
                 ptr("Type"), ptr("ValExpr")>>]

ExpressionKinds ==
  [TypeExtension |-> <<ptr("Path"), ptr("Tuple"), ptr("Block")>>,
   InAssign |-> <<ptr("VarAssign"), ptr("ValExpr")>>,
   Variable |-> <<ptr("Path")>>,
   UnOpCall |-> <<ptr("ValExpr"), ptr("BasicBinding")>>,
   BinOpCall |-> <<ptr("ValExpr"), ptr("ValExpr")>>,
   Index |-> <<deque("ValExpr")>>,
   FnCall |-> <<ptr("ValExpr"), ptr("Tuple")>>]

ErrorKinds ==
  [TypeError |-> <<ptr("Path")>>,
   ScopeError |-> <<deque("Statement")>>]

Kinds ==
  PlainKinds @@ AtomKinds @@ NameKinds @@ TypeKinds @@ DecoratorKinds
    @@ ControlKinds @@ StatementKinds @@ ExpressionKinds @@ ErrorKinds

(* The kinds declared with another as their base.                          *)
Derived ==
  [Statement |-> {"ValExpr", "ModDec", "ImplExpr", "ModRebindImport", "Interface"},
   ValExpr |-> {"Literal", "String", "Future", "Tuple", "Array", "Block", "Function",
                "TypeAnnotation", "Branch", "Case", "TypeExtension", "InAssign",
                "Variable", "UnOpCall", "BinOpCall", "Index", "FnCall", "ValError"},
   Literal |-> {"Bool", "Byte", "Float", "Int", "Char"},
   Block |-> {"ScopeError"},
   Branch |-> {"Loop", "IfBranch", "IfElse", "Match", "Jump"},
   Loop |-> {"While", "For"},
   Pattern |-> {"TuplePattern", "VarPattern", "ValPattern"},
   VarPattern |-> {"AdtPattern"},
   AssignPattern |-> {"AssignName", "AssignTuple"},
   Type |-> {"SourceType", "TupleType", "FunctionType", "AndType", "OrType"},
   SourceType |-> {"GenericType", "TypeError"},
   Annotation |-> {"LocalAnnotation"},
   GenericPart |-> {"TypeGeneric", "ValueGeneric", "LitGeneric"},
   Constructor |-> {"Adt", "ArgTuple"},
   ModRebindImport |-> {"SingleImport", "MultipleImport", "Rebind"},
   Interface |-> {"TypeAssign", "VarAssign"},
   Error |-> {"CloseSymbolError"}]

Descendants[base \in DOMAIN Derived] ==
  Derived[base] \union
    UNION {Descendants[kind] : kind \in Derived[base] \intersect DOMAIN Derived}

-----------------------------------------------------------------------------
(* A node: its kind, the value an action asks about (the keyword of a      *)
(* token, the binding type of a name), whether it is mutable, the places   *)
(* in the text of the names, literals and keywords it was made from, and   *)
(* for each member the sequence of nodes it owns, empty for nullptr.       *)

Node(kind, value, places, parts) ==
  [kind |-> kind, value |-> value, is_mut |-> FALSE,
   places |-> places \union
     UNION {part.places : part \in UNION {ToSet(parts[i]) : i \in DOMAIN parts}},
   parts |-> parts]

NullPtr == [kind |-> "nullptr", value |-> "none", is_mut |-> FALSE,
            places |-> {}, parts |-> <<>>]

IsType(kind, node) ==
  \/ node.kind = kind
  \/ kind \in DOMAIN Derived /\ node.kind \in Descendants[kind]

(* The node owns what the declaration of its kind says; what it owns was   *)
(* a node of the stack before, or is nullptr.                              *)
WellTyped(node) ==
  \/ node.kind = "nullptr"
  \/ LET members == Kinds[node.kind]
     IN  /\ DOMAIN node.parts = DOMAIN members
         /\ \A i \in DOMAIN members :
              /\ members[i].many \/ Len(node.parts[i]) <= 1
              /\ \A j \in DOMAIN node.parts[i] :
                   LET part == node.parts[i][j]
                   IN  part.kind = "nullptr" \/ IsType(members[i].of, part)

-----------------------------------------------------------------------------
(* The stack, its top the last element.  What is taken is a sequence of    *)
(* nodes, empty when the code is left with nullptr.                        *)

AtNode(kind, s) == s # <<>> /\ IsType(kind, Last(s))

(* What is above the n nodes that stay.                                    *)
TakeAbove(n, s) == [taken |-> SubSeq(s, n + 1, Len(s)), s |-> SubSeq(s, 1, n)]
LastUnlike(kind, s) == SelectLastInSeq(s, LAMBDA node : ~IsType(kind, node))

Pop(kind, s) == TakeAbove(IF AtNode(kind, s) THEN Len(s) - 1 ELSE Len(s), s)

(* Seeded: collected in the order they come off the stack.                *)
PopSeqBackwards(kind, s) ==
  LET got == TakeAbove(LastUnlike(kind, s), s)
  IN  [got EXCEPT !.taken = Reverse(@)]

PopSeq(kind, s) == TakeAbove(LastUnlike(kind, s), s)

(* Several pops in a row; `One` pops a node, `All` every node of a kind.   *)
One(kind) == [of |-> kind, all |-> FALSE]
All(kind) == [of |-> kind, all |-> TRUE]

Added(taken, popped) == [taken |-> Append(taken, popped.taken), s |-> popped.s]
Take(s, wanted) ==
  FoldLeft(LAMBDA got, want :
             Added(got.taken, IF want.all THEN PopSeq(want.of, got.s)
                                          ELSE Pop(want.of, got.s)),
           [taken |-> <<>>, s |-> s], wanted)
=============================================================================
