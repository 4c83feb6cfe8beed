--------------------------- MODULE CodegenCorrect ---------------------------
(***************************************************************************)
(* The generated module against the scoping rules of module Scoping: which *)
(* declarations its calls, slots and arguments belong to, and which        *)
(* statement a function returns the value of.                              *)
(***************************************************************************)
EXTENDS Codegen, AnalysisCorrect

(* The function an event stands in, its arguments included, and the name
   of a function, which the declaration behind it gives. *)
FunctionOf(i) == Innermost(ast, i, {"fn"})
NameOf(f) == ast[EndOf(ast, f) + 1].path[1]

(* The generator does not visit the bodies of an if without else. *)
Unvisited(i) == \E t \in Open(ast, {"then"}, i) : ~ HasElse(IfOf(t))

(* The variable that a use in the module was made for. *)
VariableOf(u) ==
  CASE u.kind = "call"  -> u.event - 1
    [] u.kind = "store" -> u.event + ast[u.event].link
    [] OTHER            -> u.event

UsesOf(n) == {u \in module[n].uses : u.input = inputs}

(* A call calls the function its name means: the generator finds it by the *)
(* last part of the name alone (LlvmIrGenerator.cpp:386), the analysis by  *)
(* scopes and location, and they agree whenever the name means a function  *)
(* that is visited, also when functions of one name stand in different     *)
(* scopes: the second definition is an error, after which nothing is said. *)
CallsAsResolved ==
  pass = "done" /\ generated /\ ~ Failed =>
    \A n \in Name : \A u \in {v \in UsesOf(n) : v.kind = "call"} :
      LET d == Resolve(ast, VariableOf(u)).decl IN
      d # 0 /\ ast[d].op = "declare" /\ ast[d].link # 0 /\ ~ Unvisited(d)
        => module[u.of].event = d /\ module[u.of].input = inputs

(* An argument that is not a function's: of the constructor of a type. *)
Constructed(d) ==
  ast[d].op = "arg" /\ ~ \E f \in DOMAIN ast : ast[f].op = "fn" /\ d \in f + 1 .. f + ast[f].link - 1

(* A body loads, stores or takes the slots and arguments of the function   *)
(* that declares the variable, as the scoping rules have it: its own ones  *)
(* unless the variable is one of a function around it (or an argument of   *)
(* another function, which the analysis lets every scope around see).  An  *)
(* argument of a constructor takes the storage of whatever value stands    *)
(* before it (LlvmIrGenerator.cpp:187).                                    *)
StorageAsResolved ==
  \A n \in Name : \A u \in {v \in UsesOf(n) : v.kind # "call"} :
    HomeInOrder(VariableOf(u)) =>
      LET d == Resolve(ast, VariableOf(u)).decl IN
      d # 0 /\ (Constructed(d) \/ u.of = NameOf(FunctionOf(d)))

(* Expressions that leave the value before them in place: variables without
   storage and assignments to them, an if without else, an operator without
   instruction, unary ones included, an empty block, a type, and a scope that
   ends with one. *)
LOCAL Slotless(i) ==
  LET d == Resolve(ast, i).decl IN d = 0 \/ (ast[d].op = "declare" /\ ast[d].link # 0)

LOCAL Silent(last) ==
  LET silent[i \in DOMAIN ast] ==
        CASE ast[i].op = "use"                        -> Slotless(i)
          [] ast[i].op = "assign"                     -> Slotless(i + ast[i].link)
          [] ast[i].op = "endif"                      -> ast[i - 1].op # "endelse"
          [] ast[i].op \in {"end", "endin"}           -> silent[i - 1]
          [] ast[i].op \in {"block", "otherop", "otherunop", "endtype"} -> TRUE
          [] OTHER                                    -> FALSE
  IN  silent[last]

(* The event at which the value of the expression that ends at event i is
   made. *)
LOCAL ValueOf(last) ==
  LET value[i \in DOMAIN ast] == IF ast[i].op \in {"end", "endin"} THEN value[i - 1] ELSE i
  IN  value[last]

(* A function returns the value of the expression it ends with, not one left *)
(* behind by a statement before it, whatever blocks, calls and functions     *)
(* that save, reset and set codegen lie between; one that ends with a        *)
(* declaration returns nothing, whatever stands before the declaration.      *)
ReturnsLast ==
  pass = "done" /\ generated /\ ~ Failed =>
    \A fn \in {i \in DOMAIN ast : ast[i].op = "fn" /\ Innermost(ast, i, {"then"}) = 0} :
      LET f    == module[NameOf(fn)]
          body == fn + ast[fn].link
          last == body + ast[body].link - 1
      IN  ~ Silent(last) =>
            f.state = "complete" /\ f.value.at = ValueOf(last) /\ ast[ValueOf(last)].op # "declare"
=============================================================================
