---------------------------- MODULE ParserCorrect ----------------------------
(***************************************************************************)
(* What the parser promises of the inputs it reads, and of the stack on    *)
(* the way; and what its comments say of it that some inputs refute.       *)
(***************************************************************************)
EXTENDS Parser

Quiet == status = "done" /\ ~failed

Content == Names \union TypeNames \union Numerals \union {"mut"}

InOrder(nodes) ==
  \A i, j \in DOMAIN nodes :
    i < j => \A p \in nodes[i].places, q \in nodes[j].places : p < q

RECURSIVE Within(_)
Within(node) ==
  {node} \union UNION {UNION {Within(part) : part \in ToSet(node.parts[i])} :
                       i \in DOMAIN node.parts}

Tree == UNION {Within(stack[i]) : i \in DOMAIN stack}

(* Every node of the stack owns the kinds of nodes its class declares: the *)
(* casts of util/parser.h never hand a member what it cannot hold.         *)
ParserTypeOK ==
  /\ pos \in 1..(Len(text) + 1)
  /\ act \in BOOLEAN /\ failed \in BOOLEAN
  /\ status \in {"reading", "done", "rejected", "crashed", "threw"}
  /\ \A i \in DOMAIN stack : WellTyped(stack[i])

(* The action of rule r is about to run, on what was on the stack when the *)
(* rule began and what was pushed since.                                   *)
Acts(r) == AtItem({"apply"}) /\ Next1.r = r
Before == SubSeq(stack, 1, Next1.base)
Own == SubSeq(stack, Next1.base + 1, Len(stack))
Among(nodes, kinds) == \E i \in DOMAIN nodes : nodes[i].kind \in kinds

(* What an action falls over: a keyword its expression took for `mut`, an  *)
(* annotation of the program where the statement should be, an assignment  *)
(* made already, what is left of an argument or of a type given up, a      *)
(* `mut` that nothing followed, a bracket or a `&` given up, a call within *)
(* the index of a name.                                                    *)
Waylaid ==
  \/ Acts("jump") /\ AtNode("ValExpr", stack) /\ Last(stack).is_mut
  \/ Acts("statement") /\ AtNode("Annotation", stack)
  \/ Acts("_interface") /\ AtNode("InAssign", stack)
  \/ Acts("type_assign") /\ Among(Own, {"nullptr", "SourceType"})
  \/ Acts("asgn_val") /\ Among(Own, {"Token"})
  \/ Acts("standalone_visibility") /\ AtNode("Symbol", stack)
  \/ Acts("pat_tuple") /\ Among(Own, {"Token"})
  \/ Acts("rebind") /\ AtNode("Tuple", Before)

(* An action finds on the stack the nodes it follows without a test:       *)
(* whatever was tried before it, matched or not, has not taken them or     *)
(* buried them under something else, save for what Waylaid lists.          *)
ActionsFindNodes == [][status' \in {"crashed", "threw"} => Waylaid]_vars

(* Left on the stack by an action that looks one node too high: the type   *)
(* and the `for` of an impl, the name with a call in its index.            *)
Stray(i) ==
  \E j \in {i + 1, i + 2} \intersect DOMAIN stack :
    \/ stack[j].kind = "ImplExpr" /\ stack[j - 1].value = "FOR"
    \/ stack[j].kind = "FnCall" /\ stack[j].parts[1] = <<>> /\ stack[i].kind = "Path"

(* Nothing stands between the two places.                                  *)
Adjacent(p, q) == \A i \in (p + 1)..(q - 1) : text[i] \in {Blank, EndLine}

(* Both places are in one element, on one side of its annotation, of a     *)
(* tuple that an arrow follows.                                            *)
InOneParameter(p, q) ==
  \E open \in 1..(p - 1), close \in (p + 1)..(pos - 1) :
    /\ text[open] = "(" /\ text[close] = ")" /\ q \in open..close
    /\ \A i \in (open + 1)..(close - 1) : text[i] \notin {"(", ")"}
    /\ \A i \in (p..q) \union (q..p) :
         text[i] # "," /\ (text[i] = ":" => text[i + 1] # ":")
    /\ \E arrow \in (close + 1)..(pos - 2) :
         /\ text[arrow] = "-" /\ text[arrow + 1] = ">"
         /\ Adjacent(close, arrow)

(* Of a parameter only its last name counts: what stands beside that name, *)
(* a `mut`, a path before or an index after it.                            *)
BesideParameter(p) ==
  \E q \in PlacesOf(stack) : text[q] \in Names \union TypeNames /\ InOneParameter(p, q)

(* Of a jump that is `mut`, the `mut` becomes the keyword.                 *)
BeforeJump(p) ==
  /\ text[p] = "mut"
  /\ \E q \in (p + 1)..(pos - 1) : Adjacent(p, q)
       /\ text[q] \in {"break", "continue", "return", "yield", "wait"}

(* What was read and no error logged for is on the stack, as statements in *)
(* the order of the text, with each of its names, numerals and "mut" in    *)
(* one of them: no action drops a node that another has pushed, save       *)
(* beside a parameter or before a jump, or leaves one behind, save for a   *)
(* Stray.                                                                  *)
NothingLost ==
  Quiet =>
    /\ \A i \in DOMAIN stack : IsType("Statement", stack[i]) \/ Stray(i)
    /\ InOrder(SelectSeq(stack, LAMBDA node : IsType("Statement", node)))
    /\ \A i \in 1..(pos - 1) :
         text[i] \in Content =>
           i \in PlacesOf(stack) \/ BesideParameter(i) \/ BeforeJump(i)

(* The elements of a tuple, the statements of a block, the branches of an  *)
(* if and the operands of an operator are in the order they were written.  *)
KeptInOrder ==
  status = "done" =>
    \A node \in Tree :
      /\ \A i \in DOMAIN node.parts : InOrder(node.parts[i])
      /\ node.kind = "BinOpCall" => InOrder(node.parts[1] \o node.parts[2])

Closing == [open \in {"(", "[", "{"} |->
              CASE open = "(" -> ")" [] open = "[" -> "]" [] open = "{" -> "}"]

(* What is still open at a place; a bracket that closes no other stays.    *)
Unclosed(last) ==
  LET at[p \in 0..last] ==
        IF p = 0 THEN <<>>
        ELSE LET open == at[p - 1]
                 x == text[p]
             IN  IF x \in DOMAIN Closing THEN Append(open, Closing[x])
                 ELSE IF x \notin {")", "]", "}"} THEN open
                 ELSE IF open # <<>> /\ Last(open) = x THEN Front(open)
                 ELSE Append(open, "unmatched")
  IN  at[last]

(* What was read without an error has its brackets, and it is the input,   *)
(* or all of it before an empty line: what cannot be read after one is not *)
(* looked at any more.                                                     *)
QuietMeansWhole ==
  Quiet =>
    /\ Unclosed(pos - 1) = <<>>
    /\ pos <= Len(text) => SubSeq(text, pos - 2, pos - 1) = <<EndLine, EndLine>>

Level(node) == CHOOSE l \in DOMAIN BinaryCont : BinaryCont[l] = node.value
OfLevel(nodes, levels) ==
  \A i \in DOMAIN nodes : nodes[i].kind = "BinOpCall" => Level(nodes[i]) \in levels

(* Operators bind as their levels say, and to the left within a level.     *)
OperatorsNest ==
  status = "done" =>
    \A node \in Tree :
      node.kind = "BinOpCall" =>
        /\ OfLevel(node.parts[1], 1..Level(node))
        /\ OfLevel(node.parts[2], 1..(Level(node) - 1))

(* The rules whose match becomes one node.                                 *)
SelfContained ==
  {"valexpr", "scope", "tuple", "_array", "pat_tuple", "assign_tuple",
   "tuple_type", "_generic", "arg_tuple", "braced_type", "mut_type", "ref_type",
   "single_type", "capture", "pat_lit", "branch", "matchs", "whilel", "loop",
   "jump", "_case", "_char", "string", "decimal", "impl", "adt", "unopcall",
   "annotation", "arg"}

AfterMut ==
  \E p \in 1..(Next1.from - 1) : text[p] = "mut" /\ Adjacent(p, Next1.from)

(* Nodes from before the rule that it is known to take, or a rule in it:   *)
(* the keyword or the `mut` before an expression, the branch of the `if`   *)
(* around.  Nodes of its own that it is known to leave: a sentinel, the    *)
(* `for` of an impl, a name with a call in its index.                      *)
Strays ==
  \/ Own = <<>>
  \/ Acts("valexpr") /\ AtNode("Token", Before)
  \/ Next1.r \in {"whilel", "loop", "branch", "matchs"} /\ AfterMut
  \/ Acts("jump") /\ Last(stack).is_mut
  \/ Acts("branch") /\ AtNode("IfBranch", Before)
  \/ Among(Own, {"nullptr"})
  \/ Acts("impl") /\ Among(Own, {"Token"})
  \/ Among(Front(Own), {"Path"})

(* As long as no error was found, such a rule has put one node on top of   *)
(* the stack it began with: what it took, it or a rule in it had pushed,   *)
(* save for what Strays lists.                                             *)
Framed ==
  [][( /\ AtItem({"apply"}) /\ Next1.r \in SelfContained
       /\ ~failed' /\ status' = "reading" /\ ~Strays)
       => Len(stack') = Next1.base + 1]_vars

(* The parser is where it was before: leftovers has matched and read       *)
(* nothing, and the name there is on the stack already, of a path that was *)
(* given up.                                                               *)
Spinning ==
  /\ Acts("leftovers") /\ Next1.from = pos
  /\ AtNode("Path", stack) /\ pos \in Last(stack).places

(* Reading comes to an end, or it begins to spin at a path given up.       *)
Terminates == <>(status # "reading" \/ Spinning)

-----------------------------------------------------------------------------
(* What the code's comments and messages say, and some inputs refute.      *)

(* The comment of jump: "stack: kwd expr?".                                *)
JumpFindsKeyword ==
  Acts("jump") => AtNode("Token", Pop("ValExpr", stack).s)

(* An if-then-else is a sequence of branches: it has the one of its `if`.  *)
BranchesKept ==
  status = "done" => \A node \in Tree : node.kind = "IfElse" => node.parts[1] # <<>>

(* The message of leftovers, "Unexpected input: Could not match spero      *)
(* expression": there is an input it has gone over.                        *)
LeftoversRead == Acts("leftovers") => pos > Next1.from
=============================================================================
