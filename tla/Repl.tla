-------------------------------- MODULE Repl --------------------------------
(***************************************************************************)
(* The interactive interpreter: the command loop of main.cpp, and          *)
(* ReplDriver::interpret, which takes one line through the parser, the     *)
(* wrapping of its expressions in a function jitfunc, the passes, the code *)
(* generator and LLVM's interpreter.  The driver, its syntax tree, arena,  *)
(* translation unit and error count live on from line to line; reset is    *)
(* all that lies between two lines, and not every line comes to it.        *)
(*                                                                         *)
(* The parser is outside this module: a line comes with the nodes that the *)
(* parser leaves on the stack and with what became of the parsing.         *)
(***************************************************************************)
EXTENDS Codegen

CONSTANT Lines   \* what may be entered

(* A command, :l, :c, :s compile and :q beside plain text, with the nodes of
   its text or file, each with its locations, which start at line 1 for every
   input.  Parsing fails, or throws: no such file, a number out of range.  A
   command may lack its argument. *)
Commands == {"text", "load", "compile", "flag", "quit"}
Outcomes == {"parsed", "errors", "throws", "no argument"}

ASSUME LinesAssumption ==
  /\ "jitfunc" \in Name
  /\ Lines \subseteq [command : Commands, nodes : Seq(Seq(Event)), parse : Outcomes]
  /\ \A line \in Lines : \A i \in DOMAIN line.nodes :
       line.nodes[i] # <<>> /\ WellLinked(line.nodes[i]) /\ WellNested(line.nodes[i])

VARIABLES
  stage,        \* where the loop is: at the prompt, in a line, or out of it
  compiling,    \* flags["compile"]
  permissions,  \* do_compile and interpret of CompilationState::permissions
  stack,        \* AnalysisDriver::ast, node by node
  misparsed,    \* whether parsing has counted errors
  result        \* the input whose jitfunc the line ran, 0 for none

replvars == <<stage, compiling, permissions, stack, misparsed, result>>
everything == <<allvars, replvars>>

ReplFailed == misparsed \/ Failed

(* Before the first line nothing has been analysed: `inputs` counts the
   lines and `ast` is the tree the passes walk, empty at the prompt. *)
ReplInit ==
  /\ inputs = 0 /\ ast = <<>> /\ pass = "done" /\ pc = 1
  /\ arena = <<NewTable(GlobalSymIndex, "GLOBAL")>>
  /\ current = GlobalSymIndex /\ context = "GLOBAL" /\ frames = <<>>
  /\ locals = <<>> /\ def_table = <<>> /\ diagnosed = {}
  /\ generated = FALSE
  /\ codegen = Null /\ operands = <<>> /\ saved = <<>> /\ insert = NoFunction
  /\ module = [n \in Name |-> Absent] /\ storage = <<>>
  /\ stage = "prompt" /\ compiling = TRUE
  /\ permissions = [do_compile |-> TRUE, interpret |-> TRUE]
  /\ stack = <<>> /\ misparsed = FALSE /\ result = 0

-----------------------------------------------------------------------------
(* addInterpreterAstTransformations.                                       *)

IsFunction(node) == node[Len(node)].op = "declare" /\ node[Len(node)].link # 0

(* The events of the functions among the nodes, or of all the others. *)
Flatten(nodes, functions) ==
  LET flat[n \in 0 .. Len(nodes)] ==
        IF n = 0 THEN <<>>
        ELSE IF IsFunction(nodes[n]) = functions THEN flat[n - 1] \o nodes[n] ELSE flat[n - 1]
  IN  flat[Len(nodes)]

(* Where a node starts in the text. *)
StartLoc(node) ==
  node[CHOOSE i \in DOMAIN node : \A j \in DOMAIN node : ~ Before(node[j].loc, node[i].loc)].loc

(* The function jitfunc of the given events. *)
JitFunction(body, loc) ==
  LET at(op, path, link) == <<[op |-> op, path |-> path, mut |-> FALSE, link |-> link, loc |-> loc]>>
  IN  at("fn", <<>>, 1) \o at("block", <<>>, Len(body) + 1) \o body
      \o at("end", <<>>, 0) \o at("endfn", <<>>, 0)
      \o at("declare", <<"jitfunc">>, - (Len(body) + 4))

(* Functions stay on the stack; all other statements move, in order, into
   jitfunc, which comes last. *)
Transformed(nodes) ==
  LET exprs == {i \in DOMAIN nodes : ~ IsFunction(nodes[i])}
      first == CHOOSE i \in exprs : \A j \in exprs : i <= j
  IN  IF exprs = {} THEN Flatten(nodes, TRUE)
      ELSE Flatten(nodes, TRUE) \o JitFunction(Flatten(nodes, FALSE), StartLoc(nodes[first]))

-----------------------------------------------------------------------------
(* The loop.                                                               *)

UnchangedPasses == UNCHANGED <<vars, genvars>>

Quit(line) ==
  /\ line.command = "quit"
  /\ stage' = "quit"
  /\ UnchangedPasses /\ UNCHANGED <<compiling, permissions, stack, misparsed, result>>

(* :s compile *)
Flag(line) ==
  /\ line.command = "flag" /\ line.parse # "no argument"
  /\ compiling' = ~ compiling
  /\ UnchangedPasses /\ UNCHANGED <<stage, permissions, stack, misparsed, result>>

(* The substring of a command that is too short is nowhere caught. *)
Abort(line) ==
  /\ line.command \in {"load", "compile", "flag"} /\ line.parse = "no argument"
  /\ stage' = "aborted"
  /\ UnchangedPasses /\ UNCHANGED <<compiling, permissions, stack, misparsed, result>>

(* parseInput adds to the stack, whatever the line before has left there.
   An exception ends the line at once: no reset. *)
ReadLine(line) ==
  /\ line.command \in {"text", "load", "compile"} /\ line.parse # "no argument"
  /\ inputs < MaxInputs
  /\ inputs' = inputs + 1 /\ result' = 0
  /\ permissions' =
       CASE line.command = "text"    -> [do_compile |-> compiling, interpret |-> TRUE]
         [] line.command = "load"    -> [permissions EXCEPT !.do_compile = FALSE]
         [] line.command = "compile" -> [do_compile |-> TRUE, interpret |-> FALSE]
  /\ stack' = stack \o line.nodes
  /\ misparsed' = (misparsed \/ line.parse # "parsed")
  /\ stage' = IF line.parse = "throws" THEN "prompt" ELSE "parsed"
  /\ UNCHANGED <<ast, pass, pc, arena, current, context, frames, locals, def_table, diagnosed>>
  /\ UNCHANGED genvars /\ UNCHANGED compiling

(* Without the permission to compile the tree is shown and the line is over. *)
ShowOnly ==
  /\ stage = "parsed" /\ ~ permissions.do_compile
  /\ stage' = "prompt"
  /\ UnchangedPasses /\ UNCHANGED <<compiling, permissions, stack, misparsed, result>>

(* Seeded: a line that has failed waits. *)
RefuseWaits ==
  /\ stage = "parsed" /\ permissions.do_compile /\ misparsed
  /\ UNCHANGED everything

(* An input that has failed goes through no further phase. *)
Refuse ==
  /\ stage = "parsed" /\ permissions.do_compile /\ misparsed
  /\ stage' = "reset"
  /\ UnchangedPasses /\ UNCHANGED <<compiling, permissions, stack, misparsed, result>>

Transform ==
  /\ stage = "parsed" /\ permissions.do_compile /\ ~ misparsed
  /\ stage' = "passes"
  /\ ast' = Transformed(stack)
  /\ pass' = "decl" /\ pc' = 1
  /\ current' = GlobalSymIndex /\ context' = "GLOBAL" /\ frames' = <<>>
  /\ locals' = [i \in DOMAIN ast' |-> None]
  /\ def_table' = [i \in DOMAIN ast' |-> None]
  /\ generated' = FALSE
  /\ UNCHANGED <<inputs, arena, diagnosed, codegen, operands, saved, insert, module, storage>>
  /\ UNCHANGED <<compiling, permissions, stack, misparsed, result>>

(* VarDeclPass, VarRefPass and the code generator. *)
Passes ==
  /\ stage = "passes"
  /\ \/ (DeclPass \/ RefPass) /\ UNCHANGED genvars
     \/ GenPass
  /\ UNCHANGED replvars

(* interpretLlvm runs the jitfunc that the module has, if it has one, and
   takes it out of the module.  LLVM does not survive that, as it does not in
   GenErased, when another function calls it. *)
HasJitFunction == ~ Failed /\ module["jitfunc"].state = "complete"

InterpretNothing ==
  /\ stage = "passes" /\ pass = "done" /\ Translated /\ ~ HasJitFunction
  /\ stage' = "reset"
  /\ UnchangedPasses /\ UNCHANGED <<compiling, permissions, stack, misparsed, result>>

(* Seeded: jitfunc is taken out whoever calls it. *)
InterpretAnyway ==
  /\ stage = "passes" /\ pass = "done" /\ Translated /\ HasJitFunction
  /\ result' = module["jitfunc"].input
  /\ stage' = "reset" /\ module' = [module EXCEPT !["jitfunc"] = Absent]
  /\ UNCHANGED vars /\ UNCHANGED <<generated, codegen, operands, saved, insert, storage>>
  /\ UNCHANGED <<compiling, permissions, stack, misparsed>>

Interpret ==
  /\ stage = "passes" /\ pass = "done" /\ Translated /\ HasJitFunction
  /\ result' = module["jitfunc"].input
  /\ IF Callers("jitfunc") # {}
     THEN Crash /\ UNCHANGED stage
     ELSE /\ stage' = "reset" /\ module' = [module EXCEPT !["jitfunc"] = Absent]
          /\ UNCHANGED vars /\ UNCHANGED <<generated, codegen, operands, saved, insert, storage>>
  /\ UNCHANGED <<compiling, permissions, stack, misparsed>>

(* Seeded: reset keeps the count of errors. *)
ResetKeepsErrors ==
  /\ stage = "reset"
  /\ stage' = "prompt"
  /\ stack' = <<>>
  /\ ast' = <<>> /\ pc' = 1 /\ locals' = <<>> /\ def_table' = <<>>
  /\ UNCHANGED <<inputs, pass, arena, current, context, frames, diagnosed, misparsed>>
  /\ UNCHANGED genvars /\ UNCHANGED <<compiling, permissions, result>>

(* reset: the errors and the tree; nothing of the arena or the module. *)
Reset ==
  /\ stage = "reset"
  /\ stage' = "prompt"
  /\ diagnosed' = {} /\ misparsed' = FALSE /\ stack' = <<>>
  /\ ast' = <<>> /\ pc' = 1 /\ locals' = <<>> /\ def_table' = <<>>
  /\ UNCHANGED <<inputs, pass, arena, current, context, frames>>
  /\ UNCHANGED genvars /\ UNCHANGED <<compiling, permissions, result>>

Prompt ==
  /\ stage = "prompt"
  /\ \E line \in Lines : Quit(line) \/ Flag(line) \/ Abort(line) \/ ReadLine(line)

(* The loop is left, a pass crashed, or the lines of the bound are over. *)
ReplEnded ==
  /\ stage \in {"quit", "aborted"} \/ pass = "crashed" \/ (stage = "prompt" /\ inputs >= MaxInputs)
  /\ UNCHANGED everything

InLine == ShowOnly \/ Refuse \/ Transform \/ Passes \/ InterpretNothing \/ Interpret \/ Reset

ReplNext == Prompt \/ InLine \/ ReplEnded

(* The process works a line off by itself; only lines are waited for. *)
ReplSpec == ReplInit /\ [][ReplNext]_everything /\ WF_everything(InLine)
-----------------------------------------------------------------------------
(* Type correctness.                                                       *)
ReplTypeOK ==
  /\ inputs \in 0 .. MaxInputs
  /\ stage \in {"prompt", "parsed", "passes", "reset", "quit", "aborted"}
  /\ {compiling, misparsed} \subseteq BOOLEAN
  /\ permissions \in [do_compile : BOOLEAN, interpret : BOOLEAN]
  /\ ast \in Seq(Event) /\ WellLinked(ast)
  /\ stack \in Seq(Seq(Event))
  /\ result \in 0 .. inputs
  /\ GenTypeOK

(* A line that was to be compiled is over without a trace in what decides  *)
(* about the next line, whichever phase failed (ReplDriver.cpp:130): no    *)
(* error is counted against the next line, no node is analysed twice.      *)
(* Only lines that were shown, or threw, are carried over.                 *)
Carried == stack # <<>> \/ ReplFailed
NothingCarried == stage # "prompt" /\ stage' = "prompt" /\ permissions.do_compile => ~ Carried'
LineLeavesNothing == [][NothingCarried]_everything

(* What earlier lines defined is there for all later ones, unchanged,      *)
(* whatever fails after it: only jitfunc comes and goes.                   *)
OthersKept ==
  \A n \in Name \ {"jitfunc"} : module[n].state = "complete" => module'[n] = module[n]
DefinitionsSurvive == [][OthersKept]_module

(* The prompt comes back, however the line ends, unless a pass crashes.    *)
LinesAreOver == stage \in {"parsed", "passes", "reset"} ~> stage = "prompt" \/ pass = "crashed"

-----------------------------------------------------------------------------
(* What documents say of the program, and the code does not do.            *)

(* ReplDriver.cpp:118 deletes jitfunc "so we always use the most recent    *)
(* one": what a line runs is its own code.                                 *)
RunsOwnCode == result \in {0, inputs}

(* ReplDriver.cpp:83 has lines that "just define values for future usage": *)
(* the interpreter goes on after them.                                     *)
DefinitionsAreLines == pass # "crashed"
=============================================================================
