------------------------------- MODULE Parser -------------------------------
(***************************************************************************)
(* AnalysisDriver::parseInput: the grammar is matched against the input    *)
(* from left to right, alternatives in order, and whenever a rule with an  *)
(* action has matched the action runs on the stack.  A failed alternative  *)
(* gives back what it read, and not what its actions did to the stack: the *)
(* actions of actions.h count on finding there what they need, whatever    *)
(* was tried and given up in between.                                      *)
(*                                                                         *)
(* The matching of PEGTL is a machine here: todo is what is still to be    *)
(* matched or done, the next first.                                        *)
(***************************************************************************)
EXTENDS ParseActions, Integers

CONSTANTS
  Programs,       \* the inputs, as sequences of lexemes
  MaxParts        \* bound: parts of a path before the run is cut off

ASSUME ProgramsAssumption == Programs \subseteq Seq(Lexemes)
ASSUME MaxPartsAssumption == MaxParts \in Nat

VARIABLES
  text,      \* the input
  pos,       \* the place of the next lexeme
  act,       \* whether actions run: apply_mode
  todo,      \* what is still to be matched, and what to do on the way
  stack,     \* ast, the stack of nodes
  failed,    \* an error was logged: state.failed()
  status     \* "reading", "done", "rejected", "crashed", "threw"

vars == <<text, pos, act, todo, stack, failed, status>>

Match(e) == [k |-> "match", e |-> e]
Apply(r) == [k |-> "apply", r |-> r, from |-> pos, base |-> Len(stack)]
SetAct(on) == [k |-> "act", on |-> on]
(* Where to go on when what comes before it has matched, and where when    *)
(* it has not: with the input and the mode that were here.                 *)
Choice(k, matched, unmatched) ==
  [k |-> k, pos |-> pos, act |-> act, matched |-> matched, unmatched |-> unmatched]
Retreats == {"choice", "not_at"}

Init ==
  /\ text \in Programs
  /\ pos = 1 /\ act = TRUE
  /\ todo = <<Match(R("program"))>>
  /\ stack = <<>> /\ failed = FALSE /\ status = "reading"

-----------------------------------------------------------------------------

Next1 == Head(todo)
Later == Tail(todo)
AtMatch(ops) ==
  /\ status = "reading" /\ todo # <<>>
  /\ Next1.k = "match" /\ Next1.e.op \in ops
AtItem(ks) == status = "reading" /\ todo # <<>> /\ Next1.k \in ks

GoOn(items) ==
  /\ todo' = items \o Later
  /\ UNCHANGED <<text, stack, failed, status>>

Matches(es) == [i \in DOMAIN es |-> Match(es[i])]

(* A rule is what it is made of, and then its action, if it has one and    *)
(* actions are enabled.                                                    *)
MatchRule ==
  /\ AtMatch({"rule"})
  /\ LET r == Next1.e.rule
         action == IF act /\ r \in Acting THEN <<Apply(r)>> ELSE <<>>
     IN  GoOn(<<Match(Rules[r])>> \o action)
  /\ UNCHANGED <<pos, act>>

MatchSeq ==
  /\ AtMatch({"seq"})
  /\ GoOn(Matches(Next1.e.es))
  /\ UNCHANGED <<pos, act>>

(* sor: the rest of the alternatives, if there are any, when the first     *)
(* does not match.                                                         *)
MatchSor ==
  /\ AtMatch({"sor"})
  /\ LET es == Next1.e.es
     IN  GoOn(IF Len(es) = 1 THEN <<Match(es[1])>>
              ELSE <<Match(es[1]), Choice("choice", <<>>, <<Match(Sor(Tail(es)))>>)>>)
  /\ UNCHANGED <<pos, act>>

MatchOpt ==
  /\ AtMatch({"opt"})
  /\ GoOn(Matches(Next1.e.es) \o <<Choice("choice", <<>>, <<>>)>>)
  /\ UNCHANGED <<pos, act>>

MatchStar ==
  /\ AtMatch({"star"})
  /\ GoOn(Matches(Next1.e.es) \o <<Choice("choice", <<Next1>>, <<>>)>>)
  /\ UNCHANGED <<pos, act>>

MatchIf ==
  /\ AtMatch({"if_then_else"})
  /\ LET es == Next1.e.es
     IN  GoOn(<<Match(es[1]), Choice("choice", <<Match(es[2])>>, <<Match(es[3])>>)>>)
  /\ UNCHANGED <<pos, act>>

MatchUntil ==
  /\ AtMatch({"until"})
  /\ LET es == Next1.e.es
     IN  GoOn(<<Match(es[1]), Choice("choice", <<>>, <<Match(es[2]), Next1>>)>>)
  /\ UNCHANGED <<pos, act>>

(* at and not_at look without reading and without running actions.         *)
MatchLook ==
  /\ AtMatch({"at", "not_at"})
  /\ GoOn(<<Match(Next1.e.es[1]), Choice(Next1.e.op, <<>>, <<>>)>>)
  /\ act' = FALSE
  /\ UNCHANGED pos

MatchMode ==
  /\ AtMatch({"disable", "enable"})
  /\ GoOn(<<Match(Next1.e.es[1]), SetAct(act)>>)
  /\ act' = (Next1.e.op = "enable")
  /\ UNCHANGED pos

Reads(e) ==
  \/ e.op = "eof" /\ pos > Len(text)
  \/ e.op = "one" /\ pos <= Len(text) /\ text[pos] \in e.chars

(* ig_s: everything up to the next lexeme that is not blank.               *)
AfterBlanks ==
  CHOOSE p \in pos..(Len(text) + 1) :
    /\ \A q \in pos..(p - 1) : text[q] \in {Blank, EndLine}
    /\ p <= Len(text) => text[p] \notin {Blank, EndLine}

Read ==
  /\ AtMatch({"one", "eof", "blanks"})
  /\ \/ Next1.e.op = "blanks" /\ pos' = AfterBlanks
     \/ Reads(Next1.e) /\ pos' = IF Next1.e.op = "one" THEN pos + 1 ELSE pos
  /\ GoOn(<<>>)
  /\ UNCHANGED act

(* Nothing here matches: back to the last choice, or out of the program,   *)
(* and parseInput logs that.                                               *)
Backtrack ==
  /\ \/ AtMatch({"failure"})
     \/ AtMatch({"one", "eof"}) /\ ~Reads(Next1.e)
     \/ AtItem({"not_at"})
  /\ LET from == IF Next1.k = "not_at" THEN 1 ELSE 0
         back == SelectInSubSeq(todo, from + 1, Len(todo), LAMBDA item : item.k \in Retreats)
     IN  IF back = 0
         THEN /\ status' = "rejected" /\ failed' = TRUE /\ todo' = <<>>
              /\ UNCHANGED <<text, pos, act, stack>>
         ELSE /\ todo' = todo[back].unmatched \o SubSeq(todo, back + 1, Len(todo))
              /\ pos' = todo[back].pos /\ act' = todo[back].act
              /\ UNCHANGED <<text, stack, failed, status>>

(* What was tried has matched.                                             *)
Settle ==
  \/ /\ AtItem({"choice"})
     /\ GoOn(Next1.matched)
     /\ UNCHANGED <<pos, act>>
  \/ /\ AtItem({"at"})
     /\ GoOn(<<>>)
     /\ pos' = Next1.pos /\ act' = Next1.act
  \/ /\ AtItem({"act"})
     /\ GoOn(<<>>)
     /\ act' = Next1.on /\ UNCHANGED pos

(* The bound: a path that is read over and over grows with each round.     *)
WithinBound ==
  \A i \in DOMAIN stack :
    stack[i].kind = "Path" => Len(stack[i].parts[1]) <= MaxParts

(* The action of a rule that has matched.                                  *)
ActionDue == AtItem({"apply"}) /\ WithinBound /\ todo' = Later

ApplyAction ==
  /\ ActionDue
  /\ \E done \in {Effect(Next1.r, stack, SubSeq(text, Next1.from, pos - 1),
                          Next1.from .. (pos - 1))} :
       /\ stack' = done.s
       /\ failed' = (failed \/ done.log)
       /\ status' = CASE done.fault = "none" -> "reading"
                      [] done.fault = "null" -> "crashed"
                      [] done.fault = "variant" -> "threw"
  /\ UNCHANGED <<text, pos, act>>

Finish ==
  /\ status = "reading" /\ todo = <<>>
  /\ status' = "done"
  /\ UNCHANGED <<text, pos, act, todo, stack, failed>>

Matching ==
  \/ MatchRule \/ MatchSeq \/ MatchSor \/ MatchOpt \/ MatchStar \/ MatchIf
  \/ MatchUntil \/ MatchLook \/ MatchMode \/ Read \/ Backtrack \/ Settle

Next == Matching \/ ApplyAction \/ Finish

(* The parser is one call that never waits.  The only step with an action  *)
(* due is ApplyAction, and what todo becomes is all that fairness need say *)
(* of it.                                                                  *)
Fairness == WF_todo(Matching) /\ WF_todo(ActionDue) /\ WF_status(Finish)

Spec == Init /\ [][Next]_vars /\ Fairness
=============================================================================
