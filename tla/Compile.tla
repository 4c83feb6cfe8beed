------------------------------- MODULE Compile -------------------------------
(***************************************************************************)
(* Runs of the compiler from the command line, one after the other in a    *)
(* directory: CompilationDriver::compile and the files it leaves there.    *)
(* Each run goes through the front end, writes out.ll, has clang make the  *)
(* executable of it and removes it again, if it can.  An error counts      *)
(* against all phases that follow, an exception ends the run, and the      *)
(* process may die between any two steps, or in one that does not end:     *)
(* what the next run finds is what was left.                               *)
(***************************************************************************)
EXTENDS Sequences, Naturals

CONSTANTS
  Sources,    \* the programs
  Paths,      \* where executables may be asked for; out.ll is not one of them
  Requests,   \* the command lines: CompilationState and its options
  NoFile,     \* what is at a path where no file is
  Truncated,  \* a file that was opened to be written
  MaxRuns     \* a bound

(* The files named, of which the first is compiled; -o, -C and --nodel;    *)
(* and whether cxxopts knows the options.                                  *)
OptionState == [files : Seq(Sources), out : Paths, stop : BOOLEAN,
                nodel : BOOLEAN, known : BOOLEAN]

ASSUME RequestsAssumption == Requests \subseteq OptionState
ASSUME FilesAssumption == {NoFile, Truncated} \cap Sources = {} /\ NoFile # Truncated
ASSUME BoundAssumption == MaxRuns \in Nat

VARIABLES
  runs,      \* the runs so far
  request,   \* what the run was asked for
  stage,     \* where it is, "idle" between two runs
  failed,    \* state.failed()
  ll,        \* what is in out.ll
  exe,       \* and in the executable at each path
  exit       \* "none", "running", and then "success", "failure" or "died"

vars == <<runs, request, stage, failed, ll, exe, exit>>

FrontEnd == {"parse", "analyze", "translate", "optimize"}
After == [parse |-> "analyze", analyze |-> "translate", translate |-> "optimize",
          optimize |-> "write"]

Init ==
  /\ runs = 0 /\ stage = "idle" /\ failed = FALSE /\ exit = "none"
  /\ request \in Requests
  /\ ll = NoFile /\ exe = [path \in Paths |-> NoFile]

-----------------------------------------------------------------------------
(* main and the command line.                                              *)

Start ==
  /\ stage = "idle" /\ runs < MaxRuns
  /\ runs' = runs + 1
  /\ request' \in Requests
  /\ stage' = "options" /\ failed' = FALSE /\ exit' = "running"
  /\ UNCHANGED <<ll, exe>>

(* Nobody catches the exception of cxxopts for an option it does not know. *)
Options ==
  /\ stage = "options"
  /\ IF request.known THEN stage' = "parse" /\ UNCHANGED exit
                      ELSE stage' = "idle" /\ exit' = "died"
  /\ UNCHANGED <<runs, request, failed, ll, exe>>

(* A crash, or a kill.                                                     *)
Die ==
  /\ stage # "idle"
  /\ stage' = "idle" /\ exit' = "died"
  /\ UNCHANGED <<runs, request, failed, ll, exe>>

-----------------------------------------------------------------------------
(* The front end.                                                          *)

(* A phase that runs may log errors.  Without a file, files()[0] is not    *)
(* there to be parsed.                                                     *)
Works == stage = "parse" \/ ~failed

Phase ==
  /\ stage \in FrontEnd /\ Works
  /\ stage = "parse" => request.files # <<>>
  /\ \E errors \in BOOLEAN :
       /\ errors => stage # "optimize"
       /\ failed' = (failed \/ errors)
  /\ stage' = After[stage]
  /\ UNCHANGED <<runs, request, ll, exe, exit>>

PhaseSkipped ==
  /\ stage \in FrontEnd /\ ~Works
  /\ stage' = After[stage]
  /\ UNCHANGED <<runs, request, failed, ll, exe, exit>>

(* No such file, or an exception of a pass or of LLVM.                     *)
Throw ==
  /\ stage \in FrontEnd /\ Works
  /\ failed' = TRUE
  /\ stage' = "idle" /\ exit' = "failure"
  /\ UNCHANGED <<runs, request, ll, exe>>

-----------------------------------------------------------------------------
(* writeLlvmToFile.                                                        *)

(* Seeded: written whether there were errors or not.                       *)
OpenAssemblyAlways ==
  /\ stage = "write"
  /\ ll' = Truncated
  /\ stage' = "print"
  /\ UNCHANGED <<runs, request, failed, exe, exit>>

OpenAssembly ==
  /\ stage = "write" /\ ~failed
  /\ ll' = Truncated
  /\ stage' = "print"
  /\ UNCHANGED <<runs, request, failed, exe, exit>>

WriteAssembly ==
  /\ stage = "print"
  /\ ll' = Head(request.files)
  /\ stage' = "clang"
  /\ UNCHANGED <<runs, request, failed, exe, exit>>

(* Seeded: a stream that swallows its errors.                              *)
StreamFailsQuietly ==
  /\ stage \in {"write", "print"} /\ ~failed
  /\ stage' = "clang"
  /\ UNCHANGED <<runs, request, failed, ll, exe, exit>>

(* The code does not look at ec, nor at errors of the stream; LLVM's       *)
(* stream ends the process when it is destroyed with an error unseen.      *)
StreamFails ==
  /\ stage \in {"write", "print"} /\ ~failed
  /\ stage' = "idle" /\ exit' = "died"
  /\ UNCHANGED <<runs, request, failed, ll, exe>>

WriteSkipped ==
  /\ stage = "write" /\ failed
  /\ stage' = "clang"
  /\ UNCHANGED <<runs, request, failed, ll, exe, exit>>

-----------------------------------------------------------------------------
(* triggerClangCompile.                                                    *)

(* Seeded: clang started in spite of errors.                               *)
ClangAnyway ==
  /\ stage = "clang" /\ ~request.stop
  /\ \/ ll \in Sources /\ exe' = [exe EXCEPT ![request.out] = ll] /\ UNCHANGED failed
     \/ UNCHANGED exe /\ failed' = TRUE
  /\ stage' = "remove"
  /\ UNCHANGED <<runs, request, ll, exit>>

Clang ==
  /\ stage = "clang" /\ ~failed /\ ~request.stop
  /\ \/ /\ ll \in Sources
        /\ exe' = [exe EXCEPT ![request.out] = ll]
        /\ UNCHANGED failed
     \/ /\ \/ UNCHANGED exe
           \/ exe' = [exe EXCEPT ![request.out] = NoFile]
        /\ failed' = TRUE
  /\ stage' = "remove"
  /\ UNCHANGED <<runs, request, ll, exit>>

(* Seeded: -C removes the assembly, as if an executable had been made.     *)
ClangSkippedRemoves ==
  /\ stage = "clang" /\ (failed \/ request.stop)
  /\ stage' = "return"
  /\ ll' = IF request.nodel THEN ll ELSE NoFile
  /\ UNCHANGED <<runs, request, failed, exe, exit>>

ClangSkipped ==
  /\ stage = "clang" /\ (failed \/ request.stop)
  /\ stage' = "return"
  /\ UNCHANGED <<runs, request, failed, ll, exe, exit>>

(* Whether std::remove has removed the file is not looked at.              *)
Remove ==
  /\ stage = "remove"
  /\ ll' \in IF request.nodel THEN {ll} ELSE {ll, NoFile}
  /\ stage' = "return"
  /\ UNCHANGED <<runs, request, failed, exe, exit>>

(* Seeded: the failure of clang is logged and not returned.                *)
ReturnSuccess ==
  /\ stage = "return"
  /\ stage' = "idle" /\ exit' = "success"
  /\ UNCHANGED <<runs, request, failed, ll, exe>>

Return ==
  /\ stage = "return"
  /\ stage' = "idle"
  /\ exit' = IF failed THEN "failure" ELSE "success"
  /\ UNCHANGED <<runs, request, failed, ll, exe>>

-----------------------------------------------------------------------------

Running ==
  \/ Options \/ Phase \/ PhaseSkipped \/ Throw
  \/ OpenAssembly \/ WriteAssembly \/ StreamFails \/ WriteSkipped
  \/ Clang \/ ClangSkipped \/ Remove \/ Return

Next == Start \/ Running \/ Die

(* Nothing is said of a run ending: parsing need not (module Parser), and  *)
(* clang is not ours.                                                      *)
Spec == Init /\ [][Next]_vars

-----------------------------------------------------------------------------

CompileTypeOK ==
  /\ runs \in 0..MaxRuns
  /\ request \in Requests
  /\ stage \in FrontEnd \union {"idle", "options", "write", "print", "clang", "remove", "return"}
  /\ failed \in BOOLEAN
  /\ ll \in Sources \union {NoFile, Truncated}
  /\ exe \in [Paths -> Sources \union {NoFile}]
  /\ exit \in {"none", "running", "success", "failure", "died"}
  /\ exit = "running" <=> stage # "idle"

Program == Head(request.files)

(* Types, and how far a run has come without an error: what it compiles    *)
(* from "clang" on is its own assembly, whatever an earlier run has left   *)
(* in out.ll, and what it removes or returns with, its own executable.     *)
CompileInv ==
  /\ CompileTypeOK
  /\ stage \in {"analyze", "translate", "optimize", "write", "print", "clang", "remove", "return"}
       => request.files # <<>>
  /\ stage = "print" => ~failed
  /\ stage = "remove" => ~request.stop /\ ll = Program
  /\ ~failed /\ stage = "clang" => ll = Program
  /\ ~failed /\ stage = "return" /\ request.stop => ll = Program
  /\ ~failed /\ stage \in {"remove", "return"} /\ ~request.stop => exe[request.out] = Program

(* The status that tools/test.rb goes by is the truth: after a success the *)
(* executable asked for is the program's, not one that an earlier run left *)
(* or made of an assembly that an earlier run left.                        *)
StatusTells ==
  exit = "success" /\ ~request.stop => exe[request.out] = Program

(* -C: the assembly of the program is there to be used.                    *)
StopLeavesAssembly ==
  exit = "success" /\ request.stop => ll = Program

(* A program with errors does not cost the assembly that an earlier run    *)
(* was asked to keep, and a run takes away no assembly but its own, which  *)
(* it was not asked to keep (CompilationDriver.cpp:21, :43): out.ll is one *)
(* file for all runs, and what is in it may be any one's.                  *)
AssemblySafe ==
  [][ll' # ll => \/ stage = "remove" /\ ll = Program /\ ~request.stop /\ ~request.nodel
                 \/ stage # "remove" /\ ~failed]_vars

(* A program with errors does not cost the executable made of it before    *)
(* it had them; and no run touches another's.                              *)
ExecutablesSafe ==
  [][\A path \in Paths : exe'[path] # exe[path] => path = request.out /\ ~failed]_vars

(* Build, where a run has made its executable as soon as clang has.        *)
Promised ==
  INSTANCE Build WITH
    made <- stage \in {"remove", "return"} /\ ~failed /\ ~request.stop

Implements == Promised!Spec
=============================================================================
