---------------------------- MODULE Compile_proofs ----------------------------
(***************************************************************************)
(* Proofs about Compile, for all command lines and any number of runs.     *)
(***************************************************************************)
EXTENDS Compile, TLAPS

(* The invariant that carries the others: how far a run has come, and what *)
(* the last run has left.                                                  *)
IInv == CompileInv /\ StatusTells /\ StopLeavesAssembly

LEMMA InitIInv == Init => IInv
<1> SUFFICES ASSUME Init PROVE IInv
  OBVIOUS
<1>1. runs \in 0..MaxRuns
  BY BoundAssumption DEF Init
<1>2. exe \in [Paths -> Sources \union {NoFile}]
  BY DEF Init
<1> QED
  BY <1>1, <1>2 DEF Init, IInv, CompileInv, CompileTypeOK, StatusTells, StopLeavesAssembly,
     FrontEnd

LEMMA HeadIsSource ==
  ASSUME request \in Requests, request.files # <<>>
  PROVE  Program \in Sources
<1>1. request.files \in Seq(Sources)
  BY RequestsAssumption DEF OptionState
<1> QED
  BY <1>1 DEF Program

LEMMA StepIInv == IInv /\ [Next]_vars => IInv'
<1> SUFFICES ASSUME IInv, [Next]_vars PROVE IInv'
  OBVIOUS
<1> USE DEF IInv, CompileInv, CompileTypeOK, StatusTells, StopLeavesAssembly, FrontEnd, Program
<1>1. CASE Start
  <2>1. runs' \in 0..MaxRuns
    BY <1>1, BoundAssumption DEF Start
  <2> QED
    BY <1>1, <2>1 DEF Start
<1>2. CASE Options
  BY <1>2 DEF Options
<1>3. CASE Phase
  BY <1>3 DEF Phase, Works, After
<1>4. CASE PhaseSkipped
  BY <1>4 DEF PhaseSkipped, Works, After
<1>5. CASE Throw
  BY <1>5 DEF Throw, Works
<1>6. CASE OpenAssembly
  BY <1>6 DEF OpenAssembly
<1>7. CASE WriteAssembly
  BY <1>7, HeadIsSource DEF WriteAssembly
<1>8. CASE StreamFails
  BY <1>8 DEF StreamFails
<1>9. CASE WriteSkipped
  BY <1>9 DEF WriteSkipped
<1>10. CASE Clang
  BY <1>10, RequestsAssumption DEF Clang, OptionState
<1>11. CASE ClangSkipped
  BY <1>11 DEF ClangSkipped
<1>12. CASE Remove
  BY <1>12 DEF Remove
<1>13. CASE Return
  BY <1>13 DEF Return
<1>14. CASE Die
  BY <1>14 DEF Die
<1>15. CASE UNCHANGED vars
  BY <1>15 DEF vars
<1> QED
  BY <1>1, <1>2, <1>3, <1>4, <1>5, <1>6, <1>7, <1>8, <1>9, <1>10, <1>11, <1>12,
     <1>13, <1>14, <1>15 DEF Next, Running

(* A run compiles its own assembly and returns with its own executable,    *)
(* whatever earlier runs have left.                                        *)
THEOREM CompileInvariant == Spec => []CompileInv
<1>1. IInv => CompileInv
  BY DEF IInv
<1> QED
  BY InitIInv, StepIInv, <1>1, PTL DEF Spec

LEMMA IInvInvariant == Spec => []IInv
BY InitIInv, StepIInv, PTL DEF Spec

(* After a success the executable asked for is the program's.              *)
THEOREM StatusIsTrue == Spec => []StatusTells
<1>1. IInv => StatusTells
  BY DEF IInv
<1> QED
  BY IInvInvariant, <1>1, PTL

(* After a success with -C the assembly is the program's.                  *)
THEOREM AssemblyIsLeft == Spec => []StopLeavesAssembly
<1>1. IInv => StopLeavesAssembly
  BY DEF IInv
<1> QED
  BY IInvInvariant, <1>1, PTL

-----------------------------------------------------------------------------
(* Only clang touches an executable: the one asked for, and none when      *)
(* there were errors.                                                      *)
THEOREM ExecutablesAreSafe == Spec => ExecutablesSafe
<1> DEFINE Safe == \A path \in Paths : exe'[path] # exe[path] => path = request.out /\ ~failed
<1>1. IInv /\ [Next]_vars => [Safe]_vars
  <2> SUFFICES ASSUME IInv, Next PROVE Safe
    OBVIOUS
  <2>1. CASE Clang
    BY <2>1 DEF Clang, IInv, CompileInv, CompileTypeOK
  <2>2. CASE UNCHANGED exe
    BY <2>2
  <2>3. Next => Clang \/ UNCHANGED exe
    BY DEF Next, Running, Start, Options, Phase, PhaseSkipped, Throw, OpenAssembly, WriteAssembly,
       StreamFails, WriteSkipped, ClangSkipped, Remove, Return, Die
  <2> QED
    BY <2>1, <2>2, <2>3
<1> QED
  BY <1>1, IInvInvariant, PTL DEF Spec, ExecutablesSafe

(* Only a run without an error writes out.ll, and it is only its own       *)
(* assembly that a run removes.                                            *)
THEOREM AssemblyIsSafe == Spec => AssemblySafe
<1> DEFINE Safe == ll' # ll => \/ stage = "remove" /\ ll = Program /\ ~request.stop /\ ~request.nodel
                               \/ stage # "remove" /\ ~failed
<1>1. IInv /\ [Next]_vars => [Safe]_vars
  <2> SUFFICES ASSUME IInv, Next PROVE Safe
    OBVIOUS
  <2>1. CASE Remove
    <3>1. request.nodel \in BOOLEAN
      BY RequestsAssumption DEF IInv, CompileInv, CompileTypeOK, OptionState
    <3> QED
      BY <2>1, <3>1 DEF Remove, IInv, CompileInv
  <2>2. CASE OpenAssembly
    BY <2>2 DEF OpenAssembly
  <2>3. CASE WriteAssembly
    BY <2>3 DEF WriteAssembly, IInv, CompileInv
  <2>4. CASE UNCHANGED ll
    BY <2>4
  <2>5. Next => Remove \/ OpenAssembly \/ WriteAssembly \/ UNCHANGED ll
    BY DEF Next, Running, Start, Options, Phase, PhaseSkipped, Throw, StreamFails, WriteSkipped,
       Clang, ClangSkipped, Return, Die
  <2> QED
    BY <2>1, <2>2, <2>3, <2>4, <2>5
<1> QED
  BY <1>1, IInvInvariant, PTL DEF Spec, AssemblySafe

-----------------------------------------------------------------------------
(* The runs of the compiler implement what Build promises.                 *)

LEMMA InitMaps == Init => Promised!Init
BY DEF Init, Promised!Init

(* Every step of a run is the step of Build that it is meant to be, or one *)
(* that Build does not see.                                                *)
LEMMA StepMaps == IInv /\ [Next]_vars => [Promised!Next]_(Promised!vars)
<1> SUFFICES ASSUME IInv, [Next]_vars PROVE Promised!Next \/ UNCHANGED Promised!vars
  OBVIOUS
<1> USE DEF IInv, CompileInv, CompileTypeOK, FrontEnd, Program
<1>1. CASE Start
  BY <1>1 DEF Start, Promised!Next, Promised!Ask
<1>2. CASE Clang
  <2>1. request.files \in Seq(Sources) /\ request.out \in Paths /\ exit = "running" /\ ~request.stop
    BY <1>2, RequestsAssumption DEF Clang, OptionState
  <2>2. CASE ~failed'
    BY <1>2, <2>1, <2>2 DEF Clang, Promised!Next, Promised!Make
  <2>3. CASE failed'
    BY <1>2, <2>1, <2>3 DEF Clang, Promised!Next, Promised!Lose, Promised!vars
  <2> QED
    BY <2>2, <2>3
<1>3. CASE Throw \/ StreamFails \/ Return \/ Die
  BY <1>3 DEF Throw, StreamFails, Return, Die, Works, Promised!Next, Promised!Answer
<1>4. CASE Options
  BY <1>4 DEF Options, Promised!Next, Promised!Answer, Promised!vars
<1>5. CASE Phase \/ PhaseSkipped \/ OpenAssembly \/ WriteAssembly \/ WriteSkipped \/ ClangSkipped
           \/ Remove \/ UNCHANGED vars
  BY <1>5 DEF Phase, PhaseSkipped, Works, After, OpenAssembly, WriteAssembly, WriteSkipped,
     ClangSkipped, Remove, vars, Promised!vars
<1> QED
  BY <1>1, <1>2, <1>3, <1>4, <1>5 DEF Next, Running

(* Whoever runs speroc sees no more than Build allows.                     *)
THEOREM CompileImplementsBuild == Spec => Implements
BY IInvInvariant, InitMaps, StepMaps, PTL DEF Spec, Implements, Promised!Spec
=============================================================================
