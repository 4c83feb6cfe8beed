-------------------------------- MODULE Build --------------------------------
(***************************************************************************)
(* What whoever runs speroc is promised, and tools/test.rb counts on: the  *)
(* executable that was asked for is made before the run is called a        *)
(* success, a run that is called a failure has made none, and no other     *)
(* executable is touched.                                                  *)
(***************************************************************************)
EXTENDS Sequences

CONSTANTS
  Requests,   \* the command lines
  Paths,      \* where executables may be asked for
  NoFile      \* what is at a path where no file is

VARIABLES
  request,    \* the command line of the run
  made,       \* whether the run has made its executable
  exe,        \* the program of the executable at each path
  exit        \* "none", "running", and then "success", "failure" or "died"

vars == <<request, made, exe, exit>>

Init ==
  /\ request \in Requests
  /\ made = FALSE /\ exit = "none"
  /\ exe = [path \in Paths |-> NoFile]

Ask ==
  /\ exit # "running"
  /\ request' \in Requests
  /\ exit' = "running" /\ made' = FALSE
  /\ UNCHANGED exe

Make ==
  /\ exit = "running" /\ ~request.stop /\ ~made /\ request.files # <<>>
  /\ exe' = [exe EXCEPT ![request.out] = Head(request.files)]
  /\ made' = TRUE
  /\ UNCHANGED <<request, exit>>

(* An attempt that fails may leave nothing of what was there before.       *)
Lose ==
  /\ exit = "running" /\ ~request.stop /\ ~made
  /\ exe' = [exe EXCEPT ![request.out] = NoFile]
  /\ UNCHANGED <<request, made, exit>>

Answer ==
  /\ exit = "running"
  /\ \/ exit' = "success" /\ (made \/ request.stop)
     \/ exit' = "failure" /\ ~made
     \/ exit' = "died"
  /\ made' = FALSE
  /\ UNCHANGED <<request, exe>>

Next == Ask \/ Make \/ Lose \/ Answer

Spec == Init /\ [][Next]_vars
=============================================================================
