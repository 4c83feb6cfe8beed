------------------------------ MODULE MCCompile ------------------------------
(***************************************************************************)
(* Three runs in one directory, of two programs and for two executables,   *)
(* with each of the options, with no file and with two.                    *)
(***************************************************************************)
EXTENDS Compile

CONSTANTS A, B

MCSources == {A, B}
MCPaths == {"out.exe", "other.exe"}

Plain == [files |-> <<A>>, out |-> "out.exe", stop |-> FALSE, nodel |-> FALSE, known |-> TRUE]

MCRequests ==
  {Plain,
   [Plain EXCEPT !.files = <<B>>],
   [Plain EXCEPT !.files = <<B, A>>, !.nodel = TRUE],
   [Plain EXCEPT !.nodel = TRUE],
   [Plain EXCEPT !.stop = TRUE],
   [Plain EXCEPT !.stop = TRUE, !.files = <<B>>, !.nodel = TRUE],
   [Plain EXCEPT !.out = "other.exe", !.files = <<B>>],
   [Plain EXCEPT !.files = <<>>],
   [Plain EXCEPT !.known = FALSE]}
=============================================================================
