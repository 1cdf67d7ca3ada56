----------------------------- MODULE MCTemplate -----------------------------
(***************************************************************************)
(* Instances of TemplateFile for TLC.                                      *)
(***************************************************************************)
EXTENDS TemplateFile, TLC

CONSTANTS p1, p2, p3

MCProcesses == {p1, p2, p3}
ProcessSymmetry == Permutations(MCProcesses)
MCExisting == {{}, {0}, {0, 1}, {0, 2}, {1}}

=============================================================================
