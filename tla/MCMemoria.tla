------------------------------ MODULE MCMemoria ------------------------------
(***************************************************************************)
(* Small instances of Memoria for TLC.                                     *)
(***************************************************************************)
EXTENDS MemoriaProps, TLC

CONSTANTS c1, c2, c3, c4

DosPIDs == {1, 2}
TresConexiones   == {c1, c2, c3}
CuatroConexiones == {c1, c2, c3, c4}
Simetria == Permutations(CuatroConexiones)

\* One program of one line, and a file that does not exist.
UnLargo  == [corto |-> 1]
UnoFalta == {"corto", "falta"}

Todo    == Operaciones
Cambios == {"PROCESS_CREATION", "THREAD_CREATION", "THREAD_KILL"}

=============================================================================
