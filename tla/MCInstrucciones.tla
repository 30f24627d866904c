--------------------------- MODULE MCInstrucciones ---------------------------
(***************************************************************************)
(* Instrucciones for TLC: registers that wrap at 1024, and values at every *)
(* boundary of a byte and of a register.                                   *)
(***************************************************************************)
EXTENDS Instrucciones

AxBx == {"AX", "BX"}

Bordes == {0, 1, 2, 127, 128, 255, 256, Modulo - 129, Modulo - 128, Modulo - 1}

Lineas == {"SET", "READ_MEM", "SUM", "SUB", "JNZ", "LOG", "IO", "NADA"}

Todas == [op : Lineas, r1 : Nombres, r2 : Nombres \cup {"ZX"}, n : {-1, 0, 1, 3, 300}]

=============================================================================
