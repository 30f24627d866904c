------------------------------ MODULE MCSistema ------------------------------
(***************************************************************************)
(* Sistema for TLC: two general registers, and programs that end each way  *)
(* a program can.                                                          *)
(***************************************************************************)
EXTENDS SistemaProps

AxBx == {"AX", "BX"}

I(op, r1, r2, n) == [op |-> op, r1 |-> r1, r2 |-> r2, n |-> n]

SET(r, n)   == I("SET", r, r, n)
SUB(r, s)   == I("SUB", r, s, 0)
SUM(r, s)   == I("SUM", r, s, 0)
JNZ(r, n)   == I("JNZ", r, r, n)
Palabra(op) == I(op, "", "", 0)

\* kernel/test_psdc/test2.dat, and the lines of test.dat the CPU gets to.
test2 == <<SET("AX", 1), SET("BX", 1), Palabra("THREAD_EXIT"), Palabra("PROCESS_EXIT")>>
test  == <<SET("AX", 1), SET("BX", 2), SUM("AX", "BX"), I("LOG", "AX", "", 0)>>

\* A loop that ends (and then ends twice), one that does not, and a program
\* with no last syscall.
cuenta == <<SET("AX", 2), SET("BX", 1), SUB("AX", "BX"), JNZ("AX", 3),
            Palabra("THREAD_EXIT"), Palabra("THREAD_EXIT")>>
bucle  == <<SET("AX", 1), JNZ("AX", 1)>>
corto  == <<SET("AX", 1), Palabra("IO")>>

\* A jump to before the first line.
fuera  == <<SET("AX", 1), JNZ("AX", 0)>>

\* A LOG of 0, and then a line with a word missing.
rota   == <<I("LOG", "BX", "", 0), Palabra("incompleta")>>

TodosLosProgramas == {test2, test, cuenta, bucle, corto, fuera, rota}
ElBucle == {bucle}
SoloTest2 == {test2}

\* The banks of registers of a program in its first 20 lines on Maquina, which
\* are all it has: every program here keeps within what the CPU reads.
Bancos(p) ==
  LET banco[n \in 0..20] ==
        IF n = 0 THEN initiate_registers
        ELSE LET regs == banco[n - 1]
             IN  IF regs["PC"] < Len(p) THEN Maq!Efecto(p[regs["PC"] + 1], regs) ELSE regs
  IN  {banco[n] : n \in 0..20}

ASSUME TodosContenidos ==
  \A p \in TodosLosProgramas : Bancos(p) \subseteq t_register /\ Cerrado(p, Bancos(p))

\* All zeros, or a line no program has.
DosBasuras ==
  {initiate_registers, [initiate_registers EXCEPT !["PC"] = 200]}

\* A word that computes, one that kills the CPU and the one that does not.
TresLineas == {SET("AX", 7), Palabra("IO"), Palabra("THREAD_EXIT")}

=============================================================================
