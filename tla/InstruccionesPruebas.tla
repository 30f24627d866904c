------------------------ MODULE InstruccionesPruebas ------------------------
(***************************************************************************)
(* Theorems about the instructions of the CPU, for registers of any width  *)
(* of at least two bytes and any general registers.                        *)
(***************************************************************************)
EXTENDS Instrucciones, RegistrosPruebas

TypeInv ==
  /\ registro \in t_register
  /\ ejecutada \in Repertorio \cup {Ninguna}

-----------------------------------------------------------------------------
(* The specification                                                       *)

\* The registers keep their types through every instruction.
LEMMA Invariancia == Spec => []TypeInv
<1> USE InstruccionesAssumption
<1>1. Init => TypeInv
  BY DEF Init, TypeInv, t_register
<1>2. TypeInv /\ [Ejecutar]_vars => TypeInv'
  <2> SUFFICES ASSUME TypeInv, [Ejecutar]_vars PROVE TypeInv'
    OBVIOUS
  <2>1. CASE Ejecutar
    BY <2>1, Ejecucion DEF Ejecutar, TypeInv, Instruccion
  <2>2. CASE UNCHANGED vars
    BY <2>2 DEF vars, TypeInv
  <2> QED
    BY <2>1, <2>2
<1> QED
  BY <1>1, <1>2, PTL DEF Spec

\* obtener_registro reads a register right exactly when its value fits in a
\* char (tools.c:70), whatever the registers hold.
THEOREM Lectura == Spec => []LecturaExacta
<1>1. TypeInv => LecturaExacta
  BY Estrechar DEF TypeInv, LecturaExacta, obtener_registro, t_register
<1> QED
  BY <1>1, Invariancia, PTL

\* Every instruction does what it means in Maquina, wraparound and jumps
\* included, when what it reads fits in a char and it writes no PC.
THEOREM Fiel == Spec => EjecucionFiel
<1>1. ASSUME TypeInv, [Ejecutar]_vars
      PROVE  [Exacta(ejecutada', registro)
              => registro' = Ref!Efecto(ejecutada', registro)]_vars
  <2>1. CASE Ejecutar
    <3>1. PICK i \in Repertorio : registro' = decode_execute(i, registro)
                                  /\ ejecutada' = i
      BY <2>1 DEF Ejecutar
    <3>2. i \in Instruccion /\ registro \in t_register
      BY <1>1, InstruccionesAssumption DEF Instruccion, TypeInv
    <3>3. Exacta(i, registro) => registro' = Ideal!Efecto(i, registro)
      BY <3>1, <3>2, UnaInstruccion
    <3> QED
      BY <3>1, <3>3 DEF Ref!Efecto, Ref!Resultado, Ref!En32, Ideal!Efecto,
         Ideal!Resultado, Ideal!En32
  <2>2. CASE UNCHANGED vars
    BY <2>2
  <2> QED
    BY <1>1, <2>1, <2>2
<1> QED
  BY <1>1, Invariancia, PTL DEF Spec, EjecucionFiel

=============================================================================
