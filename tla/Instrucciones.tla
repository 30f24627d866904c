---------------------------- MODULE Instrucciones ----------------------------
(***************************************************************************)
(* One instruction at a time on any bank of registers, to compare what     *)
(* decode_execute does with what the instruction means in Maquina.         *)
(***************************************************************************)
EXTENDS Registros

CONSTANTS
  Valores,         \* the register values a thread may have been left with
  Repertorio       \* the instructions of the programs

ASSUME InstruccionesAssumption ==
  /\ Valores \subseteq 0 .. Modulo - 1
  /\ Repertorio \subseteq Instruccion

VARIABLES registro, ejecutada

vars == <<registro, ejecutada>>

Ref == INSTANCE Maquina
         WITH programa <- <<>>, vivo <- TRUE, banco <- registro

Ninguna == [op |-> "ninguna"]

Init == registro \in [Nombres -> Valores] /\ ejecutada = Ninguna

Ejecutar ==
  /\ ejecutada = Ninguna
  /\ \E i \in Repertorio :
        /\ registro' = decode_execute(i, registro)
        /\ ejecutada' = i

Spec == Init /\ [][Ejecutar]_vars

-----------------------------------------------------------------------------
(* Properties                                                              *)

\* What obtener_registro gives is what the register holds when it fits in a
\* char, and only then: the rest of the 32 bits a SET may store is lost.
LecturaExacta ==
  \A r \in Nombres :
     obtener_registro(r, registro) = registro[r] <=> Cabe(registro[r])

\* What the instruction means, wraparound and jumps included, is what the CPU
\* does, as long as what it reads fits in a char (Exacta).
EjecucionFiel ==
  [][Exacta(ejecutada', registro)
     => registro' = Ref!Efecto(ejecutada', registro)]_vars

=============================================================================
