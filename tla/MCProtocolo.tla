----------------------------- MODULE MCProtocolo -----------------------------
(***************************************************************************)
(* Two calls on one connection, of each kind.  Every value is different    *)
(* from the others of its message and takes one, two, three or four bytes; *)
(* the names and instructions have one character or several.               *)
(***************************************************************************)
EXTENDS ProtocoloProps

Llamada(o, d) == [op |-> o, datos |-> d]

\* Eleven registers, of which base takes four bytes.
Registro(n) ==
  [r \in Range(t_register) |->
     IF r = "base" THEN <<2147483647 - n>>
     ELSE <<n + 300 * (CHOOSE i \in DOMAIN t_register : t_register[i] = r)>>]

Llamadas_ ==
  [kernel_memoria |->
     {Llamada("PROCESS_CREATION",
              [PID |-> <<1>>, size |-> <<70000>>, priority |-> <<0>>,
               filename |-> <<116, 50>>]),
      Llamada("THREAD_CREATION",
              [PID |-> <<300>>, priority |-> <<2>>, filename |-> <<104>>]),
      Llamada("THREAD_KILL", [PID |-> <<3>>, TID |-> <<256>>])},
   cpu_memoria |->
     {Llamada("GET_EXECUTION_CONTEXT", [PID |-> <<1>>, TID |-> <<0>>]),
      Llamada("GET_INSTRUCTION", [PID |-> <<1>>, TID |-> <<2>>, PC |-> <<260>>]),
      Llamada("UPDATE_CONTEXT",
              [PID |-> <<1>>, TID |-> <<2>>] @@ Registro(5))},
   kernel_cpu |->
     {Llamada("DISPATCH", [PID |-> <<1>>, TID |-> <<t>>]) : t \in {0, 257}}]

Respuestas_ ==
  [PROCESS_CREATION      |-> {0},
   THREAD_CREATION       |-> {0},
   THREAD_KILL           |-> {0},
   UPDATE_CONTEXT        |-> {0},
   GET_EXECUTION_CONTEXT |-> {Registro(0), Registro(7)},
   GET_INSTRUCTION       |-> {[instruccion |-> <<76>>],
                              [instruccion |-> <<83, 69, 84>>]},
   DISPATCH              |-> {[motivo |-> <<69, 88>>]}]

=============================================================================
