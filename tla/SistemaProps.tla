---------------------------- MODULE SistemaProps ----------------------------
(***************************************************************************)
(* What the three processes promise together.                              *)
(***************************************************************************)
EXTENDS Sistema

CONSTANT Bucles   \* the programs that never end

Operaciones == {"GET_EXECUTION_CONTEXT", "GET_INSTRUCTION", "UPDATE_CONTEXT"}

\* The types of the three processes' variables and of what is between them.
TypeOK ==
  /\ {cpu_estado, kernel, memoria} \subseteq {"viva", "caida"}
  /\ pc \in {"recv", "conectar", "check", "get_context", "recv_context",
             "recv_instruction", "decode_execute", "readline", "recv_update"}
  /\ {pid, despacho, cpu.PID} \subseteq {0, 1}
  /\ {registro, cpu.banco, leido} \subseteq t_register
  /\ flag_interrupt \in BOOLEAN /\ hallado \in BOOLEAN
  /\ motivos \in Seq({"THREAD_EXIT"})
  /\ pedido \in {"ninguno"} \cup Operaciones
  /\ vida \in Seq(P!Estados) /\ Len(vida) <= 1
  /\ alta \in {"no", "pedida", "hecha"} /\ baja \in {"no", "pedida", "hecha"}
  /\ DOMAIN ctx \subseteq {1} /\ \A p \in DOMAIN ctx : ctx[p] \in t_register

-----------------------------------------------------------------------------
(* Safety                                                                  *)

Existe == 1 \in DOMAIN ctx

\* From the first instruction on, and except while it waits for update_context
\* to be answered, the CPU works on the registers Memoria has: nothing is
\* executed on old ones, and nothing is lost when an interruption, or the end
\* of the pause after a syscall, takes it out of the loop.
ContextoCoherente ==
  /\ memoria = "viva" /\ Existe
  /\ instruccion.op # "ninguna"
  /\ pc # "recv_update"
  => registro = ctx[1]

\* What it takes to kill Memoria once the kernel has its process: that the CPU
\* dies, that it runs past the last line of the program, or that it goes on
\* with a thread it has itself reported as finished.
MemoriaMuereSi ==
  memoria = "caida" =>
     \/ cpu_estado = "caida"
     \/ vida = <<"FIN">>
     \/ pedido = "GET_INSTRUCTION" /\ cpu.banco["PC"] >= Len(programa)

\* The line the thread is at, if its program has it, and that line.
HayLinea == ctx[1]["PC"] < Len(programa)

Linea == programa[ctx[1]["PC"] + 1]

\* The programs keep within what the CPU reads back: no value that any of them
\* stores, computes or reads loses its high bytes to obtener_registro.
ValoresCaben == Existe /\ HayLinea => Exacta(Linea, ctx[1])

-----------------------------------------------------------------------------
(* The inductive invariant                                                 *)

\* The process the kernel gets to the CPU is the only one, and its context
\* lasts from the answer to its creation to the kill the kernel sends once the
\* process is over.
UnProceso ==
  /\ vida \in {<<>>} \cup {<<estado>> : estado \in P!Estados}
  /\ alta = "no" <=> vida = <<>>
  /\ alta # "hecha" => vida \in {<<>>, <<"NEW">>}
  /\ baja # "no" => vida = <<"FIN">>
  /\ Existe <=> alta = "hecha" /\ baja # "hecha"
  /\ ctx \in [DOMAIN ctx -> t_register]

\* It is dispatched once, and the CPU has done nothing before.
UnDespacho ==
  /\ vida \in {<<>>, <<"NEW">>, <<"READY">>} => despacho = 0 /\ pid = 0
  /\ pid = 0 => pc = "recv" /\ instruccion.op = "ninguna" /\ pedido = "ninguno"
  /\ pid # 0 => despacho = 0
  /\ pc = "conectar" => instruccion.op = "ninguna"

\* The CPU waits for the answer to what it asked; it does not if Memoria has
\* gone, and then goes on only after update_context.
EnCurso ==
  /\ pedido # "ninguno" => cpu.PID = pid
  /\ pedido = "GET_EXECUTION_CONTEXT" => pc = "recv_context"
  /\ pedido = "GET_INSTRUCTION" => pc = "recv_instruction"
  /\ pedido = "UPDATE_CONTEXT" => pc = "recv_update" \/ memoria = "caida"

\* Only instructions are executed, of the program but for those that the list of
\* a killed thread may give.
DelPrograma ==
  /\ programa \in Seq(Instruccion)
  /\ pc = "recv_instruction" /\ pedido = "ninguno" => linea \in Instruccion
  /\ pc \in {"decode_execute", "readline"} => instruccion \in Instruccion

\* Where the context in Memoria is in the CPU or on its way, at each point of
\* the cycle.
Espejo ==
  memoria = "viva" /\ Existe =>
    /\ pc = "recv_context" /\ pedido = "ninguno" => leido = ctx[1]
    /\ pc \in {"recv_instruction", "decode_execute", "readline"} => registro = ctx[1]
    /\ pc = "recv_update" => cpu.banco = registro
    /\ pc = "recv_update" /\ pedido = "ninguno" => registro = ctx[1]
    /\ /\ pc \in {"recv", "check", "get_context", "recv_context"}
       /\ instruccion.op # "ninguna"
       => registro = ctx[1]

\* What is asked for, fetched, executed and stored is the line the context in
\* Memoria is at, until its update is answered.
DeSuLinea ==
  memoria = "viva" /\ Existe =>
    /\ pedido = "GET_INSTRUCTION" => cpu.banco = ctx[1]
    /\ pc = "recv_instruction" /\ pedido = "ninguno" => HayLinea /\ linea = Linea
    /\ pc \in {"decode_execute", "readline"} => HayLinea /\ instruccion = Linea
    /\ pedido = "UPDATE_CONTEXT" =>
          HayLinea /\ cpu.banco = decode_execute(Linea, ctx[1])

\* What the proofs carry from step to step: the process and its context, the
\* single dispatch, the exchange in course, where the registers are, and which
\* line is executed.
IInv ==
  /\ TypeOK /\ UnProceso /\ UnDespacho /\ EnCurso
  /\ DelPrograma /\ Espejo /\ DeSuLinea /\ MemoriaMuereSi

-----------------------------------------------------------------------------
(* The abstract specification                                              *)

\* CPU and Memoria implement Maquina: the contexts that come and go amount to
\* the program run one instruction after another on one bank of registers.
Maq == INSTANCE Maquina
         WITH vivo <- Existe,
              banco <- IF Existe THEN ctx[1] ELSE initiate_registers

EjecutaComoMaquina == Maq!Spec

\* K has every bank of registers that p goes through on Maquina, and what each
\* of its lines finds there fits.
Cerrado(p, K) ==
  /\ initiate_registers \in K
  /\ \A regs \in K : regs["PC"] < Len(p) =>
        LET i == p[regs["PC"] + 1]
        IN  Exacta(i, regs) /\ Maq!Efecto(i, regs) \in K

\* A program that, run by itself on Maquina, keeps within what the CPU reads.
Contenido(p) == \E K \in SUBSET t_register : Cerrado(p, K)

\* Programs of which that can be told by looking at them: they give registers
\* the values of a char, copy and test them, and compute nothing.
Directo(p) ==
  \A k \in DOMAIN p :
     LET i == p[k]
     IN  /\ i.op \in dict_protocol \ {"SUM", "SUB"}
         /\ i.op \in Calculos \cup {"JNZ"} => i.r1 \in Generales
         /\ i.op = "SET" => i.n \in -128 .. 127
         /\ i.op = "READ_MEM" => i.r2 \in Generales

-----------------------------------------------------------------------------
(* Liveness                                                                *)

Fallo == "caida" \in {kernel, memoria, cpu_estado}

\* A program that ends is taken out of the CPU, by its own THREAD_EXIT, unless
\* an interruption stops it (the kernel then waits for ever) or a process dies.
Concluye ==
  vida = <<"EXEC">> /\ programa \notin Bucles
     ~> vida # <<"EXEC">> \/ ~flag_interrupt \/ Fallo

\* The kill that follows reaches Memoria, unless it dies first.
BajaLlega == vida = <<"FIN">> ~> ~Existe \/ memoria = "caida"

\* An interruption takes the CPU out of any program, however long, unless it
\* waits for the operator or a process dies.
InterrupcionSaca ==
  ~flag_interrupt /\ pid # 0 ~> pc \in {"recv", "readline"} \/ Fallo

-----------------------------------------------------------------------------
(* What the source says and the code does not do.                          *)

\* kernel/src/operaciones_cpu.c:107: THREAD_EXIT "finaliza al hilo que lo
\* invocó, pasando el mismo al estado EXIT".  The CPU fetches no instruction
\* for a thread the kernel has in EXIT.
ThreadExitFinaliza ==
  [][(vida \in {<<"EXIT">>, <<"FIN">>}) => instruccion' = instruccion]_vars

\* cpu/src/operaciones_memoria.c:155: "if (resultado != SUCCESS)", log_error
\* "Error al actualizar el contexto" and abort().  The CPU goes on to the next
\* instruction only if Memoria has answered that the context is stored.
SoloSigueSiGuardado ==
  [][pc = "recv_update" /\ pc' # pc => pedido # "UPDATE_CONTEXT"]_vars

=============================================================================
