--------------------------------- MODULE Cpu ---------------------------------
(***************************************************************************)
(* The cpu process: main(), the detached threads of the dispatch and       *)
(* interrupt servers, and the instruction cycle the first one runs for the *)
(* thread the kernel dispatches.  Each of its three calls to Memoria is    *)
(* two steps, the request and the answer: the packet and the port are      *)
(* pedido, cpu, leido and linea.  The bytes the packets leave over are     *)
(* taken for operations neither side knows, which both ignore.             *)
(***************************************************************************)
EXTENDS Registros, Sequences

CONSTANT Basura    \* the registers that uninitialised or freed memory may hold

VARIABLES
  cpu_estado,      \* the process: "viva" or "caida"
  pc,              \* where the dispatch thread is
  pid, registro, instruccion,   \* its locals
  flag_interrupt,
  kernel, memoria, \* the peers: "viva" or "caida"
  despacho,        \* the PID of a DISPATCH packet not yet read, or 0
  motivos,         \* the syscalls sent to the kernel and not yet read
  pedido,          \* the operation Memoria has not answered, or "ninguno"
  cpu,             \* what went with the last one: the PID and the registers
  leido, linea     \* the context and the instruction in Memoria's answers

locales == <<pid, registro, instruccion>>
puertos == <<despacho, motivos, pedido, cpu>>
cpuVars == <<cpu_estado, pc, locales, flag_interrupt, puertos>>

CpuInit ==
  /\ cpu_estado = "viva" /\ pc = "recv"
  /\ pid = 0 /\ registro = initiate_registers
  /\ instruccion = [op |-> "ninguna"]
  /\ flag_interrupt = TRUE
  /\ despacho = 0 /\ motivos = <<>> /\ pedido = "ninguno"
  /\ cpu = [PID |-> 0, banco |-> initiate_registers]

Paso(desde, hasta) ==
  /\ cpu_estado = "viva"
  /\ pc = desde /\ pc' = hasta
  /\ UNCHANGED <<cpu_estado, flag_interrupt>>

Enviar(op, banco) ==
  /\ pedido' = op
  /\ cpu' = [PID |-> pid, banco |-> banco]

Respondido == pedido = "ninguno"

\* abort(), a signal, or main returning.
Caer ==
  /\ cpu_estado = "viva" /\ cpu_estado' = "caida"
  /\ UNCHANGED <<pc, locales, flag_interrupt, puertos>>

-----------------------------------------------------------------------------
(* dispatch()                                                              *)

RecvDispatch ==
  /\ Paso("recv", "conectar")
  /\ despacho # 0
  /\ pid' = despacho /\ despacho' = 0
  /\ UNCHANGED <<registro, instruccion, motivos, pedido, cpu>>

\* The registers dispatch() declares start with what the stack held.
ConectarMemoria ==
  /\ Paso("conectar", "check")
  /\ memoria = "viva"
  /\ registro' \in Basura
  /\ UNCHANGED <<pid, instruccion, puertos>>

\* Back in atenter_dispatch the recv may return a byte left over, or find the
\* kernel gone and keep the op_code it has: dispatch() again, which gets as far
\* as its connection to Memoria before it finds the flag down.
DispatchRepetido == pc = "recv" /\ pid # 0 /\ memoria = "caida" /\ Caer

\* Mutant: the interruption is taken between execution and update_context.
CheckTarde ==
  \/ /\ Paso("check", "get_context")
     /\ UNCHANGED <<locales, puertos>>
  \/ /\ Paso("recv_instruction", "recv")
     /\ ~flag_interrupt /\ Respondido
     /\ registro' = decode_execute(linea, registro)
     /\ UNCHANGED <<pid, instruccion, puertos>>

\* Mutant: the loop does not look at the flag.
SinCheck ==
  /\ Paso("check", "get_context")
  /\ UNCHANGED <<locales, puertos>>

CheckInterrupt ==
  /\ Paso("check", IF flag_interrupt THEN "get_context" ELSE "recv")
  /\ UNCHANGED <<locales, puertos>>

-----------------------------------------------------------------------------
(* fetch()                                                                 *)

GetContext ==
  /\ Paso("get_context", "recv_context")
  /\ Enviar("GET_EXECUTION_CONTEXT", registro)
  /\ UNCHANGED <<locales, despacho, motivos>>

\* The context replaces the local registers; then recv_instruction's request.
RecvContext ==
  /\ Paso("recv_context", "recv_instruction")
  /\ Respondido
  /\ registro' = leido
  /\ Enviar("GET_INSTRUCTION", leido)
  /\ UNCHANGED <<pid, instruccion, despacho, motivos>>

RecvInstruction ==
  /\ Paso("recv_instruction", "decode_execute")
  /\ Respondido
  /\ instruccion' = linea
  /\ UNCHANGED <<pid, registro, puertos>>

\* With Memoria gone its connection is refused, or the second send to it is a
\* SIGPIPE.
SinMemoria ==
  /\ memoria = "caida"
  /\ \/ pc = "conectar"
     \/ pc \in {"recv_context", "recv_instruction"} /\ ~Respondido
  /\ Caer

-----------------------------------------------------------------------------
(* decode_execute() and update_context()                                   *)

\* send_syscall is given the number of its arguments as its second parameter
\* by THREAD_EXIT alone: the others give it a string, and it aborts.  LOG
\* passes log_info a number for a format.  A line that is too short has strcmp,
\* atoi or dictionary_get read NULL.
Fatales == (Syscalls \ {"THREAD_EXIT"}) \cup {"LOG", "incompleta"}

\* The number is 0, a NULL format, which libc may do nothing with.
SobreviveLog ==
  instruccion.op = "LOG" /\ obtener_registro(instruccion.r1, registro) = 0

\* Mutant: the context is sent as it was before the instruction.
ActualizarAntes(desde) ==
  /\ Paso(desde, "recv_update")
  /\ registro' = decode_execute(instruccion, registro)
  /\ Enviar("UPDATE_CONTEXT", registro)
  /\ UNCHANGED <<pid, instruccion, despacho, motivos>>

\* The registers are complete: they are sent to be stored.
Actualizar(desde) ==
  /\ Paso(desde, "recv_update")
  /\ registro' = decode_execute(instruccion, registro)
  /\ Enviar("UPDATE_CONTEXT", registro')
  /\ UNCHANGED <<pid, instruccion, despacho, motivos>>

DecodeExecute ==
  /\ Caso(instruccion.op) \notin Fatales \cup {"THREAD_EXIT"} \/ SobreviveLog
  /\ Actualizar("decode_execute")

SendSyscall ==
  /\ instruccion.op = "THREAD_EXIT"
  /\ Paso("decode_execute", "readline")
  /\ motivos' = Append(motivos, "THREAD_EXIT")
  /\ UNCHANGED <<locales, despacho, pedido, cpu>>

\* A send to a kernel that has gone may be a SIGPIPE.
AbortaInstruccion ==
  /\ pc = "decode_execute"
  /\ \/ instruccion.op \in Fatales
     \/ instruccion.op = "THREAD_EXIT" /\ kernel = "caida"
  /\ Caer

\* The operator ends the pause of send_syscall.
Readline == Actualizar("readline")

\* No answer leaves resultado at its initial 0, which is SUCCESS.
RecvUpdate ==
  /\ Paso("recv_update", "check")
  /\ Respondido \/ memoria = "caida"
  /\ UNCHANGED <<locales, puertos>>

-----------------------------------------------------------------------------
(* The other threads                                                       *)

\* atender_interrupt: the first connection to its port, whoever makes it, is
\* the interruption, and the thread ends.
AtenderInterrupt ==
  /\ cpu_estado = "viva" /\ flag_interrupt
  /\ flag_interrupt' = FALSE
  /\ UNCHANGED <<cpu_estado, pc, locales, puertos>>

FinMain == Caer

HiloDispatch ==
  \/ RecvDispatch \/ ConectarMemoria \/ CheckInterrupt
  \/ GetContext \/ RecvContext \/ RecvInstruction
  \/ DecodeExecute \/ SendSyscall \/ RecvUpdate
  \/ SinMemoria \/ AbortaInstruccion

CpuNext ==
  \/ HiloDispatch \/ DispatchRepetido
  \/ Readline \/ AtenderInterrupt \/ FinMain

=============================================================================
