------------------------------ MODULE Protocolo ------------------------------
(***************************************************************************)
(* The messages between the three processes, byte by byte: what each       *)
(* caller serialises, how it crosses a TCP connection that may deliver it  *)
(* in any pieces, and what the other side makes of it with one recv() per  *)
(* field.  One behaviour is one kind of connection: the kernel's to        *)
(* Memoria (one call each), the CPU's to Memoria, or the kernel's to the   *)
(* dispatch port of the CPU.  A recv() that comes short, or a byte left    *)
(* over that is taken for an operation, ends it: nothing in the code       *)
(* notices, and what follows is read out of step.                          *)
(***************************************************************************)
EXTENDS Integers, Sequences, SequencesExt, Bytes

CONSTANTS
  Llamadas,    \* the calls of each kind of connection: [op, datos]
  Respuestas,  \* what each operation may answer
  MaxLlamadas, \* bound: calls in a behaviour
  MaxCortes,   \* bound: times a delivery is cut
  MaxMotivos   \* bound: motivos the CPU sends while it serves one DISPATCH

VARIABLES
  conexion,           \* "kernel_memoria", "cpu_memoria" or "kernel_cpu"
  ida, vuelta,        \* the bytes sent and not delivered, each way
  en_srv, en_cli,     \* the bytes delivered and not read
  srv, cli,           \* where the two ends are
  op, size, offset,   \* what they have read so far
  llamada,            \* the call in course, or the last one
  atendida,           \* what the server understood of it, or Ninguna
  contestado,         \* what the server answered: of several motivos, the first
  motivos,            \* motivos sent
  entendido,          \* what the caller understood of the answer
  hechas,             \* calls made
  cortes,             \* deliveries cut short
  fallo               \* "no", "corto" or "basura"

canales == <<ida, vuelta, en_srv, en_cli>>
vars == <<conexion, canales, srv, cli, op, size, offset, llamada, atendida,
          contestado, motivos, entendido, hechas, cortes, fallo>>

Ninguna == [op |-> "ninguna"]

-----------------------------------------------------------------------------
(* Buffers                                                                 *)

\* A byte of memory nobody wrote.
BASURA == -1

\* The strings, as their characters; every other field is a uint32_t, in a
\* sequence of its own.
Textos == {"filename", "instruccion", "motivo"}

\* What a field may hold: a uint32_t, or characters before the \0, as many as a
\* uint32_t can count.
EnCampo(campo, valor) ==
  IF campo \in Textos
  THEN valor \in Seq(1..255) /\ EnUint32(Len(valor) + 1)
  ELSE valor \in Seq(Nat) /\ Len(valor) = 1 /\ EnUint32(valor[1])

EsMensaje(campos, datos) ==
  /\ datos \in [Range(campos) -> Seq(Nat)]
  /\ \A campo \in Range(campos) : EnCampo(campo, datos[campo])

\* buffer_add_uint32 and buffer_add_string.
Agregar(campo, valor) ==
  IF campo \in Textos
  THEN buffer_add_uint32(Len(valor) + 1) \o valor \o <<0>>
  ELSE buffer_add_uint32(valor[1])

\* The calls that fill a buffer, one after another.
Serializar(campos, datos) ==
  FlattenSeq([i \in DOMAIN campos |-> Agregar(campos[i], datos[campos[i]])])

Tramo(stream, desde, n) ==
  [i \in 1..n |-> IF desde + i <= Len(stream) THEN stream[desde + i] ELSE BASURA]

\* buffer_read_uint32, at an offset.
Palabra(stream, desde) == buffer_read_uint32(Tramo(stream, desde, 4))

\* The reads that empty a buffer, from its offset: each moves it on, and
\* buffer_read_string by the length it finds too.
Deserializar(campos, stream, desde) ==
  LET pos[i \in DOMAIN campos] ==
        IF i = 1 THEN desde
        ELSE LET antes == pos[i - 1]
             IN  antes + 4 + (IF campos[i - 1] \in Textos
                              THEN Palabra(stream, antes) ELSE 0)
      Dato(i) ==
        LET cuatro == Palabra(stream, pos[i])
        IN  IF campos[i] \in Textos THEN Tramo(stream, pos[i] + 4, cuatro - 1)
            ELSE <<cuatro>>
  IN  [campo \in Range(campos) |->
         Dato(CHOOSE i \in DOMAIN campos : campos[i] = campo)]

\* buffer_create(n), then what is added to it.
Llenar(n, contenido) ==
  [i \in 1..n |-> IF i <= Len(contenido) THEN contenido[i] ELSE BASURA]

-----------------------------------------------------------------------------
(* What each call writes, and what its handler reads                       *)

\* serializar_registro and deserealizar_registro.
t_register ==
  <<"PC", "AX", "BX", "CX", "DX", "EX", "FX", "GX", "HX", "base", "limite">>

Codigo ==
  [PROCESS_CREATION |-> 0, THREAD_CREATION |-> 2, THREAD_KILL |-> 3,
   GET_EXECUTION_CONTEXT |-> 5, UPDATE_CONTEXT |-> 6, GET_INSTRUCTION |-> 7,
   DISPATCH |-> 10]

Ops == DOMAIN Codigo

\* What each caller writes, and the words it gives buffer_create room for.
PaqueteProceso     == [campos |-> <<"PID", "size", "priority", "filename">>, palabras |-> 4]
PaqueteHilo        == [campos |-> <<"PID", "priority", "filename">>, palabras |-> 3]
PaqueteBaja        == [campos |-> <<"PID", "TID">>, palabras |-> 2]
PaqueteContexto    == [campos |-> <<"PID", "TID">>, palabras |-> 2]
PaqueteInstruccion == [campos |-> <<"PID", "TID", "PC">>, palabras |-> 3]
PaqueteRegistros   == [campos |-> <<"PID", "TID">> \o t_register, palabras |-> 2 + 11]
PaqueteDispatch    == [campos |-> <<"PID", "TID">>, palabras |-> 2]

Paquete ==
  [PROCESS_CREATION |-> PaqueteProceso, THREAD_CREATION |-> PaqueteHilo,
   THREAD_KILL |-> PaqueteBaja, GET_EXECUTION_CONTEXT |-> PaqueteContexto,
   GET_INSTRUCTION |-> PaqueteInstruccion, UPDATE_CONTEXT |-> PaqueteRegistros,
   DISPATCH |-> PaqueteDispatch]

\* Mutant: the length of the string is not counted.
TamanoSinLargo(c) ==
  4 * Paquete[c.op].palabras
  + IF "filename" \in DOMAIN c.datos THEN Len(c.datos["filename"]) - 3 ELSE 0

Tamano(c) ==
  4 * Paquete[c.op].palabras
  + IF "filename" \in DOMAIN c.datos THEN Len(c.datos["filename"]) + 1 ELSE 0

\* What each handler reads.
LeeProceso     == <<"PID", "size", "priority", "filename">>
LeeHilo        == <<"PID", "priority", "filename">>
LeeBaja        == <<"PID", "TID">>
LeeContexto    == <<"PID", "TID">>
\* Mutant: the handler takes its PID for the TID.
LeeCruzado     == <<"TID", "PID", "PC">>
LeeInstruccion == <<"PID", "TID", "PC">>
LeeRegistros   == <<"PID", "TID">> \o t_register
LeeDispatch    == <<"PID", "TID">>

Lee ==
  [PROCESS_CREATION |-> LeeProceso, THREAD_CREATION |-> LeeHilo,
   THREAD_KILL |-> LeeBaja, GET_EXECUTION_CONTEXT |-> LeeContexto,
   GET_INSTRUCTION |-> LeeInstruccion, UPDATE_CONTEXT |-> LeeRegistros,
   DISPATCH |-> LeeDispatch]

\* The answers: a buffer, one byte, or none.
Contexto    == t_register
Instruccion == <<"instruccion">>
Motivo      == <<"motivo">>

Contesta ==
  [GET_EXECUTION_CONTEXT |-> Contexto, GET_INSTRUCTION |-> Instruccion,
   DISPATCH |-> Motivo]

ContestaByte == {"PROCESS_CREATION", "UPDATE_CONTEXT"}

\* Mutant: t_register has a field that serializar_registro forgets.
RespuestaConHueco(o, datos) ==
  CASE o = "GET_EXECUTION_CONTEXT" -> 4 * 12
    [] o = "GET_INSTRUCTION" -> 4 + Len(datos["instruccion"]) + 1
    [] o = "DISPATCH"        -> 4 + Len(datos["motivo"]) + 1

TamanoRespuesta(o, datos) ==
  CASE o = "GET_EXECUTION_CONTEXT" -> 4 * 11
    [] o = "GET_INSTRUCTION" -> 4 + Len(datos["instruccion"]) + 1
    [] o = "DISPATCH"        -> 4 + Len(datos["motivo"]) + 1

\* The callers fill every field of what they send, and a buffer is no longer
\* than its size can say.  The kernel makes one call on each connection to
\* Memoria; on the others every handler may answer, and only the kernel's to
\* the CPU carries a DISPATCH.
ASSUME ProtocoloAssumption ==
  /\ \A con \in DOMAIN Llamadas : \A c \in Llamadas[con] :
        /\ c = [op |-> c.op, datos |-> c.datos] /\ c.op \in Ops
        /\ EsMensaje(Paquete[c.op].campos, c.datos) /\ EnUint32(Tamano(c))
        /\ con = "kernel_memoria" \/ c.op \in DOMAIN Contesta \cup ContestaByte
        /\ c.op = "DISPATCH" <=> con = "kernel_cpu"
  /\ DOMAIN Respuestas = Ops
  /\ \A o \in DOMAIN Contesta : \A r \in Respuestas[o] :
        EsMensaje(Contesta[o], r) /\ EnUint32(TamanoRespuesta(o, r))
  /\ \A o \in ContestaByte : Respuestas[o] \subseteq 0..255
  /\ MaxLlamadas \in Nat /\ MaxCortes \in Nat /\ MaxMotivos \in Nat

\* crear_paquete, serializar_paquete and enviar_paquete: three bytes more than
\* the op_code, the size and the stream are sent.
enviar_paquete(c) ==
  <<Codigo[c.op]>> \o buffer_add_uint32(Tamano(c))
  \o Llenar(Tamano(c), Serializar(Paquete[c.op].campos, c.datos))
  \o <<BASURA, BASURA, BASURA>>

\* Mutant: the offset is not set back to 0 before the buffer is sent.
EnviarSinReponer(o, datos) ==
  LET n == TamanoRespuesta(o, datos)
  IN  buffer_add_uint32(n) \o buffer_add_uint32(n)
      \o Llenar(n, Serializar(Contesta[o], datos))

\* Mutant: the size counts the offset too.
EnviarDeMas(o, datos) ==
  LET n == TamanoRespuesta(o, datos)
  IN  buffer_add_uint32(n + 4) \o buffer_add_uint32(0)
      \o Llenar(n, Serializar(Contesta[o], datos))

\* enviar_buffer: the size, the offset and the stream.
enviar_buffer(o, datos) ==
  LET n == TamanoRespuesta(o, datos)
  IN  buffer_add_uint32(n) \o buffer_add_uint32(0)
      \o Llenar(n, Serializar(Contesta[o], datos))

-----------------------------------------------------------------------------
(* The connection                                                          *)

Init ==
  /\ conexion \in DOMAIN Llamadas
  /\ ida = <<>> /\ vuelta = <<>> /\ en_srv = <<>> /\ en_cli = <<>>
  /\ srv = "op" /\ cli = "libre"
  /\ op = "ninguna" /\ size = 0 /\ offset = 0
  /\ llamada = Ninguna /\ atendida = Ninguna
  /\ contestado = <<>> /\ motivos = 0 /\ entendido = <<>>
  /\ hechas = 0 /\ cortes = 0 /\ fallo = "no"

\* TCP delivers any first part of what is on its way.
LlegaIda ==
  /\ fallo = "no"
  /\ \E k \in 1..Len(ida) :
        /\ en_srv' = en_srv \o SubSeq(ida, 1, k)
        /\ ida' = SubSeq(ida, k + 1, Len(ida))
        /\ IF k = Len(ida) THEN UNCHANGED cortes
           ELSE cortes < MaxCortes /\ cortes' = cortes + 1
  /\ UNCHANGED <<conexion, vuelta, en_cli, srv, cli, op, size, offset, llamada,
                 atendida, contestado, motivos, entendido, hechas, fallo>>

LlegaVuelta ==
  /\ fallo = "no"
  /\ \E k \in 1..Len(vuelta) :
        /\ en_cli' = en_cli \o SubSeq(vuelta, 1, k)
        /\ vuelta' = SubSeq(vuelta, k + 1, Len(vuelta))
        /\ IF k = Len(vuelta) THEN UNCHANGED cortes
           ELSE cortes < MaxCortes /\ cortes' = cortes + 1
  /\ UNCHANGED <<conexion, ida, en_srv, srv, cli, op, size, offset, llamada,
                 atendida, contestado, motivos, entendido, hechas, fallo>>

\* A recv() without MSG_WAITALL finds some bytes, but fewer than it asked for.
Corto(leidos, n) ==
  /\ fallo = "no"
  /\ 0 < Len(leidos) /\ Len(leidos) < n
  /\ fallo' = "corto"
  /\ UNCHANGED <<conexion, canales, srv, cli, op, size, offset, llamada,
                 atendida, contestado, motivos, entendido, hechas, cortes>>

\* The server reads n bytes, which are there.
RecvSrv(desde, hasta, n) ==
  /\ fallo = "no"
  /\ srv = desde /\ srv' = hasta
  /\ Len(en_srv) >= n
  /\ en_srv' = SubSeq(en_srv, n + 1, Len(en_srv))
  /\ UNCHANGED <<conexion, ida, en_cli, cli, offset, llamada, motivos, entendido,
                 hechas, cortes, fallo>>

RecvCli(desde, hasta, n) ==
  /\ fallo = "no"
  /\ cli = desde /\ cli' = hasta
  /\ Len(en_cli) >= n
  /\ en_cli' = SubSeq(en_cli, n + 1, Len(en_cli))
  /\ UNCHANGED <<conexion, ida, vuelta, en_srv, srv, op, llamada, atendida,
                 contestado, motivos, hechas, cortes, fallo>>

-----------------------------------------------------------------------------
(* The caller                                                              *)

\* Mutant: an answer of one byte is not awaited.
EsperaSoloBuffers(o) == IF o \in DOMAIN Contesta THEN "size" ELSE "libre"

\* What it waits for once the packet is sent.
Espera(o) ==
  IF o \in DOMAIN Contesta THEN "size"
  ELSE IF o \in ContestaByte THEN "byte" ELSE "libre"

\* The kernel opens a connection to Memoria for each call, and makes one call on
\* the dispatch connection: exec_tcb waits on sem_exec, which starts at 1 and
\* nobody posts.
Llamar ==
  /\ fallo = "no" /\ cli = "libre" /\ hechas < MaxLlamadas
  /\ conexion = "kernel_cpu" => hechas = 0
  /\ conexion = "kernel_memoria" /\ hechas > 0 => srv = "cerrada"
  /\ \E c \in Llamadas[conexion] :
        /\ llamada' = c
        /\ cli' = Espera(c.op)
        /\ IF srv = "cerrada"
           THEN ida' = enviar_paquete(c) /\ en_srv' = <<>> /\ srv' = "op"
           ELSE ida' = ida \o enviar_paquete(c) /\ UNCHANGED <<en_srv, srv>>
  /\ hechas' = hechas + 1
  /\ atendida' = Ninguna
  /\ UNCHANGED <<conexion, vuelta, en_cli, op, size, offset, contestado,
                 motivos, entendido, cortes, fallo>>

\* process_create reads four bytes where one is sent: MSG_WAITALL ends when
\* the server closes, and the other three stay at 0.
RecvByte ==
  /\ \/ conexion # "kernel_memoria"
     \/ srv = "cerrada" /\ vuelta = <<>>
  /\ RecvCli("byte", "libre", 1)
  /\ entendido' = Head(en_cli)
  /\ UNCHANGED <<size, offset>>

\* buffer_recv.
BufferRecvSize ==
  /\ RecvCli("size", "offset", 4)
  /\ size' = buffer_read_uint32(en_cli)
  /\ UNCHANGED <<offset, entendido>>

BufferRecvOffset ==
  /\ RecvCli("offset", "stream", 4)
  /\ offset' = buffer_read_uint32(en_cli)
  /\ UNCHANGED <<size, entendido>>

BufferRecvStream ==
  /\ RecvCli("stream", "libre", size)
  /\ entendido' = Deserializar(Contesta[llamada.op], SubSeq(en_cli, 1, size), offset)
  /\ UNCHANGED <<size, offset>>

CortoCli ==
  \/ cli \in {"size", "offset"} /\ Corto(en_cli, 4)
  \/ cli = "stream" /\ Corto(en_cli, size)

-----------------------------------------------------------------------------
(* The server                                                              *)

\* The op_code.  The loops pass over what is no operation of theirs.
RecvOp ==
  \E o \in Ops :
     /\ RecvSrv("op", "size", 1)
     /\ Codigo[o] = Head(en_srv)
     /\ op' = o
     /\ UNCHANGED <<vuelta, size, atendida, contestado>>

SaltarByte ==
  /\ en_srv # <<>> /\ Head(en_srv) = BASURA
  /\ RecvSrv("op", "op", 1)
  /\ UNCHANGED <<vuelta, op, size, atendida, contestado>>

\* A byte left over by the last packet is an operation.
TomarBasura ==
  /\ fallo = "no" /\ srv = "op"
  /\ en_srv # <<>> /\ Head(en_srv) = BASURA
  /\ fallo' = "basura"
  /\ UNCHANGED <<conexion, canales, srv, cli, op, size, offset, llamada,
                 atendida, contestado, motivos, entendido, hechas, cortes>>

RecvSize ==
  /\ RecvSrv("size", "stream", 4)
  /\ size' = buffer_read_uint32(en_srv)
  /\ UNCHANGED <<vuelta, op, atendida, contestado>>

\* Where the server goes once the handler has read the call.  atenderKernel
\* closes; dispatch() goes round its loop of instructions; the CPU's thread of
\* Memoria reads on.
Sigue ==
  CASE conexion = "kernel_memoria" -> "cerrada"
    [] op = "DISPATCH" -> "dispatch"
    [] OTHER -> "op"

Leido == [op |-> op, datos |-> Deserializar(Lee[op], SubSeq(en_srv, 1, size), 0)]

\* Mutant: the handler does not answer.
RecvStreamSinResponder ==
  /\ RecvSrv("stream", Sigue, size)
  /\ atendida' = Leido
  /\ UNCHANGED <<vuelta, contestado, op, size>>

\* Mutant: atenderKernel does not close the connection.
RecvStreamSinCerrar ==
  /\ RecvSrv("stream", IF Sigue = "cerrada" THEN "op" ELSE Sigue, size)
  /\ atendida' = Leido
  /\ IF op = "DISPATCH" THEN UNCHANGED <<vuelta, contestado>>
     ELSE \E r \in Respuestas[op] :
            /\ contestado' = r
            /\ vuelta' = IF op \in DOMAIN Contesta THEN enviar_buffer(op, r)
                         ELSE IF op \in ContestaByte THEN <<r>> ELSE <<>>
  /\ UNCHANGED <<op, size>>

\* The rest of the handler, and its answer.  dispatch() answers nothing yet.
RecvStream ==
  /\ RecvSrv("stream", Sigue, size)
  /\ atendida' = Leido
  /\ IF op = "DISPATCH" THEN UNCHANGED <<vuelta, contestado>>
     ELSE \E r \in Respuestas[op] :
            /\ contestado' = r
            /\ vuelta' = IF op \in DOMAIN Contesta THEN enviar_buffer(op, r)
                         ELSE IF op \in ContestaByte THEN <<r>> ELSE <<>>
  /\ UNCHANGED <<op, size>>

\* send_syscall, from decode_execute: a motivo for the kernel, and the loop goes
\* on with the instruction that follows.
EnviarMotivo ==
  /\ fallo = "no" /\ srv = "dispatch" /\ motivos < MaxMotivos
  /\ \E r \in Respuestas["DISPATCH"] :
        /\ vuelta' = vuelta \o enviar_buffer("DISPATCH", r)
        /\ contestado' = IF motivos = 0 THEN r ELSE contestado
  /\ motivos' = motivos + 1
  /\ UNCHANGED <<conexion, ida, en_srv, en_cli, srv, cli, op, size, offset,
                 llamada, atendida, entendido, hechas, cortes, fallo>>

\* check_interrupt ends the loop, whether a motivo was sent or not.
Interrumpir ==
  /\ fallo = "no" /\ srv = "dispatch" /\ srv' = "op"
  /\ UNCHANGED <<conexion, canales, cli, op, size, offset, llamada, atendida,
                 contestado, motivos, entendido, hechas, cortes, fallo>>

CortoSrv ==
  \/ srv = "size" /\ Corto(en_srv, 4)
  \/ srv = "stream" /\ Corto(en_srv, size)

-----------------------------------------------------------------------------
(* The specification                                                       *)

Cliente ==
  RecvByte \/ BufferRecvSize \/ BufferRecvOffset \/ BufferRecvStream \/ CortoCli

Servidor ==
  RecvOp \/ SaltarByte \/ TomarBasura \/ RecvSize \/ RecvStream \/ CortoSrv

\* The instructions of the thread and the interruption.
Bucle == EnviarMotivo \/ Interrumpir

Next == Llamar \/ LlegaIda \/ LlegaVuelta \/ Cliente \/ Servidor \/ Bucle

Spec == Init /\ [][Next]_vars

\* What is sent arrives, and the two ends read what arrives.  Nothing is asked
\* of the loop: a program may never make a syscall, or never end, and the
\* interruption is the operator's.
FairSpec ==
  /\ Spec
  /\ WF_vars(LlegaIda) /\ WF_vars(LlegaVuelta)
  /\ WF_vars(Cliente) /\ WF_vars(Servidor)

=============================================================================
