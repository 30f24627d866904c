--------------------------- MODULE ProtocoloProps ---------------------------
(***************************************************************************)
(* What the messages of Protocolo must carry, and when they may not.       *)
(***************************************************************************)
EXTENDS Protocolo

Octetos == 0..255 \cup {BASURA}

\* Type invariant.  Of a byte nobody wrote only the three of enviar_paquete
\* ever travel: no buffer is sent with room its caller did not fill.
TypeOK ==
  /\ conexion \in DOMAIN Llamadas
  /\ ida \in Seq(Octetos) /\ en_srv \in Seq(Octetos)
  /\ vuelta \in Seq(0..255) /\ en_cli \in Seq(0..255)
  /\ srv \in {"op", "size", "stream", "dispatch", "cerrada"}
  /\ cli \in {"libre", "byte", "size", "offset", "stream"}
  /\ op \in Ops \cup {"ninguna"} /\ size \in Nat /\ offset \in Nat
  /\ hechas \in 0..MaxLlamadas /\ cortes \in 0..MaxCortes
  /\ motivos \in 0..MaxMotivos
  /\ fallo \in {"no", "corto", "basura"}

\* The handler has answered: it does so as soon as it takes the call, except the
\* one of DISPATCH, whose answer is the first motivo.
Contestada == atendida # Ninguna /\ (conexion = "kernel_cpu" => motivos > 0)

\* The fields a call serialises fill the buffer it created exactly: memcpy
\* never writes past the malloc of buffer_create, nor leaves a byte of it
\* uninitialised.  The caller counts the room in one place, by hand, and adds
\* the fields in another (kernel and CPU: seven packets, three answers).
SinDesborde ==
  /\ llamada # Ninguna =>
        Len(Serializar(Paquete[llamada.op].campos, llamada.datos)) = Tamano(llamada)
  /\ Contestada /\ op \in DOMAIN Contesta =>
        Len(Serializar(Contesta[op], contestado)) = TamanoRespuesta(op, contestado)

\* What a handler takes for the call is what was called: no field shifted,
\* crossed with another or cut, whatever was called before on the connection
\* and however its bytes came, unless a recv() came short or a byte of
\* enviar_paquete's three was taken for an operation.
EntregaFiel ==
  fallo = "no" /\ atendida # Ninguna => atendida = llamada

\* Once the caller goes on it has understood what the handler of this call,
\* and not of one before, answered; of several motivos, the first, even if the
\* next ones arrive with it.
RespuestaFiel ==
  /\ fallo = "no" /\ Contestada /\ cli = "libre"
  /\ op \in DOMAIN Contesta \cup ContestaByte
  => entendido = contestado

\* A recv() without MSG_WAITALL falls short only if TCP cut what one send()
\* wrote: neither side ever asks for more than the other sends.
CortoSoloSiParte == fallo = "corto" => cortes > 0

-----------------------------------------------------------------------------
(* The inductive invariant                                                 *)

\* The call has been made and its handler has not taken it.
SinAtender == llamada # Ninguna /\ atendida = Ninguna

\* One call at a time: the server takes the one that was made, and the caller
\* makes no other until it has the answer to it, if there is one.
PorTurnos ==
  /\ hechas > 0 <=> llamada # Ninguna
  /\ llamada # Ninguna => llamada \in Llamadas[conexion]
  /\ llamada = Ninguna => cli = "libre" /\ atendida = Ninguna
  /\ atendida # Ninguna => atendida = llamada /\ op = llamada.op
  /\ Contestada => contestado \in Respuestas[op]
  /\ motivos > 0 => conexion = "kernel_cpu" /\ atendida # Ninguna
  /\ srv = "dispatch" => conexion = "kernel_cpu" /\ atendida # Ninguna
  /\ cli = "byte" => llamada.op \in ContestaByte
  /\ cli \in {"size", "offset", "stream"} => llamada.op \in DOMAIN Contesta
  /\ cli \in {"offset", "stream"} => Contestada
  /\ llamada # Ninguna /\ ~Contestada /\ cli = "libre"
     => llamada.op \notin DOMAIN Contesta \cup ContestaByte
  /\ cli = "libre" /\ Contestada /\ op \in DOMAIN Contesta \cup ContestaByte
     => entendido = contestado

\* What a packet or an answer has after its size, or its offset.
Cuerpo(c) == Llenar(Tamano(c), Serializar(Paquete[c.op].campos, c.datos))

CuerpoRespuesta(o, datos) ==
  Llenar(TamanoRespuesta(o, datos), Serializar(Contesta[o], datos))

Relleno(n) == [i \in 1..n |-> BASURA]

\* What the server has still to read: the rest of the packet in course, after
\* what is left of the three bytes that follow the one before.
Ida ==
  LET resto == en_srv \o ida
  IN  /\ srv = "op" /\ SinAtender =>
            \E n \in 0..3 : resto = Relleno(n) \o enviar_paquete(llamada)
      /\ srv \in {"op", "dispatch"} /\ ~SinAtender =>
            \E n \in 0..3 : resto = Relleno(n)
      /\ srv \in {"size", "stream"} => SinAtender /\ op = llamada.op
      /\ srv = "size" =>
            resto = buffer_add_uint32(Tamano(llamada)) \o (Cuerpo(llamada) \o Relleno(3))
      /\ srv = "stream" => size = Tamano(llamada) /\ resto = Cuerpo(llamada) \o Relleno(3)
      /\ srv = "cerrada" <=> conexion = "kernel_memoria" /\ atendida # Ninguna

\* What the caller has still to read: nothing, or the rest of the answer and,
\* after it, the motivos that follow the first.
Resto(siguen) ==
  LET resto  == en_cli \o vuelta
      cuerpo == CuerpoRespuesta(op, contestado) \o siguen
  IN  /\ motivos < 2 => siguen = <<>>
      /\ cli = "libre" => resto = siguen
      /\ cli = "byte" => resto = <<contestado>>
      /\ cli \in {"offset", "stream"} => size = TamanoRespuesta(op, contestado)
      /\ cli = "size" =>
            resto = buffer_add_uint32(TamanoRespuesta(op, contestado))
                    \o (buffer_add_uint32(0) \o cuerpo)
      /\ cli = "offset" => resto = buffer_add_uint32(0) \o cuerpo
      /\ cli = "stream" => offset = 0 /\ resto = cuerpo

Vuelta ==
  IF Contestada THEN \E siguen \in Suffixes(en_cli \o vuelta) : Resto(siguen)
  ELSE en_cli = <<>> /\ vuelta = <<>>

\* What is left of the answer the caller waits for.
Falta ==
  CASE cli = "size" -> 8 + TamanoRespuesta(op, contestado)
    [] cli = "offset" -> 4 + size
    [] cli = "stream" -> size
    [] cli = "byte" -> 1
    [] OTHER -> 0

\* Deliveries that are not cut bring whole messages.
Enteros ==
  cortes = 0 =>
     /\ ida # <<>> => srv = "op" /\ SinAtender /\ ida = enviar_paquete(llamada)
     /\ en_cli # <<>> => Len(en_cli) >= Falta

\* What the proofs carry from step to step: whose turn it is, what each end has
\* still to read, and that only a cut leaves part of a message on its way.
IInv ==
  TypeOK /\ PorTurnos /\ Ida /\ Vuelta /\ Enteros /\ CortoSoloSiParte

-----------------------------------------------------------------------------
(* Every call ends                                                         *)

\* A call has been made, and its handler has not taken it or the caller has
\* not had the answer it waits for.
EnCurso ==
  llamada # Ninguna /\ (atendida = Ninguna \/ cli # "libre")

\* What the server, or the caller, is in the middle of reading is all there.
TieneServidor ==
  \/ srv = "op" /\ Len(en_srv) >= 1
  \/ srv = "size" /\ Len(en_srv) >= 4
  \/ srv = "stream" /\ Len(en_srv) >= size

TieneCliente ==
  \/ /\ cli = "byte" /\ Len(en_cli) >= 1
     /\ conexion = "kernel_memoria" => srv = "cerrada"
  \/ cli \in {"size", "offset"} /\ Len(en_cli) >= 4
  \/ cli = "stream" /\ Len(en_cli) >= size

\* check_interrupt() ended the loop before a syscall: the kernel is left in
\* buffer_recv() and nothing will answer it.
SinMotivo ==
  conexion = "kernel_cpu" /\ atendida # Ninguna /\ motivos = 0 /\ srv # "dispatch"

\* The two ends wait for each other in one case only, that of a thread
\* interrupted before any syscall.  In any other, as long as a call has not
\* ended there are bytes on their way, one of the ends has all it asked for, or
\* the CPU is in its loop of instructions.
EsperaMutuaSoloSinMotivo ==
  EnCurso /\ fallo = "no" =>
     \/ ida # <<>> \/ vuelta # <<>> \/ TieneServidor \/ TieneCliente
     \/ srv = "dispatch" \/ SinMotivo

\* The bytes of the call that have still to be delivered, and read.
Pendientes == 2 * Len(ida) + Len(en_srv) + 2 * Len(vuelta) + Len(en_cli)

\* Every step brings a call nearer to its end: the handler takes it, or there
\* is less to deliver and read than before.  Nobody can call meanwhile.  The
\* loop of instructions is left out: what it does between two motivos, or
\* without any, has no end the messages could measure.
Avanza ==
  [][EnCurso /\ fallo = "no" =>
       \/ ~EnCurso' \/ fallo' # "no"
       \/ atendida = Ninguna /\ atendida' # Ninguna
       \/ srv = "dispatch" /\ (srv' # srv \/ motivos' > motivos)
       \/ atendida' = atendida /\ Pendientes' < Pendientes]_vars

\* Every call ends: the handler takes it and the caller, if it waits for an
\* answer, has it.  Of a DISPATCH the handler takes, only if there is a motivo:
\* the thread may be interrupted before its first syscall, or make none.
LlamadaTermina ==
  EnCurso ~> \/ ~EnCurso \/ fallo # "no"
             \/ conexion = "kernel_cpu" /\ atendida # Ninguna /\ motivos = 0

=============================================================================
