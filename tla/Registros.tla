------------------------------ MODULE Registros ------------------------------
(***************************************************************************)
(* The registers of a thread and what the CPU does to them with each       *)
(* instruction: obtener_registro, set_registro and the cases of            *)
(* decode_execute that stay in the CPU.                                    *)
(***************************************************************************)
EXTENDS Integers

CONSTANTS
  Modulo,     \* what a uint32_t wraps at: 2^32
  Generales   \* the general registers, AX to HX

ASSUME RegistrosAssumption ==
  /\ Modulo \in Nat /\ Modulo > 256 /\ Modulo % 256 = 0
  /\ "PC" \notin Generales

Nombres == {"PC"} \cup Generales

t_register == [Nombres -> 0 .. Modulo - 1]

\* initiate_registers.
initiate_registers == [r \in Nombres |-> 0]

\* The conversion to uint32_t of a sum, a difference, or an int.
uint32(v) ==
  IF v < 0 THEN v + Modulo ELSE IF v >= Modulo THEN v - Modulo ELSE v

\* The conversion of a uint32_t to a char, which is signed and 8 bits wide.
char(v) == IF v % 256 < 128 THEN v % 256 ELSE (v % 256) - 256

\* The values a char holds, as a uint32_t: 0..127, and -128..-1.
Cabe(v) == v < 128 \/ v >= Modulo - 128

\* Mutant: the byte is zero-extended.
ObtenerSinSigno(r, registros) == IF r \in Nombres THEN registros[r] % 256 ELSE 0

\* obtener_registro returns a char, and its callers keep it in a uint32_t.
obtener_registro(r, registros) ==
  uint32(IF r \in Nombres THEN char(registros[r]) ELSE 0)

\* Mutant: the value of PC is the line, counted from 0.
SetSinDescontar(registros, r, valor) ==
  IF r \in Nombres THEN [registros EXCEPT ![r] = uint32(valor)] ELSE registros

\* What is written to PC is a line counted from 1, less the PC++ to come.
set_registro(registros, r, valor) ==
  IF r = "PC" THEN [registros EXCEPT !["PC"] = uint32(valor - 2)]
  ELSE IF r \in Generales THEN [registros EXCEPT ![r] = uint32(valor)]
  ELSE registros

\* An instruction: its word, the registers it names and the number it gives,
\* which its program writes as an int.
Instruccion ==
  [op : STRING, r1 : STRING, r2 : STRING, n : (2 - Modulo) .. Modulo - 1]

\* The words of the dictionary that change no register here are syscalls,
\* LOG, and what has no case at all.
Calculos == {"SET", "READ_MEM", "SUM", "SUB"}

Syscalls == {"DUMP_MEMORY", "MUTEX_CREATE", "MUTEX_UNLOCK", "PROCESS_EXIT",
             "PROCESS_CREATE", "THREAD_CANCEL", "THREAD_CREATE", "THREAD_EXIT",
             "THREAD_JOIN"}

dict_protocol ==
  Calculos \cup Syscalls \cup {"JNZ", "LOG", "WRITE_MEM", "MUTEX_LOCK", "IO"}

\* A line without the words its case reads is "incompleta" here, whatever it
\* starts with: array[0], array[1] or array[2] is NULL.
Palabras == dict_protocol \cup {"incompleta"}

\* A word the dictionary does not have gives NULL, which is INSTRUCCION_SET.
Caso(palabra) == IF palabra \in Palabras THEN palabra ELSE "SET"

\* Mutant: PC is not incremented.
EjecutarSinAvanzar(i, registro) ==
  IF Caso(i.op) = "SET" THEN set_registro(registro, i.r1, i.n) ELSE registro

\* decode_execute, what it does to the registers.
decode_execute(i, registro) ==
  LET valor1 == obtener_registro(i.r1, registro)
      valor2 == obtener_registro(i.r2, registro)
      hecho  ==
        CASE Caso(i.op) = "SET"      -> set_registro(registro, i.r1, i.n)
          [] Caso(i.op) = "READ_MEM" -> set_registro(registro, i.r1, valor2)
          [] Caso(i.op) = "SUM" -> set_registro(registro, i.r1, uint32(valor1 + valor2))
          [] Caso(i.op) = "SUB" -> set_registro(registro, i.r1, uint32(valor1 - valor2))
          [] Caso(i.op) = "JNZ" /\ valor1 # 0 -> set_registro(registro, "PC", i.n)
          [] OTHER -> registro
  IN  [hecho EXCEPT !["PC"] = uint32(@ + 1)]

-----------------------------------------------------------------------------
(* When an instruction loses nothing of what it works on                   *)

\* The registers an instruction reads.
Leidos(i) ==
  CASE i.op \in {"SUM", "SUB"} -> {i.r1, i.r2}
    [] i.op = "READ_MEM"       -> {i.r2}
    [] i.op = "JNZ"            -> {i.r1}
    [] OTHER                   -> {}

\* What it reads fits in a char, it is in the dictionary (or is never executed),
\* and it computes into a general register (PC is read from 0, written from 1).
Exacta(i, registros) ==
  /\ i.op \in Palabras
  /\ i.op \in Calculos => i.r1 \in Generales
  /\ \A r \in Leidos(i) : r \in Nombres /\ Cabe(registros[r])

=============================================================================
