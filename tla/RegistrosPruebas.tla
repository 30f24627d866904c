-------------------------- MODULE RegistrosPruebas --------------------------
(***************************************************************************)
(* Lemmas about the conversions between the integers of the CPU and about  *)
(* the type of what its instructions leave, for registers of any width of  *)
(* at least two bytes and any general registers.                           *)
(***************************************************************************)
EXTENDS Registros, TLAPS

-----------------------------------------------------------------------------
(* Conversions                                                             *)

\* The conversion to uint32_t is the remainder, of what the CPU converts.
LEMMA Resto ==
  ASSUME NEW v \in Int, -Modulo <= v, v < 2 * Modulo
  PROVE  /\ uint32(v) = v % Modulo
         /\ uint32(v) \in 0 .. Modulo - 1
<1> USE RegistrosAssumption DEF uint32
<1>1. CASE v < 0
  <2>1. v + Modulo \in 0 .. Modulo - 1
    BY <1>1
  <2>2. v % Modulo = v + Modulo
    BY <1>1, <2>1
  <2> QED
    BY <1>1, <2>1, <2>2
<1>2. CASE 0 <= v /\ v < Modulo
  <2>1. v % Modulo = v
    BY <1>2
  <2> QED
    BY <1>2, <2>1
<1>3. CASE Modulo <= v
  <2>1. v - Modulo \in 0 .. Modulo - 1
    BY <1>3
  <2>2. v % Modulo = v - Modulo
    BY <1>3, <2>1
  <2> QED
    BY <1>3, <2>1, <2>2
<1> QED
  BY <1>1, <1>2, <1>3

\* The narrowing to a char and back loses nothing of what fits, and only that.
LEMMA Estrechar ==
  ASSUME NEW v \in 0 .. Modulo - 1
  PROVE  /\ uint32(char(v)) \in 0 .. Modulo - 1
         /\ uint32(char(v)) = v <=> Cabe(v)
<1> USE RegistrosAssumption
<1>1. /\ v % 256 \in 0..255
      /\ v = 256 * (v \div 256) + (v % 256)
      /\ Modulo = 256 * (Modulo \div 256)
  OBVIOUS
<1>2. CASE v % 256 < 128
  <2>1. uint32(char(v)) = v % 256
    BY <1>1, <1>2 DEF uint32, char
  <2>2. v % 256 = v <=> v < 128
    BY <1>1, <1>2
  <2>3. v >= Modulo - 128 => v % 256 >= 128
    BY <1>1
  <2> QED
    BY <1>1, <1>2, <2>1, <2>2, <2>3 DEF Cabe
<1>3. CASE v % 256 >= 128
  <2>1. uint32(char(v)) = (v % 256) - 256 + Modulo
    BY <1>1, <1>3 DEF uint32, char
  <2>2. (v % 256) - 256 + Modulo = v <=> v >= Modulo - 128
    BY <1>1, <1>3
  <2>3. v >= 128
    BY <1>1, <1>3
  <2> QED
    BY <1>1, <1>3, <2>1, <2>2, <2>3 DEF Cabe
<1> QED
  BY <1>1, <1>2, <1>3

-----------------------------------------------------------------------------
(* Types                                                                   *)

\* obtener_registro returns a value that fits in a register, whatever the name.
LEMMA Obtener ==
  ASSUME NEW regs \in t_register, NEW r
  PROVE  obtener_registro(r, regs) \in 0 .. Modulo - 1
<1>1. CASE r \in Nombres
  BY <1>1, Estrechar DEF obtener_registro, t_register
<1>2. CASE r \notin Nombres
  BY <1>2, Resto, RegistrosAssumption DEF obtener_registro
<1> QED
  BY <1>1, <1>2

\* set_registro keeps the types of the registers, whatever value it is given.
LEMMA Poner ==
  ASSUME NEW regs \in t_register, NEW r, NEW v \in (2 - Modulo) .. Modulo - 1
  PROVE  set_registro(regs, r, v) \in t_register
<1> USE RegistrosAssumption
<1>1. uint32(v) \in 0 .. Modulo - 1 /\ uint32(v - 2) \in 0 .. Modulo - 1
  BY Resto
<1> QED
  BY <1>1 DEF set_registro, t_register, Nombres

\* What an instruction does before PC++.
LEMMA Ejecucion ==
  ASSUME NEW regs \in t_register, NEW i \in Instruccion
  PROVE  decode_execute(i, regs) \in t_register
<1> USE RegistrosAssumption
<1> DEFINE valor1 == obtener_registro(i.r1, regs)
           valor2 == obtener_registro(i.r2, regs)
           suma   == uint32(valor1 + valor2)
           resta  == uint32(valor1 - valor2)
           hecho  ==
             CASE Caso(i.op) = "SET"      -> set_registro(regs, i.r1, i.n)
               [] Caso(i.op) = "READ_MEM" -> set_registro(regs, i.r1, valor2)
               [] Caso(i.op) = "SUM" -> set_registro(regs, i.r1, suma)
               [] Caso(i.op) = "SUB" -> set_registro(regs, i.r1, resta)
               [] Caso(i.op) = "JNZ" /\ valor1 # 0 -> set_registro(regs, "PC", i.n)
               [] OTHER -> regs
<1>1. valor1 \in 0 .. Modulo - 1 /\ valor2 \in 0 .. Modulo - 1
  BY Obtener
<1>2. suma \in 0 .. Modulo - 1 /\ resta \in 0 .. Modulo - 1
  BY <1>1, Resto
<1>3. i.n \in (2 - Modulo) .. Modulo - 1
  BY DEF Instruccion
<1> HIDE DEF valor1, valor2, suma, resta
<1>4. hecho \in t_register
  <2>1. CASE Caso(i.op) = "SET"
    BY <2>1, <1>3, Poner
  <2>2. CASE Caso(i.op) = "READ_MEM"
    BY <2>2, <1>1, Poner
  <2>3. CASE Caso(i.op) = "SUM"
    BY <2>3, <1>2, Poner
  <2>4. CASE Caso(i.op) = "SUB"
    BY <2>4, <1>2, Poner
  <2>5. CASE Caso(i.op) = "JNZ" /\ valor1 # 0
    BY <2>5, <1>3, Poner
  <2>6. CASE /\ Caso(i.op) \notin {"SET", "READ_MEM", "SUM", "SUB"}
             /\ ~(Caso(i.op) = "JNZ" /\ valor1 # 0)
    BY <2>6
  <2> QED
    BY <2>1, <2>2, <2>3, <2>4, <2>5, <2>6
<1>5. decode_execute(i, regs) = [hecho EXCEPT !["PC"] = uint32(@ + 1)]
  BY DEF decode_execute, valor1, valor2, suma, resta
<1>6. uint32(hecho["PC"] + 1) \in 0 .. Modulo - 1
  BY <1>4, Resto DEF t_register, Nombres
<1> HIDE DEF hecho
<1> QED
  BY <1>4, <1>5, <1>6 DEF t_register

-----------------------------------------------------------------------------
(* What instructions mean                                                  *)

\* The machine of Maquina, for what its instructions do to the registers.
Ideal == INSTANCE Maquina
           WITH programa <- <<>>, vivo <- TRUE, banco <- initiate_registers

Avanza(regs) == [regs EXCEPT !["PC"] = uint32(@ + 1)]

Escrito(regs, r, v) == [regs EXCEPT ![r] = Ideal!En32(v), !["PC"] = Ideal!En32(@ + 1)]

\* What is written to a general register, and the step to the next line.
LEMMA Escribir ==
  ASSUME NEW regs \in t_register, NEW r \in Generales,
         NEW v \in Int, -Modulo <= v, v < 2 * Modulo, NEW w, w = uint32(v)
  PROVE  Avanza(set_registro(regs, r, w)) = Escrito(regs, r, v)
<1> USE RegistrosAssumption
<1>1. w = Ideal!En32(v) /\ w \in 0 .. Modulo - 1
  BY Resto DEF Ideal!En32
<1>2. uint32(w) = w
  BY <1>1 DEF uint32
<1>3. r # "PC"
  OBVIOUS
<1>4. set_registro(regs, r, w) = [regs EXCEPT ![r] = w]
  BY <1>2, <1>3 DEF set_registro
<1>5. regs["PC"] \in 0 .. Modulo - 1
  BY DEF t_register, Nombres
<1>6. uint32(regs["PC"] + 1) = Ideal!En32(regs["PC"] + 1)
  BY <1>5, Resto DEF Ideal!En32
<1>7. [regs EXCEPT ![r] = w]["PC"] = regs["PC"]
  BY <1>3 DEF t_register, Nombres
<1> QED
  BY <1>1, <1>4, <1>6, <1>7, <1>3 DEF t_register, Nombres, Avanza, Escrito

\* Each instruction is what it means, on what fits in a char.
LEMMA UnaInstruccion ==
  ASSUME NEW regs \in t_register, NEW i \in Instruccion,
         Exacta(i, regs)
  PROVE  decode_execute(i, regs) = Ideal!Efecto(i, regs)
<1> USE RegistrosAssumption DEF Exacta
<1>1. Caso(i.op) = i.op
  BY DEF Caso
<1>2. \A r \in Leidos(i) : /\ obtener_registro(r, regs) = regs[r]
                           /\ regs[r] \in 0 .. Modulo - 1
  BY Estrechar DEF obtener_registro, t_register
<1>3. i.n \in (2 - Modulo) .. Modulo - 1
  BY DEF Instruccion
<1>4. regs["PC"] \in 0 .. Modulo - 1
  BY DEF t_register, Nombres
<1>5. uint32(regs["PC"] + 1) = Ideal!En32(regs["PC"] + 1)
  BY <1>4, Resto DEF Ideal!En32
<1>6. CASE i.op = "SET"
  <2>1. i.r1 \in Generales
    BY <1>6 DEF Calculos
  <2>2. Avanza(set_registro(regs, i.r1, i.n))
          = Avanza(set_registro(regs, i.r1, uint32(i.n)))
    <3>1. uint32(uint32(i.n)) = uint32(i.n)
      BY <1>3 DEF uint32
    <3> QED
      BY <2>1, <3>1 DEF set_registro
  <2>3. decode_execute(i, regs)
          = Avanza(set_registro(regs, i.r1, i.n))
    BY <1>1, <1>6 DEF decode_execute, Avanza
  <2>4. Ideal!Efecto(i, regs)
          = Escrito(regs, i.r1, i.n)
    BY <1>6 DEF Ideal!Efecto, Ideal!Resultado, Escrito
  <2> QED
    BY <1>3, <2>1, <2>2, <2>3, <2>4, Escribir
<1>7. CASE i.op = "READ_MEM"
  <2>1. i.r1 \in Generales
    BY <1>7 DEF Calculos
  <2>2. /\ obtener_registro(i.r2, regs) = regs[i.r2]
        /\ regs[i.r2] \in 0 .. Modulo - 1
    BY <1>2, <1>7 DEF Leidos
  <2>3. decode_execute(i, regs)
          = Avanza(set_registro(regs, i.r1, regs[i.r2]))
    BY <1>1, <1>7, <2>2 DEF decode_execute, Avanza
  <2>4. Ideal!Efecto(i, regs)
          = Escrito(regs, i.r1, regs[i.r2])
    BY <1>7 DEF Ideal!Efecto, Ideal!Resultado, Escrito
  <2>5. regs[i.r2] = uint32(regs[i.r2])
    BY <2>2 DEF uint32
  <2> QED
    BY <2>1, <2>2, <2>3, <2>4, <2>5, Escribir
<1>8. CASE i.op = "SUM"
  <2>1. i.r1 \in Generales
    BY <1>8 DEF Calculos
  <2> DEFINE v == regs[i.r1] + regs[i.r2]
  <2>2. /\ obtener_registro(i.r1, regs) = regs[i.r1]
        /\ obtener_registro(i.r2, regs) = regs[i.r2]
        /\ v \in Int /\ -Modulo <= v /\ v < 2 * Modulo
    BY <1>2, <1>8 DEF Leidos
  <2>3. decode_execute(i, regs)
          = Avanza(set_registro(regs, i.r1, uint32(v)))
    BY <1>1, <1>8, <2>2 DEF decode_execute, Avanza
  <2>4. Ideal!Efecto(i, regs)
          = Escrito(regs, i.r1, v)
    BY <1>8 DEF Ideal!Efecto, Ideal!Resultado, Escrito
  <2> QED
    BY <2>1, <2>2, <2>3, <2>4, Escribir
<1>9. CASE i.op = "SUB"
  <2>1. i.r1 \in Generales
    BY <1>9 DEF Calculos
  <2> DEFINE v == regs[i.r1] - regs[i.r2]
  <2>2. /\ obtener_registro(i.r1, regs) = regs[i.r1]
        /\ obtener_registro(i.r2, regs) = regs[i.r2]
        /\ v \in Int /\ -Modulo <= v /\ v < 2 * Modulo
    BY <1>2, <1>9 DEF Leidos
  <2>3. decode_execute(i, regs)
          = Avanza(set_registro(regs, i.r1, uint32(v)))
    BY <1>1, <1>9, <2>2 DEF decode_execute, Avanza
  <2>4. Ideal!Efecto(i, regs)
          = Escrito(regs, i.r1, v)
    BY <1>9 DEF Ideal!Efecto, Ideal!Resultado, Escrito
  <2> QED
    BY <2>1, <2>2, <2>3, <2>4, Escribir
<1>10. CASE i.op = "JNZ" /\ regs[i.r1] # 0
  <2>1. obtener_registro(i.r1, regs) = regs[i.r1]
    BY <1>2, <1>10 DEF Leidos
  <2>2. decode_execute(i, regs)
          = [set_registro(regs, "PC", i.n) EXCEPT !["PC"] = uint32(@ + 1)]
    BY <1>1, <1>10, <2>1 DEF decode_execute
  <2>3. uint32(uint32(i.n - 2) + 1) = Ideal!En32(i.n - 1)
    <3>1. uint32(uint32(i.n - 2) + 1) = uint32(i.n - 1)
      BY <1>3 DEF uint32
    <3> QED
      BY <1>3, <3>1, Resto DEF Ideal!En32
  <2>4. Ideal!Efecto(i, regs) = [regs EXCEPT !["PC"] = Ideal!En32(i.n - 1)]
    BY <1>10 DEF Ideal!Efecto
  <2> QED
    BY <2>2, <2>3, <2>4 DEF set_registro, t_register, Nombres
<1>11. CASE /\ i.op \notin {"SET", "READ_MEM", "SUM", "SUB"}
            /\ ~(i.op = "JNZ" /\ regs[i.r1] # 0)
  <2>1. ~(i.op = "JNZ" /\ obtener_registro(i.r1, regs) # 0)
    BY <1>2, <1>11 DEF Leidos
  <2>2. decode_execute(i, regs) = [regs EXCEPT !["PC"] = uint32(@ + 1)]
    BY <1>1, <1>11, <2>1 DEF decode_execute
  <2>3. Ideal!Efecto(i, regs) = [regs EXCEPT !["PC"] = Ideal!En32(@ + 1)]
    BY <1>11 DEF Ideal!Efecto
  <2> QED
    BY <1>5, <2>2, <2>3
<1> QED
  BY <1>6, <1>7, <1>8, <1>9, <1>10, <1>11

=============================================================================
