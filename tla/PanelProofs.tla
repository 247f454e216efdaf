----------------------------- MODULE PanelProofs -----------------------------
(***************************************************************************)
(* Proofs about the panel application, for every length of the line, every *)
(* waiting time and every set of keys pressed.                             *)
(***************************************************************************)
EXTENDS Panel, TLAPS

USE PanelAssumption

(***************************************************************************)
(* The inductive invariant.  Each function of the editor takes a keypad    *)
(* that is fine to one that is; what it needs beyond the properties is     *)
(* that a key being pressed is a digit, that the message scrolled ends in  *)
(* the array, and that nothing is being written in the settings.           *)
(***************************************************************************)
LetterFine(e) ==
  LET n == e.matrix_aux[e.boton_actual]
  IN /\ n \in 1 .. Columns(e.boton_actual)
     /\ e.boton_actual \in LetterKeys => (e.mayus <=> n % 2 = 0)

LineFine(e) == e.cursor <= Last /\ e.mensaje_buffer[Last] = NUL

EditorFine(e) ==
  /\ e \in Keypad
  /\ LineFine(e)
  /\ e.flag_escribiendo => /\ e.cursor < Last
                           /\ e.boton_actual \in Digits
                           /\ LetterFine(e)

\* SHIFT steps matrix_aux[1] through the values and one beyond.
SettingFine(e) ==
  /\ e.state # "VELOCIDAD" => e.flag_inicializacion
  /\ e.state # "ACTIVO" => ~e.flag_escribiendo /\ e.cursor = 0
  /\ e.state \in {"VELOCIDAD", "INTENSIDAD"} =>
       LET n == e.matrix_aux[1]
       IN /\ e.flag_inicializacion => n \in 1 .. 6
          /\ ~e.flag_inicializacion => n = 0
          /\ n > 1 => e.valor = n - 1
  /\ e.state = "MODO" => /\ e.matrix_aux[1] \in 0 .. 3
                         /\ e.matrix_aux[1] > 0 => e.valor = e.matrix_aux[1]

ScrollFine ==
  /\ mensaje_actual[Last] = NUL
  /\ scroll.c <= Last /\ scroll.i <= Last

PanelInv == TypeOK /\ EditorFine(k) /\ SettingFine(k) /\ ScrollFine

(***************************************************************************)
(* The helpers of the editor                                               *)
(***************************************************************************)
LEMMA Sizes ==
  /\ Last \in 1 .. 254 /\ Digits \subseteq Buttons /\ LetterKeys \subseteq Digits
  /\ 0 \in Digits /\ 1 \in Digits /\ Empty \notin Digits
  /\ \A b \in Digits : Columns(b) \in {6, 8, 10}
  /\ MAX_TIME_WAITING \in Nat
BY DEF PanelAssumption, Last, Digits, Buttons, LetterKeys, Empty, Columns

\* What the functions of the editor never touch.
SameSettings(e, f) ==
  /\ f.state = e.state
  /\ f.flag_inicializacion = e.flag_inicializacion
  /\ f.conteo_funcionalidad = e.conteo_funcionalidad

\* ... and, besides, everything but the counts.
SameKeys(e, f) ==
  /\ f.cursor = e.cursor /\ f.mensaje_buffer = e.mensaje_buffer
  /\ f.shift = e.shift /\ f.mayus = e.mayus /\ f.first_touch = e.first_touch
  /\ f.flag_escribiendo = e.flag_escribiendo
  /\ f.boton_actual = e.boton_actual /\ f.boton_seleccionado = e.boton_seleccionado

\* Only the digit's entry of matrix_aux changes, and it wraps at 256.
LEMMA WithCountIs ==
  ASSUME NEW e \in Keypad, e.boton_actual \in Digits, NEW n \in Int
  PROVE  /\ WithCount(e, n) \in Keypad
         /\ WithCount(e, n).matrix_aux[e.boton_actual] = n % 256
         /\ SameKeys(e, WithCount(e, n)) /\ SameSettings(e, WithCount(e, n))
<1> DEFINE counts == [e.matrix_aux EXCEPT ![e.boton_actual] = n % 256]
<1>1. e.matrix_aux \in [Digits -> uint8] /\ n % 256 \in uint8
  BY DEF Keypad, uint8
<1>2. counts \in [Digits -> uint8] /\ counts[e.boton_actual] = n % 256
  BY <1>1
<1>3. WithCount(e, n) = [e EXCEPT !.matrix_aux = counts]
  BY DEF WithCount
<1> HIDE DEF counts
<1>4. [e EXCEPT !.matrix_aux = counts] \in Keypad
      /\ [e EXCEPT !.matrix_aux = counts].matrix_aux = counts
  BY <1>2 DEF Keypad
<1>5. /\ SameKeys(e, [e EXCEPT !.matrix_aux = counts])
      /\ SameSettings(e, [e EXCEPT !.matrix_aux = counts])
  BY DEF Keypad, SameKeys, SameSettings
<1> QED
  BY <1>2, <1>3, <1>4, <1>5

\* After the key is done with nothing is being written.
LEMMA ReleasedIs ==
  ASSUME NEW e \in Keypad
  PROVE  /\ Released(e) \in Keypad
         /\ ~Released(e).flag_escribiendo
         /\ Released(e).cursor = e.cursor
         /\ Released(e).mensaje_buffer = e.mensaje_buffer
         /\ Released(e).state = e.state
         /\ Released(e).boton_seleccionado = Empty
         /\ Released(e).flag_inicializacion = e.flag_inicializacion
         /\ Released(e).conteo_funcionalidad = e.conteo_funcionalidad
<1> DEFINE counts == IF e.boton_actual = Empty THEN e.matrix_aux
                     ELSE [e.matrix_aux EXCEPT ![e.boton_actual] = 0]
<1>0. e.matrix_aux \in [Digits -> uint8] /\ 0 \in uint8 /\ 0 \in 0 .. MAX_TIME_WAITING
  BY Sizes DEF Keypad, uint8
<1>1. counts \in [Digits -> uint8]
  BY <1>0
<1> HIDE DEF counts
<1> DEFINE r == [e EXCEPT !.conteo_salto = 0, !.flag_escribiendo = FALSE, !.matrix_aux = counts,
                          !.boton_actual = Empty, !.boton_seleccionado = Empty]
<1>2. r \in Keypad
  BY <1>0, <1>1 DEF Keypad
<1>3. /\ ~r.flag_escribiendo /\ r.cursor = e.cursor /\ r.mensaje_buffer = e.mensaje_buffer
      /\ r.state = e.state /\ r.boton_seleccionado = Empty
      /\ r.flag_inicializacion = e.flag_inicializacion
      /\ r.conteo_funcionalidad = e.conteo_funcionalidad
  BY DEF Keypad
<1>4. Released(e) = r
  BY DEF Released, Keypad, counts
<1> QED
  BY <1>2, <1>3, <1>4

LEMMA ReleasedFine ==
  ASSUME NEW e, EditorFine(e)
  PROVE  EditorFine(Released(e))
BY ReleasedIs DEF EditorFine, LineFine

\* A place of the line before the last may be written; the terminator stays.
LEMMA WrittenLine ==
  ASSUME NEW line \in Message, line[Last] = NUL, NEW i \in 0 .. Last, i # Last,
         NEW c \in {NUL, Blank, Char}
  PROVE  [line EXCEPT ![i] = c] \in Message /\ [line EXCEPT ![i] = c][Last] = NUL
BY Sizes DEF Message

\* The same character in every place but that of the terminator.
LEMMA FilledLine ==
  ASSUME NEW line \in Message, line[Last] = NUL, NEW c \in {NUL, Blank, Char}
  PROVE  LET filled == [i \in 0 .. Last |-> IF i = Last THEN line[i] ELSE c]
         IN filled \in Message /\ filled[Last] = NUL
<1>1. Last \in 0 .. Last /\ \A i \in 0 .. Last : line[i] \in {NUL, Blank, Char}
  BY Sizes DEF Message
<1> QED
  BY <1>1 DEF Message

(***************************************************************************)
(* The functions of the editor                                             *)
(***************************************************************************)
LEMMA TimeFine ==
  ASSUME NEW e, EditorFine(e)
  PROVE  /\ EditorFine(Timed(e))
         /\ Timed(e).state = e.state
         /\ Timed(e).flag_inicializacion = e.flag_inicializacion
         /\ Timed(e).conteo_funcionalidad = e.conteo_funcionalidad
<1>1. e \in Keypad /\ LineFine(e)
  BY DEF EditorFine
<1>2. CASE ~e.flag_escribiendo
  BY <1>2 DEF Timed
<1>3. CASE e.flag_escribiendo /\ e.conteo_salto < MAX_TIME_WAITING
  <2> DEFINE r == [e EXCEPT !.conteo_salto = @ + 1]
  <2>1. e.conteo_salto + 1 \in 0 .. MAX_TIME_WAITING
    BY <1>1, <1>3, Sizes DEF Keypad
  <2>2. r \in Keypad
    BY <1>1, <2>1 DEF Keypad
  <2>3. EditorFine(r)
    BY <1>1, <2>2 DEF EditorFine, LineFine, LetterFine, Keypad
  <2>4. Timed(e) = r
    BY <1>3 DEF Timed, contar_tiempo
  <2> QED
    BY <1>1, <2>3, <2>4 DEF Keypad
<1>4. CASE e.flag_escribiendo /\ ~(e.conteo_salto < MAX_TIME_WAITING)
  <2> DEFINE d == Released(e)
             r == [d EXCEPT !.cursor = (@ + 1) % 256]
  <2>1. /\ d \in Keypad /\ ~d.flag_escribiendo /\ d.cursor = e.cursor
        /\ d.mensaje_buffer = e.mensaje_buffer /\ d.state = e.state
        /\ d.flag_inicializacion = e.flag_inicializacion
        /\ d.conteo_funcionalidad = e.conteo_funcionalidad
    BY <1>1, ReleasedIs
  <2> HIDE DEF d
  <2>2. d.cursor \in 0 .. 255 /\ d.cursor < Last
    BY <1>1, <1>4, <2>1 DEF EditorFine, Keypad, uint8
  <2>3. (d.cursor + 1) % 256 = d.cursor + 1 /\ d.cursor + 1 \in uint8 /\ d.cursor + 1 <= Last
    BY <2>2, Sizes DEF uint8
  <2>4. r \in Keypad
    BY <2>1, <2>3 DEF Keypad
  <2>5. EditorFine(r)
    BY <2>1, <2>3, <2>4, <1>1 DEF EditorFine, LineFine, Keypad
  <2>6. Timed(e) = r
    BY <1>4 DEF Timed, contar_tiempo, d
  <2> QED
    BY <2>1, <2>5, <2>6 DEF Keypad
<1> QED
  BY <1>2, <1>3, <1>4
\* A key has been pressed and is about to be written; until the first time of
\* a letter key is dealt with its count may be anything.
Pressed(e) ==
  /\ e \in Keypad
  /\ LineFine(e) /\ e.cursor < Last
  /\ e.flag_escribiendo /\ e.boton_actual \in Digits
  /\ e.boton_actual \notin LetterKeys \/ e.first_touch \/ LetterFine(e)

LEMMA CheckPressed ==
  ASSUME NEW e, EditorFine(e), e.cursor < Last, e.boton_seleccionado \in Digits
  PROVE  Pressed(check_boton_anterior(e)) /\ SameSettings(e, check_boton_anterior(e))
<1>1. e \in Keypad /\ LineFine(e)
  BY DEF EditorFine
<1>2. CASE e.flag_escribiendo /\ e.boton_actual # e.boton_seleccionado
  <2> DEFINE d == WithCount(e, 0)
             r == [d EXCEPT !.first_touch = TRUE, !.boton_actual = e.boton_seleccionado]
  <2>1. e.boton_actual \in Digits
    BY <1>2 DEF EditorFine
  <2>2. d \in Keypad /\ SameKeys(e, d) /\ SameSettings(e, d)
    BY <1>1, <2>1, WithCountIs
  <2> HIDE DEF d
  <2>4. r \in Keypad
    BY <2>2, <1>1 DEF Keypad
  <2>5. Pressed(r) /\ SameSettings(d, r)
    BY <1>1, <1>2, <2>2, <2>4 DEF Pressed, LineFine, Keypad, SameKeys, SameSettings
  <2>6. check_boton_anterior(e) = r
    BY <1>2 DEF check_boton_anterior, d
  <2> QED
    BY <2>2, <2>5, <2>6 DEF SameSettings
<1>3. CASE ~e.flag_escribiendo
  <2> DEFINE r == [e EXCEPT !.flag_escribiendo = TRUE, !.first_touch = TRUE,
                            !.boton_actual = e.boton_seleccionado]
  <2>1. r \in Keypad
    BY <1>1 DEF Keypad
  <2>2. Pressed(r) /\ SameSettings(e, r)
    BY <1>1, <2>1 DEF Pressed, LineFine, Keypad, SameSettings
  <2> QED
    BY <1>3, <2>2 DEF check_boton_anterior
<1>4. CASE e.flag_escribiendo /\ e.boton_actual = e.boton_seleccionado
  BY <1>1, <1>4 DEF check_boton_anterior, EditorFine, Pressed, SameSettings
<1> QED
  BY <1>2, <1>3, <1>4

\* A new count for the key that is pressed.
LEMMA CountPressed ==
  ASSUME NEW e, Pressed(e), NEW n \in Int,
         \/ e.boton_actual \notin LetterKeys
         \/ e.first_touch
         \/ n \in 1 .. Columns(e.boton_actual) /\ (e.mayus <=> n % 2 = 0)
  PROVE  Pressed(WithCount(e, n)) /\ SameSettings(e, WithCount(e, n))
         /\ SameKeys(e, WithCount(e, n))
<1> DEFINE d == WithCount(e, n)
<1>1. /\ e \in Keypad /\ e.boton_actual \in Digits
      /\ d \in Keypad /\ d.matrix_aux[e.boton_actual] = n % 256
      /\ SameKeys(e, d) /\ SameSettings(e, d)
  BY WithCountIs DEF Pressed
<1>2. /\ d.boton_actual = e.boton_actual /\ d.first_touch = e.first_touch /\ d.mayus = e.mayus
      /\ d.cursor = e.cursor /\ d.mensaje_buffer = e.mensaje_buffer
      /\ d.flag_escribiendo = e.flag_escribiendo
  BY <1>1 DEF SameKeys
<1> HIDE DEF d
<1>3. CASE n \in 1 .. Columns(e.boton_actual) /\ (e.mayus <=> n % 2 = 0)
  <2>1. n % 256 = n
    BY <1>3, <1>1, Sizes
  <2>2. LetterFine(d)
    BY <1>1, <1>2, <1>3, <2>1 DEF LetterFine
  <2> QED
    BY <1>1, <1>2, <2>2 DEF Pressed, LineFine, d
<1>4. CASE e.boton_actual \notin LetterKeys \/ e.first_touch
  BY <1>1, <1>2, <1>4 DEF Pressed, LineFine, d
<1> QED
  BY <1>3, <1>4
\* SHIFT moves to the other case of the same letter.
LEMMA CasePressed ==
  ASSUME NEW e, Pressed(e), e.boton_actual \in LetterKeys
  PROVE  /\ Pressed(mayusculas(e)) /\ SameSettings(e, mayusculas(e))
         /\ mayusculas(e).boton_actual = e.boton_actual
<1>1. CASE ~e.shift
  BY <1>1 DEF mayusculas, SameSettings
<1>2. CASE e.shift
  <2> DEFINE n == IF e.mayus THEN Count(e) - 1 ELSE Count(e) + 1
             d == WithCount(e, n)
             r == [d EXCEPT !.mayus = ~@, !.shift = FALSE]
  <2>1. e \in Keypad /\ e.boton_actual \in Digits /\ Count(e) \in 0 .. 255
    BY DEF Pressed, Keypad, uint8, Count
  <2>2. ~e.first_touch => n \in 1 .. Columns(e.boton_actual) /\ (~e.mayus <=> n % 2 = 0)
                          /\ n % 256 = n
    <3> SUFFICES ASSUME ~e.first_touch
                 PROVE  n \in 1 .. Columns(e.boton_actual) /\ (~e.mayus <=> n % 2 = 0)
                        /\ n % 256 = n
      OBVIOUS
    <3>1. Count(e) \in 1 .. Columns(e.boton_actual) /\ (e.mayus <=> Count(e) % 2 = 0)
      BY DEF Pressed, LetterFine, Count
    <3>2. Columns(e.boton_actual) \in {6, 8, 10}
      BY <2>1, Sizes
    <3> QED
      BY <3>1, <3>2
  <2>3. n \in Int
    BY <2>1
  <2> HIDE DEF n
  <2>4. d \in Keypad /\ d.matrix_aux[e.boton_actual] = n % 256 /\ SameKeys(e, d) /\ SameSettings(e, d)
    BY <2>1, <2>3, WithCountIs
  <2> HIDE DEF d
  <2>5. /\ r \in Keypad /\ r.matrix_aux = d.matrix_aux /\ r.mayus = ~e.mayus
        /\ r.boton_actual = e.boton_actual /\ r.first_touch = e.first_touch
        /\ r.cursor = e.cursor /\ r.mensaje_buffer = e.mensaje_buffer
        /\ r.flag_escribiendo = e.flag_escribiendo
    BY <2>4 DEF Keypad, SameKeys
  <2>6. SameSettings(e, r)
    BY <2>4 DEF Keypad, SameSettings
  <2>7. e.first_touch \/ LetterFine(r)
    <3> SUFFICES ASSUME ~e.first_touch PROVE LetterFine(r)
      OBVIOUS
    <3>1. r.matrix_aux[r.boton_actual] = n
      BY <2>2, <2>4, <2>5
    <3> HIDE DEF r
    <3> QED
      BY <3>1, <2>2, <2>5 DEF LetterFine
  <2>8. Pressed(r)
    BY <2>5, <2>7 DEF Pressed, LineFine
  <2>9. mayusculas(e) = r
    BY <1>2 DEF mayusculas, d, n
  <2> QED
    BY <2>5, <2>6, <2>8, <2>9
<1> QED
  BY <1>1, <1>2

\* The next letter has the same case and stays within the row.
LEMMA NextPressed ==
  ASSUME NEW e, Pressed(e), e.boton_actual \in LetterKeys
  PROVE  /\ Pressed(movimiento_ciclico(e)) /\ SameSettings(e, movimiento_ciclico(e))
         /\ movimiento_ciclico(e).boton_actual = e.boton_actual
<1> DEFINE top == Columns(e.boton_actual) - (IF e.mayus THEN 0 ELSE 1)
           n == IF Count(e) < top THEN Count(e) + 2 ELSE IF e.mayus THEN 2 ELSE 1
<1>1. Count(e) \in 0 .. 255 /\ Columns(e.boton_actual) \in {6, 8, 10}
  BY Sizes DEF Pressed, Keypad, uint8, Count
<1>2. LetterFine(e) => n \in 1 .. Columns(e.boton_actual) /\ (e.mayus <=> n % 2 = 0)
  BY <1>1 DEF LetterFine, Count
<1>3. n \in Int
  BY <1>1
<1>4. e.first_touch \/ LetterFine(e)
  BY DEF Pressed
<1>5. movimiento_ciclico(e) = WithCount(e, n)
  BY DEF movimiento_ciclico
<1> HIDE DEF n
<1> QED
  BY <1>2, <1>3, <1>4, <1>5, CountPressed DEF SameKeys

\* The first letter of a key is of the case the keypad is in.
LEMMA FirstPressed ==
  ASSUME NEW e, Pressed(e), e.boton_actual \in LetterKeys
  PROVE  /\ Pressed(primera_vez(e)) /\ SameSettings(e, primera_vez(e))
         /\ primera_vez(e).boton_actual = e.boton_actual
         /\ LetterFine(primera_vez(e))
<1>1. CASE ~e.first_touch
  BY <1>1 DEF primera_vez, SameSettings, Pressed
<1>2. CASE e.first_touch
  <2> DEFINE n == IF e.mayus THEN 2 ELSE 1
             d == WithCount(e, n)
             r == [d EXCEPT !.first_touch = FALSE]
  <2>1. /\ n \in Int /\ n % 256 = n /\ n \in 1 .. Columns(e.boton_actual)
        /\ e.mayus <=> n % 2 = 0
    BY Sizes DEF Pressed
  <2>2. e \in Keypad /\ e.boton_actual \in Digits
    BY DEF Pressed
  <2> HIDE DEF n
  <2>3. d \in Keypad /\ d.matrix_aux[e.boton_actual] = n /\ SameKeys(e, d) /\ SameSettings(e, d)
    BY <2>1, <2>2, WithCountIs
  <2> HIDE DEF d
  <2>4. /\ r \in Keypad /\ r.matrix_aux = d.matrix_aux /\ r.mayus = e.mayus
        /\ r.boton_actual = e.boton_actual
        /\ r.cursor = e.cursor /\ r.mensaje_buffer = e.mensaje_buffer
        /\ r.flag_escribiendo = e.flag_escribiendo
    BY <2>3 DEF Keypad, SameKeys
  <2>5. SameSettings(e, r)
    BY <2>3 DEF Keypad, SameSettings
  <2>6. LetterFine(r)
    BY <2>1, <2>3, <2>4 DEF LetterFine
  <2>7. Pressed(r)
    BY <2>4, <2>6 DEF Pressed, LineFine
  <2>8. primera_vez(e) = r
    BY <1>2 DEF primera_vez, d, n
  <2> QED
    BY <2>4, <2>5, <2>6, <2>7, <2>8
<1> QED
  BY <1>1, <1>2

LEMMA WrittenFine ==
  ASSUME NEW e, Pressed(e), LetterFine(e)
  PROVE  EditorFine(escribir_buffer(e)) /\ SameSettings(e, escribir_buffer(e))
<1> DEFINE c == get_charmap(e.boton_actual, Count(e))
           line == [e.mensaje_buffer EXCEPT ![e.cursor] = c]
           r == [e EXCEPT !.mensaje_buffer = line, !.conteo_salto = 0]
<1>1. /\ e \in Keypad /\ e.mensaje_buffer \in Message /\ e.mensaje_buffer[Last] = NUL
      /\ e.cursor \in 0 .. Last /\ e.cursor # Last
  BY Sizes DEF Pressed, LineFine, Keypad, uint8
<1>2. c \in {NUL, Blank, Char}
  BY DEF get_charmap
<1> HIDE DEF c
<1>3. line \in Message /\ line[Last] = NUL
  BY <1>1, <1>2, WrittenLine
<1>4. 0 \in 0 .. MAX_TIME_WAITING
  BY Sizes
<1>5. escribir_buffer(e) = r
  BY DEF escribir_buffer, c
<1> HIDE DEF line
<1>6. r \in Keypad
  BY <1>1, <1>3, <1>4 DEF Keypad
<1>7. /\ r.mensaje_buffer = line /\ r.cursor = e.cursor /\ r.boton_actual = e.boton_actual
      /\ r.matrix_aux = e.matrix_aux /\ r.mayus = e.mayus /\ SameSettings(e, r)
  BY <1>1 DEF Keypad, SameSettings
<1> QED
  BY <1>3, <1>5, <1>6, <1>7 DEF EditorFine, LineFine, LetterFine, Pressed
LEMMA NumbersFine ==
  ASSUME NEW e, EditorFine(e), e.cursor < Last
  PROVE  /\ EditorFine(funcionalidad_numeros(e))
         /\ SameSettings(e, funcionalidad_numeros(e))
<1>1. CASE e.boton_seleccionado \notin 0 .. 9
  BY <1>1 DEF funcionalidad_numeros, SameSettings
<1>2. CASE e.boton_seleccionado \in 0 .. 9
  <2> DEFINE a == check_boton_anterior(e)
  <2>1. Pressed(a) /\ SameSettings(e, a)
    BY <1>2, CheckPressed DEF Digits
  <2> HIDE DEF a
  <2>2. CASE a.boton_actual \in LetterKeys
    <3> DEFINE b == mayusculas(a)
               c == movimiento_ciclico(b)
               d == primera_vez(c)
    <3>1. Pressed(b) /\ SameSettings(a, b) /\ b.boton_actual = a.boton_actual
      BY <2>1, <2>2, CasePressed
    <3> HIDE DEF b
    <3>2. Pressed(c) /\ SameSettings(b, c) /\ c.boton_actual = a.boton_actual
      BY <2>2, <3>1, NextPressed
    <3> HIDE DEF c
    <3>3. Pressed(d) /\ SameSettings(c, d) /\ LetterFine(d)
      BY <2>2, <3>2, FirstPressed
    <3> HIDE DEF d
    <3>4. EditorFine(escribir_buffer(d)) /\ SameSettings(d, escribir_buffer(d))
      BY <3>3, WrittenFine
    <3>5. funcionalidad_numeros(e) = escribir_buffer(d)
      BY <1>2, <2>2 DEF funcionalidad_numeros, a, b, c, d
    <3> QED
      BY <2>1, <3>1, <3>2, <3>3, <3>4, <3>5 DEF SameSettings
  <2>3. CASE a.boton_actual \notin LetterKeys
    <3> DEFINE n == IF Count(a) < 10 THEN Count(a) + 1 ELSE 1
               d == WithCount(a, n)
    <3>1. a \in Keypad /\ a.boton_actual \in Digits /\ Count(a) \in 0 .. 255
      BY <2>1 DEF Pressed, Keypad, uint8, Count
    <3>2. n \in 1 .. 10 /\ n % 256 = n /\ Columns(a.boton_actual) = 10
      BY <3>1, <2>3 DEF Columns, LetterKeys, Digits
    <3> HIDE DEF n
    <3>3. Pressed(d) /\ SameSettings(a, d) /\ SameKeys(a, d)
      BY <2>1, <2>3, <3>2, CountPressed
    <3>4. d.matrix_aux[a.boton_actual] = n
      BY <3>1, <3>2, WithCountIs
    <3> HIDE DEF d
    <3>5. LetterFine(d)
      BY <2>3, <3>2, <3>3, <3>4 DEF LetterFine, SameKeys
    <3>6. EditorFine(escribir_buffer(d)) /\ SameSettings(d, escribir_buffer(d))
      BY <3>3, <3>5, WrittenFine
    <3>7. funcionalidad_numeros(e) = escribir_buffer(d)
      BY <1>2, <2>3 DEF funcionalidad_numeros, a, d, n
    <3> QED
      BY <2>1, <3>3, <3>6, <3>7 DEF SameSettings
  <2> QED
    BY <2>2, <2>3
<1> QED
  BY <1>1, <1>2

\* A key that moves the cursor within the line, to no place behind the last one
\* that is written in.
LEMMA MovedFine ==
  ASSUME NEW e, EditorFine(e), NEW i \in 0 .. Last, e.flag_escribiendo => i < Last
  PROVE  EditorFine([e EXCEPT !.cursor = i]) /\ SameSettings(e, [e EXCEPT !.cursor = i])
<1> DEFINE r == [e EXCEPT !.cursor = i]
<1>1. e \in Keypad /\ i \in uint8 /\ i <= Last
  BY Sizes DEF EditorFine, uint8
<1>2. r \in Keypad
  BY <1>1 DEF Keypad
<1>3. /\ r.cursor = i /\ r.mensaje_buffer = e.mensaje_buffer
      /\ r.flag_escribiendo = e.flag_escribiendo /\ r.boton_actual = e.boton_actual
      /\ r.matrix_aux = e.matrix_aux /\ r.mayus = e.mayus /\ SameSettings(e, r)
  BY <1>1 DEF Keypad, SameSettings
<1> QED
  BY <1>1, <1>2, <1>3 DEF EditorFine, LineFine, LetterFine

LEMMA ConfirmFine ==
  ASSUME NEW e, EditorFine(e)
  PROVE  /\ EditorFine(funcionalidad_confirmar(e))
         /\ SameSettings(e, funcionalidad_confirmar(e))
<1>1. CASE e.boton_seleccionado = CONFIRMAR /\ e.flag_escribiendo /\ e.cursor < Last
  <2> DEFINE d == Released(e)
  <2>1. EditorFine(d) /\ SameSettings(e, d) /\ d.cursor = e.cursor /\ ~d.flag_escribiendo
        /\ d \in Keypad
    BY ReleasedFine, ReleasedIs DEF EditorFine, SameSettings
  <2>2. funcionalidad_confirmar(e) = [d EXCEPT !.cursor = d.cursor + 1]
    BY <1>1 DEF funcionalidad_confirmar
  <2> HIDE DEF d
  <2>3. d.cursor + 1 \in 0 .. Last
    <3>1. d.cursor \in 0 .. 255 /\ d.cursor < Last
      BY <1>1, <2>1 DEF Keypad, uint8
    <3> QED
      BY <3>1, Sizes
  <2> QED
    BY <2>1, <2>2, <2>3, MovedFine DEF SameSettings
<1>2. CASE ~(e.boton_seleccionado = CONFIRMAR /\ e.flag_escribiendo /\ e.cursor < Last)
  BY <1>2 DEF funcionalidad_confirmar, SameSettings
<1> QED
  BY <1>1, <1>2

LEMMA RightFine ==
  ASSUME NEW e, EditorFine(e)
  PROVE  /\ EditorFine(funcionalidad_derecha(e))
         /\ SameSettings(e, funcionalidad_derecha(e))
<1> DEFINE Moves == /\ e.boton_seleccionado = DERECHA
                    /\ e.cursor < Last /\ e.mensaje_buffer[e.cursor + 1] # NUL
<1>1. CASE Moves
  <2>1. e.cursor + 1 \in 0 .. Last /\ e.cursor + 1 # Last
    BY <1>1, Sizes DEF EditorFine, LineFine, Keypad, uint8
  <2>2. funcionalidad_derecha(e) = [e EXCEPT !.cursor = e.cursor + 1]
    BY <1>1 DEF funcionalidad_derecha
  <2> QED
    BY <2>1, <2>2, Sizes, MovedFine
<1>2. CASE ~Moves
  BY <1>2 DEF funcionalidad_derecha, SameSettings
<1> QED
  BY <1>1, <1>2

LEMMA ShiftFine ==
  ASSUME NEW e, EditorFine(e)
  PROVE  /\ EditorFine(funcionalidad_shift(e))
         /\ SameSettings(e, funcionalidad_shift(e))
<1>1. CASE e.boton_seleccionado = SHIFT
  <2> DEFINE r == [e EXCEPT !.shift = ~@]
  <2>1. e \in Keypad
    BY DEF EditorFine
  <2>2. r \in Keypad
    BY <2>1 DEF Keypad
  <2>3. /\ r.cursor = e.cursor /\ r.mensaje_buffer = e.mensaje_buffer
        /\ r.flag_escribiendo = e.flag_escribiendo /\ r.boton_actual = e.boton_actual
        /\ r.matrix_aux = e.matrix_aux /\ r.mayus = e.mayus /\ SameSettings(e, r)
    BY <2>1 DEF Keypad, SameSettings
  <2>4. EditorFine(r)
    BY <2>2, <2>3 DEF EditorFine, LineFine, LetterFine
  <2> QED
    BY <1>1, <2>3, <2>4 DEF funcionalidad_shift
<1>2. CASE e.boton_seleccionado # SHIFT
  BY <1>2 DEF funcionalidad_shift, SameSettings
<1> QED
  BY <1>1, <1>2

LEMMA EraseFine ==
  ASSUME NEW e, EditorFine(e), e.cursor > 0
  PROVE  /\ EditorFine(funcionalidad_borrar_cancelar(e))
         /\ SameSettings(e, funcionalidad_borrar_cancelar(e))
         /\ funcionalidad_borrar_cancelar(e).boton_seleccionado = IZQUIERDA =>
              funcionalidad_borrar_cancelar(e) = e
<1>1. CASE e.boton_seleccionado = BORRAR
  <2> DEFINE a == IF e.flag_escribiendo THEN Released(e) ELSE [e EXCEPT !.cursor = (@ - 1) % 256]
             line == [a.mensaje_buffer EXCEPT ![a.cursor] = Blank]
             r == [a EXCEPT !.mensaje_buffer = line]
  <2>1. e \in Keypad /\ e.cursor \in 1 .. Last
    BY Sizes DEF EditorFine, LineFine, Keypad, uint8
  <2>2. /\ EditorFine(a) /\ ~a.flag_escribiendo /\ SameSettings(e, a) /\ a.cursor # Last
        /\ a.boton_seleccionado # IZQUIERDA
    <3>1. CASE e.flag_escribiendo
      BY <3>1, <2>1, ReleasedIs, ReleasedFine DEF EditorFine, SameSettings, Empty, IZQUIERDA
    <3>2. CASE ~e.flag_escribiendo
      <4>1. (e.cursor - 1) % 256 = e.cursor - 1 /\ e.cursor - 1 \in 0 .. Last /\ e.cursor - 1 # Last
        BY <2>1, Sizes
      <4>2. a = [e EXCEPT !.cursor = e.cursor - 1]
        BY <3>2, <4>1
      <4>3. EditorFine(a) /\ SameSettings(e, a)
        BY <3>2, <4>1, <4>2, MovedFine
      <4>4. /\ a.cursor = e.cursor - 1 /\ a.flag_escribiendo = e.flag_escribiendo
            /\ a.boton_seleccionado = BORRAR
        BY <1>1, <4>2, <2>1 DEF Keypad
      <4> QED
        BY <3>2, <4>1, <4>3, <4>4 DEF BORRAR, IZQUIERDA
    <3> QED
      BY <3>1, <3>2
  <2> HIDE DEF a
  <2>3. /\ a \in Keypad /\ a.mensaje_buffer \in Message /\ a.mensaje_buffer[Last] = NUL
        /\ a.cursor \in 0 .. Last
    BY <2>2, Sizes DEF EditorFine, LineFine, Keypad, uint8
  <2>4. line \in Message /\ line[Last] = NUL
    BY <2>2, <2>3, WrittenLine
  <2> HIDE DEF line
  <2>5. r \in Keypad /\ r.mensaje_buffer = line /\ r.cursor = a.cursor
        /\ r.flag_escribiendo = a.flag_escribiendo /\ SameSettings(a, r)
        /\ r.boton_seleccionado = a.boton_seleccionado
    BY <2>3, <2>4 DEF Keypad, SameSettings
  <2>6. EditorFine(r) /\ SameSettings(e, r)
    BY <2>2, <2>4, <2>5 DEF EditorFine, LineFine, SameSettings
  <2>7. funcionalidad_borrar_cancelar(e) = r
    BY <1>1 DEF funcionalidad_borrar_cancelar, a, line
  <2> QED
    BY <2>2, <2>5, <2>6, <2>7
<1>2. CASE e.boton_seleccionado # BORRAR
  BY <1>2 DEF funcionalidad_borrar_cancelar, SameSettings
<1> QED
  BY <1>1, <1>2
LEMMA LeftFine ==
  ASSUME NEW e, EditorFine(e), e.boton_seleccionado = IZQUIERDA => e.cursor > 0
  PROVE  /\ EditorFine(funcionalidad_izquierda(e))
         /\ SameSettings(e, funcionalidad_izquierda(e))
<1>1. CASE e.boton_seleccionado = IZQUIERDA
  <2>1. e.cursor \in 1 .. Last
    BY <1>1, Sizes DEF EditorFine, LineFine, Keypad, uint8
  <2>2. (e.cursor - 1) % 256 = e.cursor - 1 /\ e.cursor - 1 \in 0 .. Last /\ e.cursor - 1 < Last
    BY <2>1, Sizes
  <2>3. funcionalidad_izquierda(e) = [e EXCEPT !.cursor = e.cursor - 1]
    BY <1>1, <2>2 DEF funcionalidad_izquierda
  <2> QED
    BY <2>2, <2>3, MovedFine
<1>2. CASE e.boton_seleccionado # IZQUIERDA
  BY <1>2 DEF funcionalidad_izquierda, SameSettings
<1> QED
  BY <1>1, <1>2

LEMMA EditedFine ==
  ASSUME NEW e, EditorFine(e)
  PROVE  EditorFine(Edited(e)) /\ SameSettings(e, Edited(e))
<1> DEFINE n == funcionalidad_numeros(e)
           c == funcionalidad_confirmar(n)
           d == funcionalidad_derecha(c)
           a == IF e.cursor < Last THEN funcionalidad_shift(d) ELSE e
           b == funcionalidad_borrar_cancelar(a)
<1>1. EditorFine(a) /\ SameSettings(e, a)
  <2>1. CASE e.cursor < Last
    <3>1. EditorFine(n) /\ SameSettings(e, n)
      BY <2>1, NumbersFine
    <3> HIDE DEF n
    <3>2. EditorFine(c) /\ SameSettings(n, c)
      BY <3>1, ConfirmFine
    <3> HIDE DEF c
    <3>3. EditorFine(d) /\ SameSettings(c, d)
      BY <3>2, RightFine
    <3> HIDE DEF d
    <3>4. EditorFine(funcionalidad_shift(d)) /\ SameSettings(d, funcionalidad_shift(d))
      BY <3>3, ShiftFine
    <3> QED
      BY <2>1, <3>1, <3>2, <3>3, <3>4 DEF SameSettings
  <2>2. CASE ~(e.cursor < Last)
    BY <2>2 DEF SameSettings
  <2> QED
    BY <2>1, <2>2
<1>2. Edited(e) = IF a.cursor > 0 THEN funcionalidad_izquierda(b) ELSE a
  BY DEF Edited
<1> HIDE DEF a
<1>3. CASE a.cursor > 0
  <2>1. /\ EditorFine(b) /\ SameSettings(a, b)
        /\ b.boton_seleccionado = IZQUIERDA => b = a
    BY <1>1, <1>3, EraseFine
  <2> HIDE DEF b
  <2>2. EditorFine(funcionalidad_izquierda(b)) /\ SameSettings(b, funcionalidad_izquierda(b))
    BY <1>3, <2>1, LeftFine
  <2> QED
    BY <1>1, <1>2, <1>3, <2>1, <2>2 DEF SameSettings
<1>4. CASE ~(a.cursor > 0)
  BY <1>1, <1>2, <1>4
<1> QED
  BY <1>3, <1>4
(***************************************************************************)
(* PeriodicTask                                                            *)
(***************************************************************************)
\* The key that is seen, and the count of the calls, are all that changes.
LEMMA SelectedFine ==
  ASSUME NEW e, EditorFine(e), NEW b \in Buttons \cup {Empty}
  PROVE  /\ EditorFine([e EXCEPT !.boton_seleccionado = b])
         /\ SameSettings(e, [e EXCEPT !.boton_seleccionado = b])
<1> DEFINE r == [e EXCEPT !.boton_seleccionado = b]
<1>1. e \in Keypad
  BY DEF EditorFine
<1>2. r \in Keypad
  BY <1>1 DEF Keypad
<1>3. /\ r.cursor = e.cursor /\ r.mensaje_buffer = e.mensaje_buffer
      /\ r.flag_escribiendo = e.flag_escribiendo /\ r.boton_actual = e.boton_actual
      /\ r.matrix_aux = e.matrix_aux /\ r.mayus = e.mayus /\ SameSettings(e, r)
  BY <1>1 DEF Keypad, SameSettings
<1> QED
  BY <1>2, <1>3 DEF EditorFine, LineFine, LetterFine

LEMMA ThirdFine ==
  ASSUME NEW e, EditorFine(e)
  PROVE  /\ EditorFine(Third(e))
         /\ Third(e).state = e.state /\ Third(e).flag_inicializacion = e.flag_inicializacion
         /\ Third(e).matrix_aux = e.matrix_aux /\ Third(e).valor = e.valor
         /\ Third(e).cursor = e.cursor /\ Third(e).flag_escribiendo = e.flag_escribiendo
<1> DEFINE r == [e EXCEPT !.conteo_funcionalidad = (@ + 1) % 3]
<1>1. e \in Keypad /\ (e.conteo_funcionalidad + 1) % 3 \in 0 .. 2
  BY DEF EditorFine, Keypad
<1>2. r \in Keypad
  BY <1>1 DEF Keypad
<1>3. /\ r.cursor = e.cursor /\ r.mensaje_buffer = e.mensaje_buffer
      /\ r.flag_escribiendo = e.flag_escribiendo /\ r.boton_actual = e.boton_actual
      /\ r.matrix_aux = e.matrix_aux /\ r.mayus = e.mayus
      /\ r.state = e.state /\ r.flag_inicializacion = e.flag_inicializacion /\ r.valor = e.valor
  BY <1>1 DEF Keypad
<1> QED
  BY <1>2, <1>3 DEF Third, EditorFine, LineFine, LetterFine

\* The message that is confirmed ends at the last place at the latest.
LEMMA ConfirmedEnds ==
  ASSUME PanelInv, NEW e, EditorFine(e)
  PROVE  Confirmed(e) \in Message /\ Confirmed(e)[Last] = NUL
<1>1. /\ e.mensaje_buffer \in Message /\ e.mensaje_buffer[Last] = NUL
      /\ e.cursor \in 0 .. Last
  BY Sizes DEF EditorFine, LineFine, Keypad, uint8
<1>2. mensaje_actual \in Message /\ mensaje_actual[Last] = NUL
  BY DEF PanelInv, TypeOK, ScrollFine
<1>3. Last \in 0 .. Last
  BY Sizes
<1>4. Confirmed(e) \in Message
  BY <1>1, <1>2 DEF Confirmed, Message
<1>5. Confirmed(e)[Last] = NUL
  BY <1>1, <1>2, <1>3, Sizes DEF Confirmed
<1> QED
  BY <1>4, <1>5

LEMMA SeenFine ==
  ASSUME PanelInv, NEW key \in Buttons \cup {Empty}
  PROVE  EditorFine(Seen(key)) /\ SameSettings(k, Seen(key))
<1>1. EditorFine(k) /\ k \in Keypad
  BY DEF PanelInv, EditorFine
<1> DEFINE b == IF key = Empty THEN k.boton_seleccionado ELSE key
<1>2. b \in Buttons \cup {Empty}
  BY <1>1 DEF Keypad
<1>3. Seen(key) = [k EXCEPT !.boton_seleccionado = b]
  BY DEF Seen
<1> HIDE DEF b
<1> QED
  BY <1>1, <1>2, <1>3, SelectedFine

\* One run of PeriodicTask with the panel set up.
LEMMA EditorStep ==
  ASSUME PanelInv, NEW key \in Buttons \cup {Empty}, k.state = "ACTIVO",
         obtener_funcionalidad(Seen(key)), UNCHANGED mode
  PROVE  PanelInv'
<1> DEFINE e == Seen(key)
           a == Timed(e)
           b == Edited(Third(a))
<1>1. EditorFine(e) /\ e.state = "ACTIVO" /\ e.flag_inicializacion
  BY SeenFine DEF PanelInv, SettingFine, SameSettings
<1> HIDE DEF e
<1>2. EditorFine(a) /\ a.state = "ACTIVO" /\ a.flag_inicializacion
  BY <1>1, TimeFine
<1> HIDE DEF a
<1>3. EditorFine(Third(a)) /\ Third(a).state = "ACTIVO" /\ Third(a).flag_inicializacion
  BY <1>2, ThirdFine
<1>4. EditorFine(b) /\ b.state = "ACTIVO" /\ b.flag_inicializacion /\ b \in Keypad
  BY <1>3, EditedFine DEF SameSettings, EditorFine
<1> HIDE DEF b
<1>5. EditorFine(k') /\ k'.state = "ACTIVO" /\ k'.flag_inicializacion
  <2>1. CASE k' = Third(a)
    BY <2>1, <1>3
  <2>2. CASE k' = [b EXCEPT !.boton_seleccionado = Empty]
    BY <2>2, <1>4, SelectedFine DEF SameSettings
  <2>3. CASE k' = Released(b)
    BY <2>3, <1>4, ReleasedFine, ReleasedIs
  <2> QED
    BY <2>1, <2>2, <2>3 DEF obtener_funcionalidad, e, a, b
<1>6. mensaje_actual' \in Message /\ mensaje_actual'[Last] = NUL
  <2>1. mensaje_actual' = mensaje_actual \/ mensaje_actual' = Confirmed(b)
    BY DEF obtener_funcionalidad, e, a, b
  <2> QED
    BY <2>1, <1>4, ConfirmedEnds DEF PanelInv, TypeOK, ScrollFine
<1>7. /\ scroll' \in [pc : {"off", "start", "count", "show"}, c : uint8, i : uint8]
      /\ scroll'.c <= Last /\ scroll'.i <= Last
  <2>1. scroll' = scroll \/ scroll' = [scroll EXCEPT !.pc = "start"]
    BY DEF obtener_funcionalidad
  <2> QED
    BY <2>1 DEF PanelInv, TypeOK, ScrollFine
<1>8. mode' \in uint8
  BY DEF PanelInv, TypeOK
<1>9. SettingFine(k')
  BY <1>5 DEF SettingFine
<1>10. EditorFine(k)'
  BY <1>5 DEF EditorFine, LineFine, LetterFine
<1>11. SettingFine(k)'
  BY <1>9 DEF SettingFine
<1>12. TypeOK'
  BY <1>5, <1>6, <1>7, <1>8 DEF TypeOK, EditorFine
<1>13. ScrollFine'
  BY <1>6, <1>7 DEF ScrollFine
<1> QED
  BY <1>10, <1>11, <1>12, <1>13 DEF PanelInv
\* With nothing being written, and the cursor at the start, only the type and
\* the terminator of a keypad matter to the editor.
LEMMA NotWritingFine ==
  ASSUME NEW e \in Keypad, e.cursor = 0, e.mensaje_buffer[Last] = NUL, ~e.flag_escribiendo
  PROVE  EditorFine(e)
BY Sizes DEF EditorFine, LineFine

\* A keypad that shows value v, with count n and that line.
Shown(e, n, v, line) == [e EXCEPT !.matrix_aux[1] = n, !.valor = v, !.mensaje_buffer = line]

\* Any line of characters may be shown as long as its terminator stays.
LEMMA CountShown ==
  ASSUME NEW e, EditorFine(e), NEW n \in uint8, NEW v \in uint8,
         NEW line \in Message, line[Last] = NUL, ~e.flag_escribiendo, e.cursor = 0
  PROVE  /\ EditorFine(Shown(e, n, v, line)) /\ SameSettings(e, Shown(e, n, v, line))
         /\ Shown(e, n, v, line).matrix_aux[1] = n /\ Shown(e, n, v, line).valor = v
         /\ ~Shown(e, n, v, line).flag_escribiendo /\ Shown(e, n, v, line).cursor = 0
<1> DEFINE counts == [e.matrix_aux EXCEPT ![1] = n]
           r == [e EXCEPT !.matrix_aux = counts, !.valor = v, !.mensaje_buffer = line]
<1>1. e \in Keypad
  BY DEF EditorFine
<1>2. counts \in [Digits -> uint8] /\ counts[1] = n
  BY <1>1, Sizes DEF Keypad
<1>3. Shown(e, n, v, line) = r
  BY <1>1 DEF Keypad, Shown
<1> HIDE DEF counts
<1>4. r \in Keypad
  <2> DEFINE a == [e EXCEPT !.matrix_aux = counts]
             b == [a EXCEPT !.valor = v]
  <2>1. a \in Keypad
    BY <1>1, <1>2 DEF Keypad
  <2>2. r = [b EXCEPT !.mensaje_buffer = line]
    OBVIOUS
  <2> HIDE DEF a
  <2>3. b \in Keypad
    BY <1>1, <2>1 DEF Keypad
  <2> HIDE DEF b
  <2>4. [b EXCEPT !.mensaje_buffer = line] \in Keypad
    BY <2>3 DEF Keypad
  <2> QED
    BY <2>2, <2>4
<1>5. /\ r.matrix_aux = counts /\ r.valor = v /\ r.mensaje_buffer = line /\ r.cursor = 0
      /\ ~r.flag_escribiendo /\ SameSettings(e, r)
  BY <1>1 DEF Keypad, SameSettings
<1> QED
  BY <1>2, <1>3, <1>4, <1>5, NotWritingFine
\* SHIFT: the value kept is the one shown.
LEMMA NextValueFine ==
  ASSUME NEW e, EditorFine(e), SettingFine(e), e.state # "ACTIVO", e.flag_inicializacion
  PROVE  /\ EditorFine(NextValue(e)) /\ SettingFine(NextValue(e))
         /\ NextValue(e).state = e.state
<1>1. /\ e \in Keypad /\ ~e.flag_escribiendo /\ e.cursor = 0
      /\ e.mensaje_buffer \in Message /\ e.mensaje_buffer[Last] = NUL
      /\ e.matrix_aux[1] \in 0 .. 255 /\ e.valor \in 0 .. 255
  BY Sizes DEF EditorFine, LineFine, SettingFine, Keypad, uint8
<1>2. CASE e.state = "MODO"
  <2> DEFINE n == (IF e.matrix_aux[1] > 2 THEN 0 ELSE e.matrix_aux[1]) + 1
             line == [i \in 0 .. Last |-> IF i = Last THEN e.mensaje_buffer[i] ELSE Char]
             r == Shown(e, n, n, line)
  <2>1. n \in 1 .. 3
    BY <1>1, <1>2 DEF SettingFine
  <2>2. line \in Message /\ line[Last] = NUL
    BY <1>1, FilledLine
  <2>3. NextValue(e) = r
    BY <1>2 DEF NextValue, Shown
  <2> HIDE DEF n, line
  <2>4. /\ EditorFine(r) /\ SameSettings(e, r) /\ r.matrix_aux[1] = n /\ r.valor = n
        /\ ~r.flag_escribiendo /\ r.cursor = 0
    <3>1. n \in uint8
      BY <2>1 DEF uint8
    <3> QED
      BY <1>1, <2>2, <3>1, CountShown
  <2> HIDE DEF r
  <2> QED
    BY <1>2, <2>1, <2>3, <2>4 DEF SettingFine, SameSettings
<1>3. CASE e.state \in {"VELOCIDAD", "INTENSIDAD"}
  <2> DEFINE n == IF e.valor > 4 /\ e.matrix_aux[1] > 4 THEN 1 ELSE e.matrix_aux[1]
             c == get_charmap(1, n + 1)
             line == [e.mensaje_buffer EXCEPT ![0] = c]
             r == Shown(e, n + 1, n, line)
  <2>1. n \in 1 .. 5
    BY <1>1, <1>3 DEF SettingFine
  <2>2. NextValue(e) = r
    BY <1>1, <1>3 DEF NextValue, Keypad, Shown
  <2>3. c \in {NUL, Blank, Char}
    BY DEF get_charmap
  <2> HIDE DEF n, c
  <2>4. line \in Message /\ line[Last] = NUL
    <3>1. 0 \in 0 .. Last /\ 0 # Last
      BY Sizes
    <3> QED
      <4>1. e.mensaje_buffer \in Message /\ e.mensaje_buffer[Last] = NUL
        BY <1>1 DEF Keypad
      <4> QED
        BY <4>1, <2>3, <3>1, WrittenLine
  <2> HIDE DEF line
  <2>5. /\ EditorFine(r) /\ SameSettings(e, r) /\ r.matrix_aux[1] = n + 1 /\ r.valor = n
        /\ ~r.flag_escribiendo /\ r.cursor = 0
    <3>1. n \in uint8 /\ n + 1 \in uint8
      BY <2>1 DEF uint8
    <3> QED
      BY <1>1, <2>4, <3>1, CountShown
  <2> HIDE DEF r
  <2>6. SettingFine(r)
    BY <1>3, <2>1, <2>5 DEF SettingFine, SameSettings
  <2> QED
    BY <2>2, <2>5, <2>6 DEF SameSettings
<1>4. e.state \in {"VELOCIDAD", "INTENSIDAD", "MODO"}
  BY <1>1 DEF Keypad
<1> QED
  BY <1>2, <1>3, <1>4

\* ENTER: the next setting begins with no value shown.
LEMMA NextStateFine ==
  ASSUME NEW e, EditorFine(e), SettingFine(e), e.state # "ACTIVO", e.flag_inicializacion
  PROVE  EditorFine(NextState(e)) /\ SettingFine(NextState(e))
<1> DEFINE next == CASE e.state = "VELOCIDAD" -> "INTENSIDAD"
                     [] e.state = "INTENSIDAD" -> "MODO"
                     [] e.state = "MODO" -> "ACTIVO"
           n == IF e.state = "VELOCIDAD" THEN 1 ELSE 0
           counts == [e.matrix_aux EXCEPT ![1] = n]
           blanks == [i \in 0 .. Last |-> IF i = Last THEN e.mensaje_buffer[i] ELSE Blank]
           line == IF e.state = "MODO" THEN blanks ELSE e.mensaje_buffer
           r == [e EXCEPT !.state = next, !.matrix_aux = counts, !.mensaje_buffer = line]
<1>1. /\ e \in Keypad /\ ~e.flag_escribiendo /\ e.cursor = 0
      /\ e.mensaje_buffer \in Message /\ e.mensaje_buffer[Last] = NUL
      /\ e.matrix_aux \in [Digits -> uint8]
      /\ e.state \in {"VELOCIDAD", "INTENSIDAD", "MODO"}
  BY Sizes DEF EditorFine, LineFine, SettingFine, Keypad
<1>2. n \in uint8 /\ n \in {0, 1}
  BY DEF uint8
<1>3. counts \in [Digits -> uint8] /\ counts[1] = n
  BY <1>1, <1>2, Sizes
<1>4. blanks \in Message /\ blanks[Last] = NUL
  BY <1>1, FilledLine
<1>5. line \in Message /\ line[Last] = NUL
  BY <1>1, <1>4
<1>6. NextState(e) = r
  <2>1. CASE e.state = "VELOCIDAD"
    BY <1>1, <2>1 DEF NextState, Keypad
  <2>2. CASE e.state = "INTENSIDAD"
    BY <1>1, <2>2 DEF NextState, Keypad
  <2>3. CASE e.state = "MODO"
    BY <1>1, <2>3 DEF NextState, Keypad
  <2> QED
    BY <1>1, <2>1, <2>2, <2>3
<1>7. /\ next \in {"INTENSIDAD", "MODO", "ACTIVO"}
      /\ next = "INTENSIDAD" => n = 1
      /\ next = "MODO" => n = 0
  BY <1>1
<1> HIDE DEF next, n, counts, line
<1>8. r \in Keypad
  <2>1. next \in {"VELOCIDAD", "INTENSIDAD", "MODO", "ACTIVO"}
    BY <1>7
  <2> DEFINE a == [e EXCEPT !.state = next]
             b == [a EXCEPT !.matrix_aux = counts]
  <2>2. a \in Keypad
    BY <1>1, <2>1 DEF Keypad
  <2>3. r = [b EXCEPT !.mensaje_buffer = line]
    OBVIOUS
  <2> HIDE DEF a
  <2>4. b \in Keypad
    BY <1>3, <2>2 DEF Keypad
  <2> HIDE DEF b
  <2>5. [b EXCEPT !.mensaje_buffer = line] \in Keypad
    BY <1>5, <2>4 DEF Keypad
  <2> QED
    BY <2>3, <2>5
<1>9. /\ r.state = next /\ r.matrix_aux = counts /\ r.mensaje_buffer = line /\ r.cursor = 0
      /\ ~r.flag_escribiendo /\ r.flag_inicializacion
  BY <1>1 DEF Keypad
<1>10. EditorFine(r)
  BY <1>5, <1>8, <1>9, NotWritingFine
<1>11. SettingFine(r)
  BY <1>3, <1>7, <1>9 DEF SettingFine
<1> QED
  BY <1>6, <1>10, <1>11
\* The first call shows 1 and keeps no value.
LEMMA FirstCallFine ==
  ASSUME NEW e, EditorFine(e), SettingFine(e), e.state # "ACTIVO", ~e.flag_inicializacion
  PROVE  LET a == [e EXCEPT !.matrix_aux[1] = 1, !.flag_inicializacion = TRUE]
         IN EditorFine(a) /\ SettingFine(a) /\ a.flag_inicializacion /\ a.state = e.state
<1> DEFINE counts == [e.matrix_aux EXCEPT ![1] = 1]
           b == [e EXCEPT !.matrix_aux = counts]
           a == [b EXCEPT !.flag_inicializacion = TRUE]
<1>1. /\ e \in Keypad /\ ~e.flag_escribiendo /\ e.cursor = 0 /\ e.mensaje_buffer[Last] = NUL
      /\ e.matrix_aux \in [Digits -> uint8] /\ e.state = "VELOCIDAD"
  BY DEF EditorFine, LineFine, SettingFine, Keypad
<1>2. counts \in [Digits -> uint8] /\ counts[1] = 1
  BY <1>1, Sizes DEF uint8
<1>3. [e EXCEPT !.matrix_aux[1] = 1, !.flag_inicializacion = TRUE] = a
  BY <1>1 DEF Keypad
<1> HIDE DEF counts
<1>4. /\ b \in Keypad /\ b.matrix_aux = counts /\ b.cursor = 0 /\ b.state = "VELOCIDAD"
      /\ b.mensaje_buffer = e.mensaje_buffer /\ ~b.flag_escribiendo
  BY <1>1, <1>2 DEF Keypad
<1> HIDE DEF b
<1>5. /\ a \in Keypad /\ a.matrix_aux = counts /\ a.cursor = 0 /\ a.state = "VELOCIDAD"
      /\ a.mensaje_buffer = e.mensaje_buffer /\ ~a.flag_escribiendo /\ a.flag_inicializacion
  <2>0. b \in Keypad
    BY <1>4
  <2>1. a \in Keypad
    BY <2>0 DEF Keypad
  <2>2. a.matrix_aux = b.matrix_aux /\ a.cursor = b.cursor /\ a.state = b.state
    BY <2>0 DEF Keypad
  <2>3. /\ a.mensaje_buffer = b.mensaje_buffer /\ a.flag_escribiendo = b.flag_escribiendo
        /\ a.flag_inicializacion
    BY <2>0 DEF Keypad
  <2> HIDE DEF a
  <2> QED
    BY <1>4, <2>1, <2>2, <2>3
<1> HIDE DEF a
<1>6. EditorFine(a)
  BY <1>1, <1>5, NotWritingFine
<1>7. SettingFine(a)
  BY <1>2, <1>5 DEF SettingFine
<1> QED
  BY <1>1, <1>3, <1>5, <1>6, <1>7

\* What the settings say of a keypad they say of one that saw another key or
\* counted the call.
LEMMA SettingKept ==
  ASSUME NEW e, NEW f, SettingFine(e), f.state = e.state,
         f.flag_inicializacion = e.flag_inicializacion, f.matrix_aux = e.matrix_aux,
         f.valor = e.valor, f.cursor = e.cursor, f.flag_escribiendo = e.flag_escribiendo
  PROVE  SettingFine(f)
BY DEF SettingFine

LEMMA SelectedSettings ==
  ASSUME NEW e \in Keypad, NEW b \in Buttons \cup {Empty}, SettingFine(e)
  PROVE  SettingFine([e EXCEPT !.boton_seleccionado = b])
<1> DEFINE r == [e EXCEPT !.boton_seleccionado = b]
<1>1. /\ r.state = e.state /\ r.flag_inicializacion = e.flag_inicializacion
      /\ r.matrix_aux = e.matrix_aux /\ r.valor = e.valor /\ r.cursor = e.cursor
      /\ r.flag_escribiendo = e.flag_escribiendo
  BY DEF Keypad
<1> HIDE DEF r
<1>2. SettingFine(r)
  BY <1>1, SettingKept
<1> QED
  BY <1>2 DEF r

\* One run of PeriodicTask while the panel is being set up.
LEMMA SetupStep ==
  ASSUME PanelInv, NEW key \in Buttons \cup {Empty}, k.state # "ACTIVO",
         inicializar_sistema(Seen(key))
  PROVE  PanelInv'
<1> DEFINE e == Seen(key)
           a == IF e.flag_inicializacion THEN e
                ELSE [e EXCEPT !.matrix_aux[1] = 1, !.flag_inicializacion = TRUE]
           b == CASE ~IsThird(a) -> a
                  [] IsThird(a) /\ a.boton_seleccionado = SHIFT -> NextValue(a)
                  [] IsThird(a) /\ a.boton_seleccionado = ENTER -> NextState(a)
                  [] OTHER -> a
           t == Third(b)
           s == IF IsThird(a) THEN Empty ELSE t.boton_seleccionado
<1>1. EditorFine(e) /\ SettingFine(e) /\ e.state # "ACTIVO"
  <2> DEFINE key2 == IF key = Empty THEN k.boton_seleccionado ELSE key
  <2>1. k \in Keypad /\ SettingFine(k) /\ key2 \in Buttons \cup {Empty}
    BY DEF PanelInv, TypeOK, Keypad
  <2>2. e = [k EXCEPT !.boton_seleccionado = key2]
    BY DEF Seen
  <2> HIDE DEF key2, e
  <2>3. SettingFine(e)
    BY <2>1, <2>2, SelectedSettings
  <2> QED
    BY <2>3, SeenFine DEF SameSettings, e
<1> HIDE DEF e
<1>2. EditorFine(a) /\ SettingFine(a) /\ a.state # "ACTIVO" /\ a.flag_inicializacion
  BY <1>1, FirstCallFine
<1> HIDE DEF a
<1>3. EditorFine(b) /\ SettingFine(b)
  <2>1. CASE b = a
    BY <2>1, <1>2
  <2>2. CASE b = NextValue(a)
    BY <2>2, <1>2, NextValueFine
  <2>3. CASE b = NextState(a)
    BY <2>3, <1>2, NextStateFine
  <2> QED
    BY <2>1, <2>2, <2>3
<1> HIDE DEF b
<1>4. EditorFine(t) /\ SettingFine(t)
  <2>1. EditorFine(t)
    BY <1>3, ThirdFine
  <2>2. SettingFine(t)
    BY <1>3, ThirdFine, SettingKept
  <2> QED
    BY <2>1, <2>2
<1>5. t \in Keypad /\ s \in Buttons \cup {Empty}
  BY <1>4 DEF EditorFine, Keypad
<1>6. k' = [t EXCEPT !.boton_seleccionado = s]
  BY DEF inicializar_sistema, e, a, b
<1> HIDE DEF t, s
<1>7. EditorFine(k') /\ SettingFine(k')
  BY <1>4, <1>5, <1>6, SelectedFine, SelectedSettings
<1>8. mode' \in uint8
  BY <1>2 DEF inicializar_sistema, e, a, PanelInv, TypeOK, EditorFine, Keypad
<1>9. UNCHANGED <<mensaje_actual, scroll>>
  BY DEF inicializar_sistema
<1>10. EditorFine(k)'
  BY <1>7 DEF EditorFine, LineFine, LetterFine
<1>11. SettingFine(k)'
  BY <1>7 DEF SettingFine
<1>12. TypeOK'
  BY <1>7, <1>8, <1>9 DEF PanelInv, TypeOK, EditorFine
<1>13. ScrollFine'
  BY <1>9 DEF PanelInv, ScrollFine
<1> QED
  BY <1>10, <1>11, <1>12, <1>13 DEF PanelInv

(***************************************************************************)
(* SwitchesTask, and the specification                                     *)
(***************************************************************************)
\* The scan stops at the last place at the latest.
LEMMA ScrollStep ==
  ASSUME PanelInv, SwitchesTask
  PROVE  PanelInv'
<1> DEFINE Scan == [pc : {"off", "start", "count", "show"}, c : uint8, i : uint8]
<1>1. UNCHANGED <<k, mode, mensaje_actual>>
  BY DEF SwitchesTask, ScrollBegin, ScrollCount, ScrollShow
<1>2. /\ scroll \in Scan /\ mensaje_actual[Last] = NUL
      /\ scroll.c <= Last /\ scroll.i <= Last
  BY DEF PanelInv, TypeOK, ScrollFine
\* A place of the string that is not the last one has a next one.
<1>3. ASSUME NEW p \in uint8, p < Last
      PROVE  p + 1 \in uint8 /\ p + 1 <= Last
  BY <1>3, Sizes DEF uint8
<1>4. scroll.c \in Int /\ scroll.i \in Int /\ Last \in Int /\ 0 \in uint8 /\ 0 <= Last
  BY <1>2, Sizes DEF uint8
<1>5. /\ scroll' \in Scan
      /\ scroll'.c <= Last /\ scroll'.i <= Last
  <2>1. CASE ScrollBegin
    <3>1. scroll' = [pc |-> "count", c |-> 0, i |-> 0]
      BY <2>1 DEF ScrollBegin
    <3> QED
      BY <3>1, <1>4
  <2>2. CASE ScrollCount
    <3>1. scroll.c \in uint8
      BY <1>2
    <3>2. CASE mensaje_actual[scroll.c] = NUL
      <4>1. scroll' = [scroll EXCEPT !.pc = "show"]
        BY <2>2, <3>2 DEF ScrollCount
      <4> QED
        BY <4>1, <1>2
    <3>3. CASE mensaje_actual[scroll.c] # NUL
      <4>1. scroll' = [scroll EXCEPT !.c = scroll.c + 1]
        BY <2>2, <3>3 DEF ScrollCount
      <4>2. scroll.c < Last
        BY <3>1, <3>3, <1>2, <1>4
      <4>3. scroll.c + 1 \in uint8 /\ scroll.c + 1 <= Last
        BY <4>2, <3>1, <1>3
      <4> QED
        BY <4>1, <4>3, <3>1, <1>2
    <3> QED
      BY <3>2, <3>3
  <2>3. CASE ScrollShow
    <3>1. scroll.c \in uint8 /\ scroll.i \in uint8
      BY <1>2
    <3>2. CASE scroll' = [scroll EXCEPT !.i = scroll.i + 1] /\ scroll.i < Last
      <4>1. scroll.i + 1 \in uint8 /\ scroll.i + 1 <= Last
        BY <3>2, <3>1, <1>3
      <4> QED
        BY <3>2, <4>1, <3>1, <1>2
    <3>3. CASE scroll' = [scroll EXCEPT !.pc = "start"]
      BY <3>3, <1>2
    <3>4. CASE \E pc \in {"show", "start"} : scroll' = [scroll EXCEPT !.pc = pc, !.i = 0]
      BY <3>4, <3>1, <1>2, <1>4
    <3>5. mode = 1 /\ scroll.i < scroll.c => scroll.i < Last
      BY <1>2, <1>4
    <3>6. mode # 1 /\ mensaje_actual[scroll.i] # NUL => scroll.i < Last
      BY <3>1, <1>2, <1>4
    <3> QED
      BY <2>3, <3>2, <3>3, <3>4, <3>5, <3>6 DEF ScrollShow
  <2> QED
    BY <2>1, <2>2, <2>3 DEF SwitchesTask
<1>6. TypeOK'
  BY <1>1, <1>5 DEF PanelInv, TypeOK
<1>7. EditorFine(k)' /\ SettingFine(k)'
  BY <1>1 DEF PanelInv, EditorFine, LineFine, LetterFine, SettingFine
<1>8. ScrollFine'
  BY <1>1, <1>2, <1>5 DEF ScrollFine
<1> QED
  BY <1>6, <1>7, <1>8 DEF PanelInv

LEMMA PanelInit == Init => PanelInv
<1> SUFFICES ASSUME Init PROVE PanelInv
  OBVIOUS
<1>1. Spaces \in Message /\ Spaces[Last] = NUL
  BY Sizes DEF Spaces, Message
<1>2. [b \in Digits |-> 0] \in [Digits -> uint8] /\ 0 \in uint8 /\ 0 \in 0 .. MAX_TIME_WAITING
  BY Sizes DEF uint8
<1>3. 0 \in Buttons
  BY DEF Buttons
<1>4. k \in Keypad
  BY <1>1, <1>2, <1>3 DEF Init, Keypad
<1>5. EditorFine(k)
  BY <1>1, <1>4, NotWritingFine DEF Init
<1>6. SettingFine(k)
  BY Sizes DEF Init, SettingFine
<1>7. ScrollFine
  BY <1>1, Sizes DEF Init, ScrollFine
<1>8. TypeOK
  BY <1>1, <1>2, <1>4 DEF Init, TypeOK
<1> QED
  BY <1>5, <1>6, <1>7, <1>8 DEF PanelInv

LEMMA PanelStep ==
  ASSUME PanelInv, [Next]_vars
  PROVE  PanelInv'
<1>1. ASSUME NEW key \in Keys \cup {Empty}, PeriodicTask(key)
      PROVE  PanelInv'
  <2>1. key \in Buttons \cup {Empty}
    BY DEF PanelAssumption
  <2> QED
    BY <1>1, <2>1, EditorStep, SetupStep DEF PeriodicTask
<1>2. CASE SwitchesTask
  BY <1>2, ScrollStep
<1>3. CASE UNCHANGED vars
  BY <1>3 DEF vars, PanelInv, TypeOK, EditorFine, LineFine, LetterFine, SettingFine, ScrollFine
<1> QED
  BY <1>1, <1>2, <1>3 DEF Next

\* The inductive invariant holds in every state of the panel application.
THEOREM PanelInvariant == Spec => []PanelInv
<1> QED
  BY PanelInit, PanelStep, PTL DEF Spec

\* Every variable of the editor and every local of the scan keeps to its type,
\* whatever keys are pressed: the time waited stays at most MAX_TIME_WAITING, the
\* runs are counted below 3, the lines and the counts of the keys keep their
\* shape.  It says nothing of indices: botonera.c:300 and :309 leave the arrays
\* matrix_aux and mensaje_actual, and Panel leaves out what they write there.
THEOREM TypeCorrect == Spec => []TypeOK
<1>1. PanelInv => TypeOK
  BY DEF PanelInv
<1> QED
  BY <1>1, PanelInvariant, PTL

\* The cursor never leaves the line of the display, and the terminator stays.
THEOREM CursorStaysOnLine == Spec => []CursorOnLine
<1>1. PanelInv => CursorOnLine
  BY DEF PanelInv, EditorFine, LineFine, CursorOnLine
<1> QED
  BY <1>1, PanelInvariant, PTL

\* The scan of a message that PeriodicTask replaces under it ends in the array.
THEOREM ScanStaysInBounds == Spec => []ScanInBounds
<1>1. PanelInv => ScanInBounds
  BY DEF PanelInv, ScrollFine, ScanInBounds
<1> QED
  BY <1>1, PanelInvariant, PTL

\* A letter key being pressed stands at one of its letters, of the right case.
THEOREM KeysGiveTheirLetters == Spec => []KeyGivesItsLetters
<1>1. PanelInv => KeyGivesItsLetters
  BY DEF PanelInv, EditorFine, LetterFine, KeyGivesItsLetters
<1> QED
  BY <1>1, PanelInvariant, PTL

\* The value shown for a setting is the one ENTER stores.
THEOREM SettingsAreShown == Spec => []SettingShown
<1>1. PanelInv => SettingShown
  <2> SUFFICES ASSUME PanelInv PROVE SettingShown
    OBVIOUS
  <2>1. SettingFine(k) /\ k.matrix_aux[1] \in 0 .. 255
    BY Sizes DEF PanelInv, TypeOK, Keypad, uint8
  <2> QED
    BY <2>1 DEF SettingFine, SettingShown
<1> QED
  BY <1>1, PanelInvariant, PTL
=============================================================================
