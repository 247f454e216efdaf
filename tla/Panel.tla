------------------------------- MODULE Panel -------------------------------
(***************************************************************************)
(* The application of the LED panel: PeriodicTask, which reads the keypad, *)
(* sets the panel up and edits a message, and SwitchesTask, which scrolls  *)
(* the message last confirmed.  PeriodicTask is not preemptable and has    *)
(* the higher priority: one run of it is one step.  SwitchesTask is        *)
(* preempted between any two characters it reads.                          *)
(*                                                                         *)
(* Each function of botonera.c is an operator from the keypad's variables  *)
(* (the record k) to what it leaves in them.  Characters are told apart as *)
(* far as the terminator, a blank, and anything a key writes; the LCD and  *)
(* the LEDs are left out.                                                  *)
(***************************************************************************)
EXTENDS Integers

CONSTANTS
  MAX_LENGTH_MESSAGE,  \* 17 in the code, with the terminator
  MAX_TIME_WAITING,    \* calls until a character is confirmed by itself
  Keys                 \* the keys the user presses

CONFIRMAR == 10
BORRAR == 11
SHIFT == 12
IZQUIERDA == 13
DERECHA == 14
ENTER == 15
Empty == 101           \* 'e', no key
Buttons == 0 .. 15
Digits == 0 .. 9
LetterKeys == 2 .. 9

ASSUME PanelAssumption ==
  /\ MAX_LENGTH_MESSAGE \in 2 .. 255   \* both are of type uint8_t
  /\ MAX_TIME_WAITING \in 0 .. 255
  /\ Keys \subseteq Buttons

VARIABLES
  k,               \* the variables of botonera.c, and state
  mode,            \* the setting of that name
  mensaje_actual,  \* the message SwitchesTask scrolls
  scroll           \* where SwitchesTask stands, and its locals c and i

vars == <<k, mode, mensaje_actual, scroll>>

NUL == "nul"
Blank == "blank"
Char == "char"
Last == MAX_LENGTH_MESSAGE - 1
Message == [0 .. Last -> {NUL, Blank, Char}]
uint8 == 0 .. 255

Keypad ==
  [state : {"VELOCIDAD", "INTENSIDAD", "MODO", "ACTIVO"},
   cursor : uint8, mensaje_buffer : Message, matrix_aux : [Digits -> uint8],
   shift : BOOLEAN, mayus : BOOLEAN, first_touch : BOOLEAN,
   flag_escribiendo : BOOLEAN, flag_inicializacion : BOOLEAN,
   boton_actual : Buttons \cup {Empty}, boton_seleccionado : Buttons \cup {Empty},
   conteo_salto : 0 .. MAX_TIME_WAITING, conteo_funcionalidad : 0 .. 2,
   valor : uint8]

TypeOK ==
  /\ k \in Keypad
  /\ mode \in uint8
  /\ mensaje_actual \in Message
  /\ scroll \in [pc : {"off", "start", "count", "show"}, c : uint8, i : uint8]

Spaces == [i \in 0 .. Last |-> IF i = Last THEN NUL ELSE Blank]

Init ==
  /\ k = [state |-> "VELOCIDAD", cursor |-> 0, mensaje_buffer |-> Spaces,
          matrix_aux |-> [b \in Digits |-> 0], shift |-> FALSE, mayus |-> FALSE,
          first_touch |-> FALSE, flag_escribiendo |-> FALSE, flag_inicializacion |-> FALSE,
          boton_actual |-> 0, boton_seleccionado |-> 0, conteo_salto |-> 0,
          conteo_funcionalidad |-> 0, valor |-> 0]
  /\ mode = 0
  /\ mensaje_actual = Spaces
  /\ scroll = [pc |-> "off", c |-> 0, i |-> 0]

(***************************************************************************)
(* The editor                                                              *)
(***************************************************************************)
\* How many characters a row of charmap holds, from column 1; the others are ' '.
Columns(b) == CASE b \in {0, 1} -> 10 [] b \in {7, 9} -> 8 [] OTHER -> 6
get_charmap(b, column) == IF column \in 1 .. Columns(b) THEN Char ELSE Blank

Count(e) == e.matrix_aux[e.boton_actual]
WithCount(e, n) == [e EXCEPT !.matrix_aux[e.boton_actual] = n % 256]

\* The key is done with.  With no key, matrix_aux['e'] is cleared, which is
\* memory behind the array.
Released(e) ==
  [e EXCEPT !.conteo_salto = 0, !.flag_escribiendo = FALSE,
            !.matrix_aux = IF e.boton_actual = Empty THEN @ ELSE [@ EXCEPT ![e.boton_actual] = 0],
            !.boton_actual = Empty, !.boton_seleccionado = Empty]

\* Fault: when the time is over nothing happens.
contar_tiempo_once(e) == [e EXCEPT !.conteo_salto = IF @ < MAX_TIME_WAITING THEN @ + 1 ELSE @]

contar_tiempo(e) ==
  IF e.conteo_salto < MAX_TIME_WAITING
    THEN [e EXCEPT !.conteo_salto = @ + 1]
    ELSE [Released(e) EXCEPT !.cursor = (@ + 1) % 256]

check_boton_anterior(e) ==
  IF e.flag_escribiendo /\ e.boton_actual # e.boton_seleccionado
    THEN [WithCount(e, 0) EXCEPT !.first_touch = TRUE, !.boton_actual = e.boton_seleccionado]
  ELSE IF ~e.flag_escribiendo
    THEN [e EXCEPT !.flag_escribiendo = TRUE, !.first_touch = TRUE,
                   !.boton_actual = e.boton_seleccionado]
    ELSE e

mayusculas(e) ==
  IF ~e.shift THEN e
  ELSE [WithCount(e, IF e.mayus THEN Count(e) - 1 ELSE Count(e) + 1)
          EXCEPT !.mayus = ~@, !.shift = FALSE]

\* The next lower, or upper case letter: odd, or even columns.
movimiento_ciclico(e) ==
  LET top == Columns(e.boton_actual) - (IF e.mayus THEN 0 ELSE 1)
  IN WithCount(e, IF Count(e) < top THEN Count(e) + 2 ELSE IF e.mayus THEN 2 ELSE 1)

\* Fault: the first letter is lower case whatever the mode.
primera_vez_lower(e) ==
  IF e.first_touch THEN [WithCount(e, 1) EXCEPT !.first_touch = FALSE] ELSE e

primera_vez(e) ==
  IF e.first_touch
    THEN [WithCount(e, IF e.mayus THEN 2 ELSE 1) EXCEPT !.first_touch = FALSE] ELSE e

escribir_buffer(e) ==
  [e EXCEPT !.mensaje_buffer[e.cursor] = get_charmap(e.boton_actual, Count(e)),
            !.conteo_salto = 0]

funcionalidad_numeros(e) ==
  IF e.boton_seleccionado \notin 0 .. 9 THEN e
  ELSE LET a == check_boton_anterior(e)
       IN escribir_buffer(
            IF a.boton_actual \in LetterKeys
              THEN primera_vez(movimiento_ciclico(mayusculas(a)))
              ELSE WithCount(a, IF Count(a) < 10 THEN Count(a) + 1 ELSE 1))

funcionalidad_confirmar(e) ==
  IF e.boton_seleccionado = CONFIRMAR /\ e.flag_escribiendo /\ e.cursor < Last
    THEN [Released(e) EXCEPT !.cursor = @ + 1] ELSE e

funcionalidad_derecha(e) ==
  IF /\ e.boton_seleccionado = DERECHA
     /\ e.cursor < Last /\ e.mensaje_buffer[e.cursor + 1] # NUL
    THEN [e EXCEPT !.cursor = @ + 1] ELSE e

funcionalidad_shift(e) ==
  IF e.boton_seleccionado = SHIFT THEN [e EXCEPT !.shift = ~@] ELSE e

funcionalidad_borrar_cancelar(e) ==
  LET a == IF e.flag_escribiendo THEN Released(e) ELSE [e EXCEPT !.cursor = (@ - 1) % 256]
  IN IF e.boton_seleccionado = BORRAR
       THEN [a EXCEPT !.mensaje_buffer[a.cursor] = Blank] ELSE e

funcionalidad_izquierda(e) ==
  IF e.boton_seleccionado = IZQUIERDA THEN [e EXCEPT !.cursor = (@ - 1) % 256] ELSE e

\* Every call counts the time, every third one acts on the key seen last.
Timed(e) == IF e.flag_escribiendo THEN contar_tiempo(e) ELSE e
\* Fault: it goes on counting.
ThirdOn(e) == [e EXCEPT !.conteo_funcionalidad = @ + 1]
IsThird(e) == e.conteo_funcionalidad = 2
Third(e) == [e EXCEPT !.conteo_funcionalidad = (@ + 1) % 3]

\* Fault: the keys that move left work at the start of the line too.
EditedAtStart(e) ==
  LET a == IF e.cursor < Last
             THEN funcionalidad_shift(funcionalidad_derecha(
                    funcionalidad_confirmar(funcionalidad_numeros(e))))
             ELSE e
  IN funcionalidad_izquierda(funcionalidad_borrar_cancelar(a))

\* Fault: one place too many is open for writing.
EditedToTheEnd(e) ==
  LET a == IF e.cursor <= Last
             THEN funcionalidad_shift(funcionalidad_derecha(
                    funcionalidad_confirmar(funcionalidad_numeros(e))))
             ELSE e
  IN IF a.cursor > 0 THEN funcionalidad_izquierda(funcionalidad_borrar_cancelar(a)) ELSE a

\* The keys that are disabled with the cursor at the end, then those that are
\* with the cursor at the start.
Edited(e) ==
  LET a == IF e.cursor < Last
             THEN funcionalidad_shift(funcionalidad_derecha(
                    funcionalidad_confirmar(funcionalidad_numeros(e))))
             ELSE e
  IN IF a.cursor > 0 THEN funcionalidad_izquierda(funcionalidad_borrar_cancelar(a)) ELSE a

\* funcionalidad_enter copies the buffer as far as the cursor and ends it
\* there.  With the cursor at the last place the terminator it copies is at
\* the end, and another one goes behind the array.
Confirmed(e) ==
  [i \in 0 .. Last |-> IF i <= e.cursor THEN e.mensaje_buffer[i]
                       ELSE IF i = e.cursor + 1 THEN NUL ELSE mensaje_actual[i]]

obtener_funcionalidad(e) ==
  LET a == Timed(e)
      b == Edited(Third(a))
  IN IF ~IsThird(a) THEN k' = Third(a) /\ UNCHANGED <<mensaje_actual, scroll>>
     ELSE IF b.boton_seleccionado # ENTER
       THEN k' = [b EXCEPT !.boton_seleccionado = Empty] /\ UNCHANGED <<mensaje_actual, scroll>>
       ELSE /\ k' = Released(b)
            /\ mensaje_actual' = Confirmed(b)
            /\ scroll' = IF scroll.pc = "off" THEN [scroll EXCEPT !.pc = "start"] ELSE scroll

(***************************************************************************)
(* The settings                                                            *)
(***************************************************************************)
\* Fault: the value is taken after the digit moved on.
NextValueLate(e) ==
  LET n == IF e.valor > 4 /\ e.matrix_aux[1] > 4 THEN 1 ELSE e.matrix_aux[1]
  IN [e EXCEPT !.matrix_aux[1] = n + 1, !.valor = n + 1,
               !.mensaje_buffer[0] = get_charmap(1, n + 1)]

\* SHIFT steps through the values: digits 1 to 5, or the words for the modes.
NextValue(e) ==
  IF e.state = "MODO"
    THEN LET n == (IF e.matrix_aux[1] > 2 THEN 0 ELSE e.matrix_aux[1]) + 1
         IN [e EXCEPT !.matrix_aux[1] = n, !.valor = n,
                      !.mensaje_buffer = [i \in 0 .. Last |-> IF i = Last THEN @[i] ELSE Char]]
    ELSE LET n == IF e.valor > 4 /\ e.matrix_aux[1] > 4 THEN 1 ELSE e.matrix_aux[1]
         IN [e EXCEPT !.matrix_aux[1] = n + 1, !.valor = n,
                      !.mensaje_buffer[0] = get_charmap(1, n + 1)]

\* ENTER stores the value in the setting of this state, and goes to the next.
NextState(e) ==
  CASE e.state = "VELOCIDAD" -> [e EXCEPT !.state = "INTENSIDAD", !.matrix_aux[1] = 1]
    [] e.state = "INTENSIDAD" -> [e EXCEPT !.state = "MODO", !.matrix_aux[1] = 0]
    [] e.state = "MODO" -> [e EXCEPT !.state = "ACTIVO", !.matrix_aux[1] = 0,
                              !.mensaje_buffer = [i \in 0 .. Last |-> IF i = Last THEN @[i] ELSE Blank]]

inicializar_sistema(e) ==
  LET a == IF e.flag_inicializacion THEN e
           ELSE [e EXCEPT !.matrix_aux[1] = 1, !.flag_inicializacion = TRUE]
      b == CASE ~IsThird(a) -> a
             [] IsThird(a) /\ a.boton_seleccionado = SHIFT -> NextValue(a)
             [] IsThird(a) /\ a.boton_seleccionado = ENTER -> NextState(a)
             [] OTHER -> a
  IN /\ k' = [Third(b) EXCEPT !.boton_seleccionado = IF IsThird(a) THEN Empty ELSE @]
     /\ mode' = IF IsThird(a) /\ a.boton_seleccionado = ENTER /\ a.state = "MODO" THEN a.valor ELSE mode
     /\ UNCHANGED <<mensaje_actual, scroll>>

(***************************************************************************)
(* The tasks                                                               *)
(***************************************************************************)
\* A key seen replaces the one seen before; with none pressed it stays.
Seen(key) == [k EXCEPT !.boton_seleccionado = IF key = Empty THEN @ ELSE key]
CiaaKeys == {SHIFT, IZQUIERDA, DERECHA, ENTER}

PeriodicTask(key) ==
  IF k.state = "ACTIVO"
    THEN obtener_funcionalidad(Seen(key)) /\ UNCHANGED mode
    ELSE key \in CiaaKeys \cup {Empty} /\ inicializar_sistema(Seen(key))

\* msjScroll: with a mode that is none of the three it does nothing, for ever.
ScrollBegin ==
  /\ scroll.pc = "start" /\ mode \in 1 .. 3
  /\ scroll' = [pc |-> "count", c |-> 0, i |-> 0]
  /\ UNCHANGED <<k, mode, mensaje_actual>>

ScrollCount ==
  /\ scroll.pc = "count"
  /\ scroll' = IF mensaje_actual[scroll.c] = NUL THEN [scroll EXCEPT !.pc = "show"]
               ELSE [scroll EXCEPT !.c = @ + 1]
  /\ UNCHANGED <<k, mode, mensaje_actual>>

\* Mode 1 shows as many characters as it counted; the others print the string
\* as far as its terminator, a number of times that depends on the count.
ScrollShow ==
  /\ scroll.pc = "show"
  /\ IF mode = 1
       THEN scroll' = IF scroll.i < scroll.c THEN [scroll EXCEPT !.i = @ + 1]
                      ELSE [scroll EXCEPT !.pc = "start"]
       ELSE IF mensaje_actual[scroll.i] # NUL THEN scroll' = [scroll EXCEPT !.i = @ + 1]
            ELSE \E pc \in {"show", "start"} : scroll' = [scroll EXCEPT !.pc = pc, !.i = 0]
  /\ UNCHANGED <<k, mode, mensaje_actual>>

SwitchesTask == ScrollBegin \/ ScrollCount \/ ScrollShow

Next == (\E key \in Keys \cup {Empty} : PeriodicTask(key)) \/ SwitchesTask

Spec == Init /\ [][Next]_vars

\* The alarm activates PeriodicTask for ever, whatever the user presses.  It is
\* always enabled, each run of it counts in conteo_funcionalidad, and nothing
\* else changes k: this is its weak fairness, without ENABLED.
Fairness == []<><<k' # k>>_k
FairSpec == Spec /\ Fairness

(***************************************************************************)
(* Properties                                                              *)
(***************************************************************************)
\* The cursor never leaves the line, neither by a key, by the time nor below 0,
\* and no character is written over the terminator.
CursorOnLine ==
  /\ k.cursor <= Last
  /\ k.flag_escribiendo => k.cursor < Last
  /\ k.mensaje_buffer[Last] = NUL

\* A message replaced while it is scrolled, at any place, by a longer or a
\* shorter one, still ends within the array for the scan that is under way.
ScanInBounds ==
  /\ scroll.pc = "count" => scroll.c <= Last
  /\ scroll.pc = "show" => scroll.i <= Last /\ scroll.c <= Last

\* While a letter key is being pressed its column is one of its letters, of the
\* case the keypad is in; in particular SHIFT never moves it out of its row.
KeyGivesItsLetters ==
  k.flag_escribiendo =>
    LET n == k.matrix_aux[k.boton_actual]
    IN /\ n \in 1 .. Columns(k.boton_actual)
       /\ k.boton_actual \in LetterKeys => (k.mayus <=> n % 2 = 0)

\* The digit, or the word, shown for a setting is the value ENTER stores, and
\* one of the values there are.  (matrix_aux[1] tells that SHIFT was pressed.)
SettingShown ==
  /\ k.state \in {"VELOCIDAD", "INTENSIDAD"} /\ k.matrix_aux[1] > 1 =>
        k.valor \in 1 .. 5 /\ k.matrix_aux[1] = k.valor + 1
  /\ k.state = "MODO" /\ k.matrix_aux[1] > 0 =>
        k.valor \in 1 .. 3 /\ k.matrix_aux[1] = k.valor

\* A character is confirmed by itself: unless the user goes on pressing keys,
\* the writing of it ends.
TimeConfirms ==
  []<>(k.boton_seleccionado # Empty) \/ []<>~k.flag_escribiendo
=============================================================================
