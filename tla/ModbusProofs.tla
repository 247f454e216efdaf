---------------------------- MODULE ModbusProofs ----------------------------
(***************************************************************************)
(* What holds of every gateway, however many clients, servers and masters  *)
(* it has and whatever the lines lose: the types, that a server is busy    *)
(* exactly while one client waits for it, that no task is left waiting for *)
(* a command that is over, that an answer on a line that was never given   *)
(* up is for the client that waits for it, and that a command is sent no   *)
(* more often than it has tries.                                           *)
(***************************************************************************)
EXTENDS Modbus, TLAPS

USE ModbusAssumption DEF ModbusAssumption

(***************************************************************************)
(* The inductive invariant.  A client that is to send has a message and,   *)
(* once that is routed, a server; one that waits for a slave has kept the  *)
(* message the slave answers.                                              *)
(***************************************************************************)
ClientFine(r) ==
  /\ r.state \in {"ROUTING", "SEND_MSG_TO_SERVER"} => r.msg \in Message
  /\ r.state \in {"SEND_MSG_TO_SERVER", "WAITING_SERVER_RESPONSE"} => r.indexServer \in Servers
  /\ r.state = "WAITING_SERVER_RESPONSE" /\ r.indexServer \notin Lines => r.msg \in Message
ClientInv == \A c \in Clients : ClientFine(client[c])

\* A command names its slave, and a task blocks for one with the event.
MasterFine(m) ==
  /\ m.cmd => m.slaveId \in Ids
  /\ m.waiting => m.blocking
MasterInv == \A c \in Masters : MasterFine(master[c])

\* Between the two steps of an idle master, or of the end of a command, the
\* client is where it was, and the task has its signal before the command goes.
GatewayInv ==
  /\ gw.at # "call" => gw.client \in Masters
  /\ gw.at \in {"recv", "cancel"} => client[gw.client].state = "IDLE"
  /\ gw.at = "finish" => client[gw.client].state = "WAITING_SERVER_RESPONSE"
  /\ gw.at \in {"cancel", "finish"} =>
       /\ master[gw.client].cmd
       /\ master[gw.client].waiting => event[gw.client]

ModbusInv ==
  TypeOK /\ ClientInv /\ MasterInv /\ GatewayInv /\ BusyIsOwned /\ BlockedHasCommand

(***************************************************************************)
(* Facts about the constants, messages and records                         *)
(***************************************************************************)
LEMMA MessageFacts ==
  /\ \A c \in Clients, id \in Ids, n \in 0 .. Numbers - 1 : Request(c, id, n) \in Message
  /\ \A msg \in Message : [msg EXCEPT !.kind = "response"] \in Message
  /\ None \notin Message /\ Unfinished \notin Message /\ None # Unfinished
BY DEF Message, Request, None, Unfinished

LEMMA EndsFacts ==
  /\ \A c \in Clients \ Masters : ClientEnd(c) \in Ends
  /\ \A s \in Lines : ServerEnd(s) \in Ends
BY DEF Ends

LEMMA EndsApart ==
  /\ \A c, s : ClientEnd(c) # ServerEnd(s)
  /\ \A s, u : ServerEnd(s) = ServerEnd(u) => s = u
  /\ \A c, d : ClientEnd(c) = ClientEnd(d) => c = d
BY DEF ClientEnd, ServerEnd

LEMMA InitInbox ==
  Init => /\ InboxTyped /\ \A s \in Lines : Arrived(s) = None /\ inbox[ServerEnd(s)] = None
          /\ \A c \in Clients \ Masters : inbox[ClientEnd(c)] = None
BY EndsFacts, MessageFacts DEF Init, InboxTyped, Arrived

\* What is at the ends of the lines, and what a change of one of them does.
LEMMA InboxFacts ==
  ASSUME InboxTyped
  PROVE  /\ \A s \in Lines : Arrived(s) \in Message \cup {None}
         /\ \A c \in Clients \ Masters : inbox[ClientEnd(c)] \in Message \cup {None}
BY EndsFacts DEF InboxTyped, Arrived

LEMMA InboxStays ==
  ASSUME UNCHANGED inbox
  PROVE  /\ InboxTyped => InboxTyped'
         /\ \A s : Arrived(s)' = Arrived(s)
         /\ \A c : inbox'[ClientEnd(c)] = inbox[ClientEnd(c)]
BY DEF InboxTyped, Arrived

LEMMA ServerEndChanges ==
  ASSUME InboxTyped, NEW s \in Lines, NEW msg \in Message \cup {None, Unfinished},
         inbox' = [inbox EXCEPT ![ServerEnd(s)] = msg]
  PROVE  /\ InboxTyped'
         /\ Arrived(s)' = IF msg = Unfinished THEN None ELSE msg
         /\ \A u \in Lines \ {s} : Arrived(u)' = Arrived(u)
         /\ \A c \in Clients \ Masters : inbox'[ClientEnd(c)] = inbox[ClientEnd(c)]
<1>1. /\ inbox'[ServerEnd(s)] = msg
      /\ \A u \in Lines \ {s} : inbox'[ServerEnd(u)] = inbox[ServerEnd(u)]
      /\ \A c \in Clients \ Masters : inbox'[ClientEnd(c)] = inbox[ClientEnd(c)]
  BY EndsFacts, EndsApart DEF InboxTyped
<1>2. InboxTyped'
  BY <1>1 DEF InboxTyped
<1> QED
  BY <1>1, <1>2 DEF Arrived

LEMMA ClientEndChanges ==
  ASSUME InboxTyped, NEW c \in Clients \ Masters, NEW msg \in Message \cup {None},
         inbox' = [inbox EXCEPT ![ClientEnd(c)] = msg]
  PROVE  /\ InboxTyped'
         /\ \A s \in Lines : Arrived(s)' = Arrived(s)
         /\ \A d \in Clients \ Masters :
              inbox'[ClientEnd(d)] = IF d = c THEN msg ELSE inbox[ClientEnd(d)]
<1>1. /\ \A s \in Lines : inbox'[ServerEnd(s)] = inbox[ServerEnd(s)]
      /\ \A d \in Clients \ Masters :
           inbox'[ClientEnd(d)] = IF d = c THEN msg ELSE inbox[ClientEnd(d)]
  BY EndsFacts, EndsApart DEF InboxTyped
<1>2. InboxTyped'
  BY <1>1, MessageFacts DEF InboxTyped
<1> QED
  BY <1>1, <1>2 DEF Arrived

\* A call of the client's turn ends, and the next one is its own or another's.
LEMMA CalledFacts ==
  ASSUME TypeOK, gw.client \in Clients, NEW pendingTask, Called(pendingTask)
  PROVE  gw' \in GatewayRecord /\ gw'.at = "call"
<1>1. gw \in GatewayRecord
  BY DEF TypeOK
<1>2. gw.calls \in 0 .. LIMIT_CALLS - 1 /\ gw.client \in 0 .. NClients - 1
  BY <1>1 DEF GatewayRecord, Clients
<1>3. CASE pendingTask /\ gw.calls + 1 < LIMIT_CALLS
  <2>1. gw' = [gw EXCEPT !.calls = gw.calls + 1, !.at = "call"]
    BY <1>3 DEF Called
  <2>2. gw.calls + 1 \in 0 .. LIMIT_CALLS - 1
    BY <1>2, <1>3
  <2> QED
    BY <1>1, <2>1, <2>2 DEF GatewayRecord
<1>4. CASE ~(pendingTask /\ gw.calls + 1 < LIMIT_CALLS)
  <2>1. gw' = [client |-> gw.client + 1, calls |-> 0, at |-> "call"]
    BY <1>4 DEF Called
  <2>2. gw.client + 1 \in 0 .. NClients /\ 0 \in 0 .. LIMIT_CALLS - 1
    BY <1>2
  <2> QED
    BY <2>1, <2>2 DEF GatewayRecord
<1> QED
  BY <1>3, <1>4

LEMMA WithinFacts ==
  ASSUME TypeOK, NEW at \in {"recv", "cancel", "finish"}, Within(at)
  PROVE  /\ gw' \in GatewayRecord
         /\ gw'.client = gw.client /\ gw'.at = at
BY DEF TypeOK, GatewayRecord, Within

LEMMA MasterChanges ==
  ASSUME ModbusInv, NEW c \in Masters, NEW m \in MasterRecord, MasterFine(m),
         master' = [master EXCEPT ![c] = m]
  PROVE  /\ master' \in [Masters -> MasterRecord] /\ MasterInv'
         /\ master'[c] = m
         /\ \A d \in Masters \ {c} : master'[d] = master[d]
BY DEF ModbusInv, TypeOK, MasterInv

(***************************************************************************)
(* Who waits for a server                                                  *)
(***************************************************************************)
\* Nobody begins or ends to wait.
LEMMA BusyKept ==
  ASSUME BusyIsOwned, busy' = busy,
         \A d \in Clients, s \in Servers : WaitsFor(d, s)' <=> WaitsFor(d, s)
  PROVE  BusyIsOwned'
BY DEF BusyIsOwned

\* A client begins to wait for a server that is free.
LEMMA BusyTaken ==
  ASSUME TypeOK, BusyIsOwned, NEW c \in Clients, NEW s \in Servers,
         ~busy[s], busy' = [busy EXCEPT ![s] = TRUE],
         \A u \in Servers : ~WaitsFor(c, u),
         \A u \in Servers : WaitsFor(c, u)' <=> u = s,
         \A d \in Clients \ {c}, u \in Servers : WaitsFor(d, u)' <=> WaitsFor(d, u)
  PROVE  BusyIsOwned'
BY SMTT(20) DEF BusyIsOwned, TypeOK

\* The client that waits for a server gives it back.
LEMMA BusyGivenBack ==
  ASSUME TypeOK, BusyIsOwned, NEW c \in Clients, NEW s \in Servers,
         WaitsFor(c, s), busy' = [busy EXCEPT ![s] = FALSE],
         \A u \in Servers : ~WaitsFor(c, u)',
         \A d \in Clients \ {c}, u \in Servers : WaitsFor(d, u)' <=> WaitsFor(d, u)
  PROVE  BusyIsOwned'
<1>1. \A u \in Servers \ {s} : ~WaitsFor(c, u)
  BY DEF WaitsFor
<1> QED
  BY SMTT(20), <1>1 DEF BusyIsOwned, TypeOK

(***************************************************************************)
(* What a step of one client does to it and to who waits for which server  *)
(***************************************************************************)
ClientNow(c, r) ==
  /\ client' \in [Clients -> ClientRecord] /\ ClientInv'
  /\ client'[c] = r
  /\ \A d \in Clients \ {c} : client'[d] = client[d]
  /\ busy' \in [Servers -> BOOLEAN] /\ BusyIsOwned'

LEMMA OneClientChanges ==
  ASSUME ModbusInv, NEW c \in Clients, NEW r \in ClientRecord, ClientFine(r),
         client' = [client EXCEPT ![c] = r]
  PROVE  /\ client' \in [Clients -> ClientRecord] /\ ClientInv'
         /\ client'[c] = r
         /\ \A d \in Clients \ {c} : client'[d] = client[d]
         /\ \A d \in Clients \ {c}, u \in Servers : WaitsFor(d, u)' <=> WaitsFor(d, u)
<1>1. client \in [Clients -> ClientRecord] /\ ClientInv
  BY DEF ModbusInv, TypeOK
<1>2. /\ client' \in [Clients -> ClientRecord] /\ client'[c] = r
      /\ \A d \in Clients \ {c} : client'[d] = client[d]
  BY <1>1
<1>3. ClientInv'
  BY <1>1, <1>2 DEF ClientInv
<1> QED
  BY <1>2, <1>3 DEF WaitsFor

\* It neither waited before nor does it after.
LEMMA ClientMoves ==
  ASSUME ModbusInv, NEW c \in Clients, NEW r \in ClientRecord, ClientFine(r),
         client' = [client EXCEPT ![c] = r], busy' = busy,
         client[c].state # "WAITING_SERVER_RESPONSE", r.state # "WAITING_SERVER_RESPONSE"
  PROVE  ClientNow(c, r)
<1>1. \A u \in Servers : ~WaitsFor(c, u) /\ ~WaitsFor(c, u)'
  BY OneClientChanges DEF WaitsFor
<1>2. \A d \in Clients, u \in Servers : WaitsFor(d, u)' <=> WaitsFor(d, u)
  BY <1>1, OneClientChanges
<1>3. BusyIsOwned /\ busy \in [Servers -> BOOLEAN]
  BY DEF ModbusInv, TypeOK
<1>4. BusyIsOwned'
  BY <1>2, <1>3, BusyKept
<1> QED
  BY <1>3, <1>4, OneClientChanges DEF ClientNow

\* It goes on waiting for the same server.
LEMMA ClientGoesOn ==
  ASSUME ModbusInv, NEW c \in Clients, NEW r \in ClientRecord, ClientFine(r),
         client' = [client EXCEPT ![c] = r], busy' = busy,
         r.state = client[c].state, r.indexServer = client[c].indexServer
  PROVE  ClientNow(c, r)
<1>1. \A u \in Servers : WaitsFor(c, u)' <=> WaitsFor(c, u)
  BY OneClientChanges DEF WaitsFor
<1>2. \A d \in Clients, u \in Servers : WaitsFor(d, u)' <=> WaitsFor(d, u)
  <2>1. \A d \in Clients \ {c}, u \in Servers : WaitsFor(d, u)' <=> WaitsFor(d, u)
    BY OneClientChanges
  <2> QED
    BY <1>1, <2>1
<1>3. BusyIsOwned /\ busy \in [Servers -> BOOLEAN]
  BY DEF ModbusInv, TypeOK
<1>4. BusyIsOwned'
  BY <1>2, <1>3, BusyKept
<1> QED
  BY <1>3, <1>4, OneClientChanges DEF ClientNow

\* It begins to wait for a server that was free.
LEMMA ClientBegins ==
  ASSUME ModbusInv, NEW c \in Clients, NEW r \in ClientRecord, ClientFine(r),
         client' = [client EXCEPT ![c] = r], client[c].state # "WAITING_SERVER_RESPONSE",
         NEW s \in Servers, ~busy[s], busy' = [busy EXCEPT ![s] = TRUE],
         r.state = "WAITING_SERVER_RESPONSE", r.indexServer = s
  PROVE  ClientNow(c, r)
<1>1. \A u \in Servers : ~WaitsFor(c, u) /\ (WaitsFor(c, u)' <=> u = s)
  BY ZenonT(20), OneClientChanges DEF WaitsFor
<1>2. TypeOK /\ BusyIsOwned /\ busy \in [Servers -> BOOLEAN]
  BY DEF ModbusInv, TypeOK
<1>3. \A d \in Clients \ {c}, u \in Servers : WaitsFor(d, u)' <=> WaitsFor(d, u)
  BY OneClientChanges
<1>4. BusyIsOwned'
  BY <1>1, <1>2, <1>3, BusyTaken
<1> QED
  BY <1>2, <1>4, OneClientChanges DEF ClientNow

\* It stops waiting and gives the server back.
LEMMA ClientStops ==
  ASSUME ModbusInv, NEW c \in Clients, NEW r \in ClientRecord, ClientFine(r),
         client' = [client EXCEPT ![c] = r], client[c].state = "WAITING_SERVER_RESPONSE",
         busy' = [busy EXCEPT ![client[c].indexServer] = FALSE],
         r.state # "WAITING_SERVER_RESPONSE"
  PROVE  ClientNow(c, r)
<1> DEFINE s == client[c].indexServer
<1>1. s \in Servers
  BY DEF ModbusInv, ClientInv, ClientFine
<1>2. \A u \in Servers : ~WaitsFor(c, u)' /\ (WaitsFor(c, u) <=> u = s)
  BY OneClientChanges DEF WaitsFor
<1>3. TypeOK /\ BusyIsOwned /\ busy \in [Servers -> BOOLEAN]
  BY DEF ModbusInv, TypeOK
<1>4. \A d \in Clients \ {c}, u \in Servers : WaitsFor(d, u)' <=> WaitsFor(d, u)
  BY OneClientChanges
<1>5. busy' = [busy EXCEPT ![s] = FALSE] /\ WaitsFor(c, s)
  BY <1>1, <1>2
<1> HIDE DEF s
<1>6. BusyIsOwned'
  BY <1>1, <1>2, <1>3, <1>4, <1>5, BusyGivenBack
<1> QED
  BY <1>1, <1>3, <1>5, <1>6, OneClientChanges DEF ClientNow

\* An idle client is fine with any message.
LEMMA IdleFacts ==
  ASSUME NEW msg \in Message \cup {None}
  PROVE  /\ Idle(msg) \in ClientRecord /\ ClientFine(Idle(msg))
         /\ Idle(msg).state = "IDLE"
BY DEF Idle, ClientRecord, ClientFine

LEMMA ClientFacts ==
  ASSUME ModbusInv, NEW c \in Clients
  PROVE  client[c] \in ClientRecord /\ ClientFine(client[c])
BY DEF ModbusInv, TypeOK, ClientInv

LEMMA InitInv == Init => ModbusInv
BY InitInbox DEF Init, ModbusInv, TypeOK, ClientRecord, MasterRecord, GatewayRecord, ClientInv, ClientFine,
       MasterInv, MasterFine, GatewayInv, BusyIsOwned, BlockedHasCommand, Idle, WaitsFor, Clients, Servers, ExceptionCodes

(***************************************************************************)
(* What is left as it is                                                   *)
(***************************************************************************)
LEMMA ClientsStay ==
  ASSUME ModbusInv, UNCHANGED <<client, busy>>
  PROVE  /\ client' \in [Clients -> ClientRecord] /\ busy' \in [Servers -> BOOLEAN]
         /\ ClientInv' /\ BusyIsOwned'
BY DEF ModbusInv, TypeOK, ClientInv, BusyIsOwned, WaitsFor

LEMMA MastersStay ==
  ASSUME ModbusInv, UNCHANGED <<master, event>>
  PROVE  /\ master' \in [Masters -> MasterRecord] /\ event' \in [Masters -> BOOLEAN]
         /\ MasterInv' /\ BlockedHasCommand'
BY DEF ModbusInv, TypeOK, MasterInv, BlockedHasCommand

LEMMA LinesStay ==
  ASSUME ModbusInv, UNCHANGED lineVars
  PROVE  /\ pending' \in [Lines -> SUBSET Message]
         /\ InboxTyped'
         /\ next' \in [Masters -> 0 .. Numbers - 1]
BY InboxStays DEF ModbusInv, TypeOK, lineVars

LEMMA HistoryStays ==
  ASSUME ModbusInv
  PROVE  /\ UNCHANGED ended => ended' \in [Masters -> ExceptionCodes]
         /\ UNCHANGED sends => sends' \in [Masters -> Nat]
         /\ UNCHANGED timedOut => timedOut' \in [Servers -> BOOLEAN]
BY DEF ModbusInv, TypeOK

\* A client takes a message, or finds none.
TakesMessage(r, msg) ==
  [r EXCEPT !.msg = msg, !.state = IF msg = None THEN "IDLE" ELSE "ROUTING"]

LEMMA TakesMessageFacts ==
  ASSUME NEW q \in ClientRecord, NEW msg \in Message \cup {None}
  PROVE  /\ TakesMessage(q, msg) \in ClientRecord
         /\ TakesMessage(q, msg).state # "WAITING_SERVER_RESPONSE"
         /\ ClientFine(TakesMessage(q, msg))
<1> DEFINE r == TakesMessage(q, msg)
<1>1. r \in ClientRecord
  <2>1. PICK state \in {"IDLE", "ROUTING"} : state = IF msg = None THEN "IDLE" ELSE "ROUTING"
    OBVIOUS
  <2>2. r = [q EXCEPT !.msg = msg, !.state = state]
    BY <2>1 DEF TakesMessage
  <2> HIDE DEF r
  <2> QED
    BY <2>2 DEF ClientRecord
<1>2. r.msg = msg /\ r.state = IF msg = None THEN "IDLE" ELSE "ROUTING"
  BY DEF ClientRecord, TakesMessage
<1> HIDE DEF r
<1>3. r.state # "WAITING_SERVER_RESPONSE" /\ ClientFine(r)
  BY <1>2 DEF ClientFine
<1> QED
  BY <1>1, <1>3 DEF r

LEMMA AtClient ==
  ASSUME ModbusInv, NEW c \in Clients
  PROVE  /\ TypeOK /\ client[c] \in ClientRecord /\ ClientFine(client[c])
         /\ \A at : Running(c, at) => gw.client = c /\ gw.client \in Clients /\ gw.at = at
BY ClientFacts DEF ModbusInv, Running

(***************************************************************************)
(* Each step of the gateway preserves the invariant                        *)
(***************************************************************************)
LEMMA MainTaskStep ==
  ASSUME ModbusInv, MainTask
  PROVE  ModbusInv'
<1>1. gw' \in GatewayRecord /\ gw'.at = "call"
  BY DEF MainTask, GatewayRecord
<1>2. UNCHANGED <<client, busy, master, event, lineVars, ended, sends, timedOut>>
  BY DEF MainTask
<1>3. TypeOK'
  BY <1>1, <1>2, ClientsStay, MastersStay, LinesStay, HistoryStays DEF TypeOK
<1>4. GatewayInv'
  BY <1>1 DEF GatewayInv
<1> QED
  BY <1>2, <1>3, <1>4, ClientsStay, MastersStay DEF ModbusInv

LEMMA IdleTransportStep ==
  ASSUME ModbusInv, NEW c \in Clients, IdleTransport(c)
  PROVE  ModbusInv'
<1> DEFINE msg == inbox[ClientEnd(c)]
           r == TakesMessage(client[c], msg)
<1>1. InboxTyped /\ c \in Clients \ Masters
  BY DEF ModbusInv, TypeOK, IdleTransport
<1>2. msg \in Message \cup {None}
  BY <1>1, InboxFacts
<1>3. client[c].state = "IDLE" /\ Running(c, "call")
  BY DEF IdleTransport, InState
<1>4. r \in ClientRecord /\ r.state # "WAITING_SERVER_RESPONSE" /\ ClientFine(r)
  BY <1>2, AtClient, TakesMessageFacts
<1>5. client' = [client EXCEPT ![c] = r] /\ busy' = busy
  BY DEF IdleTransport, TakesMessage
<1> HIDE DEF r, msg
<1>6. ClientNow(c, r)
  BY <1>3, <1>4, <1>5, ClientMoves
<1>7. gw' \in GatewayRecord /\ gw'.at = "call"
  BY <1>3, AtClient, CalledFacts DEF IdleTransport
<1>8. UNCHANGED <<master, event, pending, next, ended, sends, timedOut>>
  BY DEF IdleTransport
<1>9. InboxTyped'
  BY <1>1, ClientEndChanges DEF IdleTransport
<1>10. TypeOK'
  BY <1>6, <1>7, <1>8, <1>9 DEF ModbusInv, TypeOK, ClientNow
<1>11. GatewayInv'
  BY <1>7 DEF GatewayInv
<1> QED
  BY <1>6, <1>8, <1>10, <1>11, MastersStay DEF ModbusInv, ClientNow

\* The three cases of masterTask: no command, one more try, the end.
LEMMA MasterTaskStep ==
  ASSUME ModbusInv, NEW c \in Clients, MasterTask(c)
  PROVE  ModbusInv'
<1> DEFINE code == IF master[c].exceptioncode = "no_error" THEN "not_respond"
                   ELSE master[c].exceptioncode
<1>1. /\ c \in Masters /\ client[c].state = "IDLE" /\ Running(c, "call")
      /\ UNCHANGED <<client, busy, lineVars, sends, timedOut>>
  BY DEF MasterTask, InState
<1>2. /\ master \in [Masters -> MasterRecord] /\ event \in [Masters -> BOOLEAN]
      /\ ended \in [Masters -> ExceptionCodes]
      /\ MasterFine(master[c]) /\ BlockedHasCommand
  BY <1>1 DEF ModbusInv, TypeOK, MasterInv
<1>3. CASE ~master[c].cmd
  <2>1. Within("recv") /\ UNCHANGED <<master, event, ended>>
    BY <1>3 DEF MasterTask
  <2>2. gw' \in GatewayRecord /\ gw'.client = c /\ gw'.at = "recv"
    BY <2>1, <1>1, AtClient, WithinFacts
  <2>3. TypeOK'
    BY <2>1, <2>2, <1>1, ClientsStay, MastersStay, LinesStay, HistoryStays DEF TypeOK
  <2>4. GatewayInv'
    BY <2>2, <1>1 DEF GatewayInv
  <2> QED
    BY <2>1, <2>3, <2>4, <1>1, ClientsStay, MastersStay DEF ModbusInv
<1>4. CASE master[c].cmd /\ master[c].retryCount > 0
  <2> DEFINE m == [master[c] EXCEPT !.retryCount = @ - 1]
  <2>1. Within("recv") /\ master' = [master EXCEPT ![c] = m] /\ UNCHANGED <<event, ended>>
    BY <1>4 DEF MasterTask
  <2>2. gw' \in GatewayRecord /\ gw'.client = c /\ gw'.at = "recv"
    BY <2>1, <1>1, AtClient, WithinFacts
  <2>3. master[c].retryCount - 1 \in 0 .. RetryComm
    BY <1>1, <1>2, <1>4 DEF MasterRecord
  <2>4. m \in MasterRecord /\ m.cmd = master[c].cmd /\ m.slaveId = master[c].slaveId
        /\ m.waiting = master[c].waiting /\ m.blocking = master[c].blocking
    BY <1>1, <1>2, <2>3 DEF MasterRecord
  <2>5. MasterFine(m)
    BY <1>2, <2>4 DEF MasterFine
  <2> HIDE DEF m
  <2>6. /\ master' \in [Masters -> MasterRecord] /\ MasterInv' /\ master'[c] = m
        /\ \A d \in Masters \ {c} : master'[d] = master[d]
    BY <1>1, <2>1, <2>4, <2>5, MasterChanges
  <2>7. TypeOK'
    BY <2>1, <2>2, <2>6, <1>1, <1>2, ClientsStay, LinesStay, HistoryStays DEF TypeOK
  <2>8. GatewayInv'
    BY <2>2, <1>1 DEF GatewayInv
  <2>9. BlockedHasCommand'
    BY <1>2, <2>1, <2>4, <2>6 DEF BlockedHasCommand
  <2> QED
    BY <2>6, <2>7, <2>8, <2>9, <1>1, ClientsStay DEF ModbusInv
<1>5. CASE master[c].cmd /\ ~(master[c].retryCount > 0)
  <2> DEFINE m == [master[c] EXCEPT !.exceptioncode = code]
  <2>1. /\ Within("cancel") /\ master' = [master EXCEPT ![c] = m] /\ Signal(c, code)
    BY <1>5 DEF MasterTask
  <2>2. gw' \in GatewayRecord /\ gw'.client = c /\ gw'.at = "cancel"
    BY <2>1, <1>1, AtClient, WithinFacts
  <2>3. code \in ExceptionCodes
    BY <1>1, <1>2 DEF MasterRecord, ExceptionCodes
  <2>4. m \in MasterRecord /\ m.cmd = master[c].cmd /\ m.slaveId = master[c].slaveId
        /\ m.waiting = master[c].waiting /\ m.blocking = master[c].blocking
    BY <1>1, <1>2, <2>3 DEF MasterRecord
  <2>5. MasterFine(m)
    BY <1>2, <2>4 DEF MasterFine
  <2> HIDE DEF m, code
  <2>6. /\ master' \in [Masters -> MasterRecord] /\ MasterInv' /\ master'[c] = m
        /\ \A d \in Masters \ {c} : master'[d] = master[d]
    BY <1>1, <2>1, <2>4, <2>5, MasterChanges
  <2>7. /\ event' \in [Masters -> BOOLEAN] /\ ended' \in [Masters -> ExceptionCodes]
        /\ master[c].blocking => event'[c]
        /\ \A d \in Masters \ {c} : event'[d] = event[d]
    BY <1>1, <1>2, <2>1, <2>3 DEF Signal
  <2>8. TypeOK'
    BY <2>2, <2>6, <2>7, <1>1, ClientsStay, LinesStay, HistoryStays DEF TypeOK
  <2>9. GatewayInv'
    BY <2>2, <2>4, <2>6, <2>7, <1>1, <1>2, <1>5 DEF GatewayInv, MasterFine
  <2>10. BlockedHasCommand'
    BY <1>2, <1>5, <2>4, <2>6, <2>7 DEF BlockedHasCommand
  <2> QED
    BY <2>6, <2>8, <2>9, <2>10, <1>1, ClientsStay DEF ModbusInv
<1> QED
  BY <1>3, <1>4, <1>5

LEMMA MasterCancelStep ==
  ASSUME ModbusInv, NEW c \in Clients, MasterCancel(c)
  PROVE  ModbusInv'
<1> DEFINE m == [master[c] EXCEPT !.cmd = FALSE]
<1>1. /\ Running(c, "cancel") /\ Within("recv") /\ master' = [master EXCEPT ![c] = m]
      /\ sends' = [sends EXCEPT ![c] = 0]
      /\ UNCHANGED <<client, busy, event, lineVars, ended, timedOut>>
  BY DEF MasterCancel
<1>2. gw.client = c /\ gw.at = "cancel"
  BY <1>1, AtClient
<1>3. c \in Masters /\ client[c].state = "IDLE" /\ (master[c].waiting => event[c])
  BY <1>2 DEF ModbusInv, GatewayInv
<1>4. gw' \in GatewayRecord /\ gw'.client = c /\ gw'.at = "recv"
  BY <1>1, AtClient, WithinFacts
<1>5. /\ master[c] \in MasterRecord /\ MasterFine(master[c]) /\ event \in [Masters -> BOOLEAN]
      /\ sends' \in [Masters -> Nat] /\ BlockedHasCommand
  BY <1>1, <1>3 DEF ModbusInv, TypeOK, MasterInv
<1>6. m \in MasterRecord /\ ~m.cmd /\ m.waiting = master[c].waiting
      /\ m.blocking = master[c].blocking
  BY ZenonT(20), <1>5 DEF MasterRecord
<1>7. MasterFine(m)
  BY <1>5, <1>6 DEF MasterFine
<1> HIDE DEF m
<1>8. /\ master' \in [Masters -> MasterRecord] /\ MasterInv' /\ master'[c] = m
      /\ \A d \in Masters \ {c} : master'[d] = master[d]
  BY <1>1, <1>3, <1>6, <1>7, MasterChanges
<1>9. TypeOK'
  BY <1>1, <1>4, <1>5, <1>8, ClientsStay, LinesStay, HistoryStays DEF TypeOK
<1>10. GatewayInv'
  BY <1>1, <1>3, <1>4 DEF GatewayInv
<1>11. BlockedHasCommand'
  BY <1>1, <1>3, <1>5, <1>6, <1>8 DEF BlockedHasCommand
<1> QED
  BY <1>1, <1>8, <1>9, <1>10, <1>11, ClientsStay DEF ModbusInv

LEMMA MasterRecvMsgStep ==
  ASSUME ModbusInv, NEW c \in Clients, MasterRecvMsg(c)
  PROVE  ModbusInv'
<1> DEFINE msg == IF master[c].cmd THEN Request(c, master[c].slaveId, master[c].n)
                  ELSE client[c].msg
           r == TakesMessage(client[c], msg)
<1>1. /\ Running(c, "recv") /\ client' = [client EXCEPT ![c] = r] /\ Called(msg # None)
      /\ UNCHANGED <<busy, master, event, lineVars, ended, sends, timedOut>>
  BY DEF MasterRecvMsg, TakesMessage
<1>2. c \in Masters /\ client[c].state = "IDLE"
  BY <1>1, AtClient DEF ModbusInv, GatewayInv
<1>3. master[c] \in MasterRecord /\ MasterFine(master[c])
  BY <1>2 DEF ModbusInv, TypeOK, MasterInv
<1>4. master[c].cmd => master[c].slaveId \in Ids /\ master[c].n \in 0 .. Numbers - 1
  BY <1>3 DEF MasterRecord, MasterFine
<1>5. client[c] \in ClientRecord /\ client[c].msg \in Message \cup {None}
  BY AtClient DEF ClientRecord
<1>6. msg \in Message \cup {None}
  BY <1>4, <1>5, MessageFacts
<1> HIDE DEF msg
<1>7. r \in ClientRecord /\ r.state # "WAITING_SERVER_RESPONSE" /\ ClientFine(r)
  BY <1>5, <1>6, TakesMessageFacts
<1> HIDE DEF r
<1>8. ClientNow(c, r)
  BY <1>1, <1>2, <1>7, ClientMoves
<1>9. gw' \in GatewayRecord /\ gw'.at = "call"
  BY <1>1, AtClient, CalledFacts
<1>10. TypeOK'
  BY <1>1, <1>8, <1>9, MastersStay, LinesStay, HistoryStays DEF TypeOK, ClientNow
<1>11. GatewayInv'
  BY <1>9 DEF GatewayInv
<1> QED
  BY <1>1, <1>8, <1>10, <1>11, MastersStay DEF ModbusInv, ClientNow

LEMMA RoutingStep ==
  ASSUME ModbusInv, NEW c \in Clients, Routing(c)
  PROVE  ModbusInv'
<1>1. /\ client[c].state = "ROUTING" /\ Running(c, "call")
      /\ UNCHANGED <<busy, master, event, lineVars, ended, sends, timedOut>>
  BY DEF Routing, InState
<1>2. client[c] \in ClientRecord /\ client[c].msg \in Message
  BY <1>1, AtClient DEF ClientFine
<1>3. \E r : ClientNow(c, r)
  <2>1. CASE Candidates(client[c].msg.id) = {}
    <3>1. client' = [client EXCEPT ![c] = Idle(client[c].msg)]
      BY <2>1 DEF Routing
    <3> QED
      BY <1>1, <1>2, <3>1, IdleFacts, ClientMoves
  <2>2. CASE Candidates(client[c].msg.id) # {}
    <3>1. PICK s \in Route(client[c].msg.id) :
            client' = [client EXCEPT ![c] = [@ EXCEPT !.state = "SEND_MSG_TO_SERVER",
                                                      !.indexServer = s]]
      BY <2>2 DEF Routing
    <3>2. s \in Servers
      BY DEF Route, Candidates, Lines
    <3> DEFINE r == [client[c] EXCEPT !.state = "SEND_MSG_TO_SERVER", !.indexServer = s]
    <3>3. r \in ClientRecord /\ r.state = "SEND_MSG_TO_SERVER" /\ r.indexServer = s
          /\ r.msg = client[c].msg
      BY <1>2, <3>2 DEF ClientRecord
    <3>4. client' = [client EXCEPT ![c] = r]
      BY <3>1
    <3> HIDE DEF r
    <3>5. ClientFine(r)
      BY <1>2, <3>2, <3>3 DEF ClientFine
    <3> QED
      BY <1>1, <3>3, <3>4, <3>5, ClientMoves
  <2> QED
    BY <2>1, <2>2
<1>4. \E p : Called(p)
  BY DEF Routing
<1>5. gw' \in GatewayRecord /\ gw'.at = "call"
  BY <1>1, <1>4, AtClient, CalledFacts
<1>6. TypeOK'
  BY <1>1, <1>3, <1>5, MastersStay, LinesStay, HistoryStays DEF TypeOK, ClientNow
<1>7. GatewayInv'
  BY <1>5 DEF GatewayInv
<1> QED
  BY <1>1, <1>3, <1>6, <1>7, MastersStay DEF ModbusInv, ClientNow

\* A frame sent may come back as an answer, at a line of no message.
LEMMA FramedFacts ==
  ASSUME InboxTyped, NEW s \in Servers, NEW msg \in Message, Framed(s, msg)
  PROVE  /\ InboxTyped'
         /\ \A u \in Lines \ {s} : Arrived(u)' = Arrived(u)
         /\ s \in Lines => Arrived(s)' \in {Arrived(s), [msg EXCEPT !.kind = "response"]}
         /\ s \in Lines /\ Arrived(s)' # Arrived(s) => inbox[ServerEnd(s)] = Unfinished
         /\ \A c \in Clients \ Masters : inbox'[ClientEnd(c)] = inbox[ClientEnd(c)]
<1>1. CASE UNCHANGED inbox
  BY <1>1, InboxStays
<1>2. CASE s \in Lines /\ inbox[ServerEnd(s)] = Unfinished
  <2>1. PICK back \in {None, [msg EXCEPT !.kind = "response"]} :
          inbox' = [inbox EXCEPT ![ServerEnd(s)] = back]
    BY <1>2 DEF Framed
  <2>2. back \in Message \cup {None} /\ back # Unfinished /\ Arrived(s) = None
    BY <1>2, MessageFacts DEF Arrived
  <2>3. /\ InboxTyped' /\ Arrived(s)' = back
        /\ \A u \in Lines \ {s} : Arrived(u)' = Arrived(u)
        /\ \A c \in Clients \ Masters : inbox'[ClientEnd(c)] = inbox[ClientEnd(c)]
    BY <1>2, <2>1, <2>2, ServerEndChanges
  <2> QED
    BY <1>2, <2>1, <2>2, <2>3
<1> QED
  BY <1>1, <1>2 DEF Framed

LEMMA SendMsgToServerStep ==
  ASSUME ModbusInv, NEW c \in Clients, SendMsgToServer(c)
  PROVE  ModbusInv'
<1> DEFINE s == client[c].indexServer
           r == [client[c] EXCEPT !.state = "WAITING_SERVER_RESPONSE", !.timeout = RespTimeout]
<1>1. /\ client[c].state = "SEND_MSG_TO_SERVER" /\ Running(c, "call")
      /\ UNCHANGED <<master, event, next, ended, timedOut>>
  BY DEF SendMsgToServer, InState
<1>2. client[c] \in ClientRecord /\ client[c].msg \in Message /\ s \in Servers
  BY <1>1, AtClient DEF ClientFine
<1>3. \E p : Called(p)
  BY DEF SendMsgToServer, SendNow
<1>4. gw' \in GatewayRecord /\ gw'.at = "call"
  BY <1>1, <1>3, AtClient, CalledFacts
<1>5. GatewayInv'
  BY <1>4 DEF GatewayInv
<1>6. CASE busy[s]
  <2>1. UNCHANGED <<client, busy, pending, inbox, sends>>
    BY <1>6 DEF SendMsgToServer
  <2>2. TypeOK'
    BY <1>1, <1>4, <2>1, ClientsStay, MastersStay, LinesStay, HistoryStays DEF TypeOK, lineVars
  <2> QED
    BY <1>1, <1>5, <2>1, <2>2, ClientsStay, MastersStay DEF ModbusInv
<1>7. CASE ~busy[s]
  <2>1. SendNow(c)
    BY <1>7 DEF SendMsgToServer
  <2>2. client' = [client EXCEPT ![c] = r] /\ busy' = [busy EXCEPT ![s] = TRUE]
    BY <2>1 DEF SendNow
  <2>3. r \in ClientRecord /\ r.state = "WAITING_SERVER_RESPONSE" /\ r.indexServer = s
        /\ r.msg = client[c].msg
    <3>1. RespTimeout \in 0 .. RespTimeout
      BY DEF ModbusAssumption
    <3> QED
      BY <1>2, <3>1 DEF ClientRecord
  <2> HIDE DEF r, s
  <2>4. ClientFine(r)
    BY <1>2, <2>3 DEF ClientFine
  <2>5. ClientNow(c, r)
    BY <1>1, <1>2, <1>7, <2>2, <2>3, <2>4, ClientBegins
  <2>6. pending' \in [Lines -> SUBSET Message]
    <3>1. pending \in [Lines -> SUBSET Message]
      BY DEF ModbusInv, TypeOK
    <3>2. \/ pending' = pending
          \/ pending' = [pending EXCEPT ![s] = @ \cup {client[c].msg}]
      BY <2>1 DEF SendNow, s
    <3> QED
      BY <1>2, <3>1, <3>2
  <2>7. sends' \in [Masters -> Nat]
    <3>1. sends \in [Masters -> Nat]
      BY DEF ModbusInv, TypeOK
    <3>2. sends' = sends \/ sends' = [sends EXCEPT ![c] = @ + 1]
      BY <2>1 DEF SendNow
    <3> QED
      BY <3>1, <3>2
  <2>8. InboxTyped'
    <3>1. InboxTyped /\ Framed(s, client[c].msg)
      BY <2>1 DEF SendNow, s, ModbusInv, TypeOK
    <3> QED
      BY <1>2, <3>1, FramedFacts
  <2>9. TypeOK'
    BY <1>1, <1>4, <2>5, <2>6, <2>7, <2>8, MastersStay DEF ModbusInv, TypeOK, ClientNow
  <2> QED
    BY <1>1, <1>5, <2>5, <2>9, MastersStay DEF ModbusInv, ClientNow
<1> QED
  BY <1>6, <1>7

\* What comes in is a message; a slave always has an answer.
LEMMA ReceivedFacts ==
  ASSUME ModbusInv, NEW s \in Servers
  PROVE  /\ Received(s) \subseteq Message \cup {None}
         /\ s \notin Lines => Received(s) \subseteq Message
<1>1. CASE s \in Lines
  <2>1. InboxTyped
    BY DEF ModbusInv, TypeOK
  <2> QED
    BY <1>1, <2>1, InboxFacts DEF Received
<1>2. CASE s \notin Lines
  <2>1. \A d \in Clients : client[d].state = "WAITING_SERVER_RESPONSE" /\ client[d].indexServer = s =>
          [client[d].msg EXCEPT !.kind = "response"] \in Message
    BY <1>2, MessageFacts DEF ModbusInv, ClientInv, ClientFine
  <2> QED
    BY <1>2, <2>1 DEF Received
<1> QED
  BY <1>1, <1>2

LEMMA EmptiedFacts ==
  ASSUME ModbusInv, NEW s \in Servers, Emptied(s), UNCHANGED <<pending, next>>
  PROVE  /\ pending' \in [Lines -> SUBSET Message]
         /\ InboxTyped'
         /\ next' \in [Masters -> 0 .. Numbers - 1]
<1>1. InboxTyped'
  BY ServerEndChanges, InboxStays DEF ModbusInv, TypeOK, Emptied
<1> QED
  BY <1>1 DEF ModbusInv, TypeOK

LEMMA WaitTimeoutStep ==
  ASSUME ModbusInv, NEW c \in Clients, WaitTimeout(c)
  PROVE  ModbusInv'
<1> DEFINE s == client[c].indexServer
<1>1. /\ client[c].state = "WAITING_SERVER_RESPONSE" /\ Running(c, "call")
      /\ None \in Received(s) /\ Called(FALSE)
      /\ UNCHANGED <<master, event, pending, next, ended, sends>>
  BY DEF WaitTimeout, InState
<1>2. client[c] \in ClientRecord /\ s \in Servers
  BY <1>1, AtClient DEF ClientFine
<1>3. s \in Lines
  BY <1>1, <1>2, ReceivedFacts, MessageFacts
<1>4. \E r : ClientNow(c, r)
  <2>1. CASE client[c].timeout # 0
    <3> DEFINE r == [client[c] EXCEPT !.msg = None, !.timeout = @ - 1]
    <3>1. client' = [client EXCEPT ![c] = r] /\ busy' = busy
      BY <2>1 DEF WaitTimeout
    <3>2. client[c].timeout - 1 \in 0 .. RespTimeout
      BY <1>2, <2>1 DEF ClientRecord
    <3>3. r \in ClientRecord /\ r.state = client[c].state /\ r.indexServer = s
      BY <1>2, <3>2 DEF ClientRecord
    <3> HIDE DEF r
    <3>4. ClientFine(r)
      BY <1>1, <1>2, <1>3, <3>3 DEF ClientFine
    <3> QED
      BY <3>1, <3>3, <3>4, ClientGoesOn
  <2>2. CASE client[c].timeout = 0
    <3>1. client' = [client EXCEPT ![c] = Idle(None)] /\ busy' = [busy EXCEPT ![s] = FALSE]
      BY <2>2 DEF WaitTimeout, GiveUp
    <3> QED
      BY <1>1, <3>1, IdleFacts, ClientStops
  <2> QED
    BY <2>1, <2>2
<1>5. timedOut' \in [Servers -> BOOLEAN] /\ InboxTyped'
  <2>1. /\ timedOut' = timedOut \/ timedOut' = [timedOut EXCEPT ![s] = TRUE]
        /\ \/ inbox' = inbox
           \/ s \in Lines /\ inbox' = [inbox EXCEPT ![ServerEnd(s)] = Unfinished]
    BY DEF WaitTimeout, GiveUp
  <2>2. InboxTyped /\ timedOut \in [Servers -> BOOLEAN]
    BY DEF ModbusInv, TypeOK
  <2> HIDE DEF s
  <2>3. InboxTyped'
    BY <2>1, <2>2, InboxStays, ServerEndChanges
  <2> QED
    BY <1>2, <2>1, <2>2, <2>3
<1>6. gw' \in GatewayRecord /\ gw'.at = "call"
  BY <1>1, AtClient, CalledFacts
<1>7. pending' \in [Lines -> SUBSET Message] /\ next' \in [Masters -> 0 .. Numbers - 1]
  BY <1>1 DEF ModbusInv, TypeOK
<1>8. TypeOK'
  BY <1>1, <1>4, <1>5, <1>6, <1>7, MastersStay, HistoryStays DEF TypeOK, ClientNow
<1>9. GatewayInv'
  BY <1>6 DEF GatewayInv
<1> QED
  BY <1>1, <1>4, <1>8, <1>9, MastersStay DEF ModbusInv, ClientNow

LEMMA WaitTransportStep ==
  ASSUME ModbusInv, NEW c \in Clients, WaitTransport(c)
  PROVE  ModbusInv'
<1> DEFINE s == client[c].indexServer
<1>1. /\ client[c].state = "WAITING_SERVER_RESPONSE" /\ Running(c, "call")
      /\ client' = [client EXCEPT ![c] = Idle(None)] /\ busy' = [busy EXCEPT ![s] = FALSE]
      /\ Emptied(s) /\ Called(TRUE)
      /\ UNCHANGED <<master, event, pending, next, ended, sends, timedOut>>
  BY DEF WaitTransport, InState
<1>2. s \in Servers
  BY <1>1, AtClient DEF ClientFine
<1>3. ClientNow(c, Idle(None))
  BY <1>1, IdleFacts, ClientStops
<1>4. gw' \in GatewayRecord /\ gw'.at = "call"
  BY <1>1, AtClient, CalledFacts
<1>5. TypeOK'
  BY <1>1, <1>2, <1>3, <1>4, EmptiedFacts, MastersStay, HistoryStays DEF TypeOK, ClientNow
<1>6. GatewayInv'
  BY <1>4 DEF GatewayInv
<1> QED
  BY <1>1, <1>3, <1>5, <1>6, MastersStay DEF ModbusInv, ClientNow

\* A response: of another slave, which is left alone; one that does not fit,
\* which only leaves its code; and the end of the command.
LEMMA WaitMasterStep ==
  ASSUME ModbusInv, NEW c \in Clients, WaitMaster(c)
  PROVE  ModbusInv'
<1> DEFINE s == client[c].indexServer
<1>1. /\ c \in Masters
      /\ client[c].state = "WAITING_SERVER_RESPONSE" /\ Running(c, "call")
      /\ Emptied(s) /\ UNCHANGED <<pending, next, sends, timedOut>>
  BY DEF WaitMaster, InState
<1>2. s \in Servers /\ client[c] \in ClientRecord
  BY <1>1, AtClient DEF ClientFine
<1>3. /\ master \in [Masters -> MasterRecord] /\ event \in [Masters -> BOOLEAN]
      /\ ended \in [Masters -> ExceptionCodes]
      /\ MasterFine(master[c]) /\ BlockedHasCommand
  BY <1>1 DEF ModbusInv, TypeOK, MasterInv
<1>4. PICK msg \in Received(s) \ {None} :
        IF msg.id # master[c].slaveId
          THEN /\ client' = [client EXCEPT ![c] = Idle(msg)]
               /\ busy' = [busy EXCEPT ![s] = FALSE]
               /\ Called(TRUE)
               /\ UNCHANGED <<master, event, ended>>
          ELSE \E code \in Outcomes(c) :
                 /\ master' = [master EXCEPT ![c].exceptioncode = code]
                 /\ IF code = "no_error"
                      THEN /\ Signal(c, code) /\ Within("finish")
                           /\ client' = [client EXCEPT ![c].msg = msg]
                           /\ UNCHANGED busy
                      ELSE /\ client' = [client EXCEPT ![c] = Idle(msg)]
                           /\ busy' = [busy EXCEPT ![s] = FALSE]
                           /\ Called(TRUE)
                           /\ UNCHANGED <<event, ended>>
  BY DEF WaitMaster
<1>5. msg \in Message
  BY <1>2, <1>4, ReceivedFacts
<1>6. CASE msg.id # master[c].slaveId
  <2>1. ClientNow(c, Idle(msg))
    BY <1>1, <1>4, <1>5, <1>6, IdleFacts, ClientStops
  <2>2. gw' \in GatewayRecord /\ gw'.at = "call"
    BY <1>1, <1>4, <1>6, AtClient, CalledFacts
  <2>3. TypeOK'
    BY <1>1, <1>2, <1>4, <1>6, <2>1, <2>2, EmptiedFacts, MastersStay, HistoryStays DEF TypeOK, ClientNow
  <2>4. GatewayInv'
    BY <2>2 DEF GatewayInv
  <2> QED
    BY <1>4, <1>6, <2>1, <2>3, <2>4, MastersStay DEF ModbusInv, ClientNow
<1>7. CASE msg.id = master[c].slaveId
  <2>1. PICK code \in Outcomes(c) :
          /\ master' = [master EXCEPT ![c].exceptioncode = code]
          /\ IF code = "no_error"
               THEN /\ Signal(c, code) /\ Within("finish")
                    /\ client' = [client EXCEPT ![c].msg = msg]
                    /\ UNCHANGED busy
               ELSE /\ client' = [client EXCEPT ![c] = Idle(msg)]
                    /\ busy' = [busy EXCEPT ![s] = FALSE]
                    /\ Called(TRUE)
                    /\ UNCHANGED <<event, ended>>
    BY <1>4, <1>7
  <2>2. code \in ExceptionCodes /\ (code = "no_error" => master[c].cmd)
    BY DEF Outcomes, ExceptionCodes
  <2> DEFINE m == [master[c] EXCEPT !.exceptioncode = code]
  <2>3. m \in MasterRecord /\ m.cmd = master[c].cmd /\ m.slaveId = master[c].slaveId
        /\ m.waiting = master[c].waiting /\ m.blocking = master[c].blocking
    BY <1>1, <1>3, <2>2 DEF MasterRecord
  <2>4. MasterFine(m) /\ master' = [master EXCEPT ![c] = m]
    BY <1>3, <2>1, <2>3 DEF MasterFine
  <2> HIDE DEF m
  <2>5. /\ master' \in [Masters -> MasterRecord] /\ MasterInv' /\ master'[c] = m
        /\ \A d \in Masters \ {c} : master'[d] = master[d]
    BY <1>1, <2>3, <2>4, MasterChanges
  <2>6. CASE code = "no_error"
    <3> DEFINE r == [client[c] EXCEPT !.msg = msg]
    <3>1. client' = [client EXCEPT ![c] = r] /\ busy' = busy
      BY <2>1, <2>6
    <3>2. r \in ClientRecord /\ r.state = client[c].state /\ r.indexServer = s /\ r.msg = msg
      BY <1>2, <1>5 DEF ClientRecord
    <3> HIDE DEF r
    <3>3. ClientFine(r)
      BY <1>1, <1>2, <1>5, <3>2 DEF ClientFine
    <3>4. ClientNow(c, r)
      BY <3>1, <3>2, <3>3, ClientGoesOn
    <3>5. /\ event' \in [Masters -> BOOLEAN] /\ ended' \in [Masters -> ExceptionCodes]
          /\ master[c].blocking => event'[c]
          /\ \A d \in Masters \ {c} : event'[d] = event[d]
      BY ZenonT(20), <1>1, <1>3, <2>1, <2>2, <2>6 DEF Signal
    <3>6. gw' \in GatewayRecord /\ gw'.client = c /\ gw'.at = "finish"
      BY <1>1, <2>1, <2>6, AtClient, WithinFacts
    <3>7. TypeOK'
      BY <1>1, <1>2, <2>5, <3>4, <3>5, <3>6, EmptiedFacts, HistoryStays DEF TypeOK, ClientNow
    <3>8. GatewayInv'
      BY <1>1, <1>3, <2>2, <2>3, <2>5, <2>6, <3>2, <3>4, <3>5, <3>6
      DEF GatewayInv, MasterFine, ClientNow
    <3>9. BlockedHasCommand'
      BY <1>3, <2>2, <2>3, <2>5, <2>6, <3>5 DEF BlockedHasCommand
    <3> QED
      BY <2>5, <3>4, <3>7, <3>8, <3>9 DEF ModbusInv, ClientNow
  <2>7. CASE code # "no_error"
    <3>1. ClientNow(c, Idle(msg))
      BY <1>1, <1>5, <2>1, <2>7, IdleFacts, ClientStops
    <3>2. gw' \in GatewayRecord /\ gw'.at = "call"
      BY <1>1, <2>1, <2>7, AtClient, CalledFacts
    <3>3. event' = event /\ ended' = ended
      BY <2>1, <2>7
    <3>4. TypeOK'
      BY <1>1, <1>2, <1>3, <2>5, <3>1, <3>2, <3>3, EmptiedFacts, HistoryStays DEF TypeOK, ClientNow
    <3>5. GatewayInv'
      BY <3>2 DEF GatewayInv
    <3>6. BlockedHasCommand'
      BY <1>3, <2>3, <2>5, <3>3 DEF BlockedHasCommand
    <3> QED
      BY <2>5, <3>1, <3>4, <3>5, <3>6 DEF ModbusInv, ClientNow
  <2> QED
    BY <2>6, <2>7
<1> QED
  BY <1>6, <1>7

LEMMA MasterFinishStep ==
  ASSUME ModbusInv, NEW c \in Clients, MasterFinish(c)
  PROVE  ModbusInv'
<1> DEFINE m == [master[c] EXCEPT !.cmd = FALSE]
           r == Idle(client[c].msg)
<1>1. /\ Running(c, "finish") /\ master' = [master EXCEPT ![c] = m]
      /\ client' = [client EXCEPT ![c] = r]
      /\ busy' = [busy EXCEPT ![client[c].indexServer] = FALSE]
      /\ sends' = [sends EXCEPT ![c] = 0] /\ Called(TRUE)
      /\ UNCHANGED <<event, lineVars, ended, timedOut>>
  BY DEF MasterFinish
<1>2. gw.client = c /\ gw.at = "finish"
  BY <1>1, AtClient
<1>3. /\ c \in Masters /\ client[c].state = "WAITING_SERVER_RESPONSE"
      /\ master[c].waiting => event[c]
  BY <1>2 DEF ModbusInv, GatewayInv
<1>4. gw' \in GatewayRecord /\ gw'.at = "call"
  BY <1>1, AtClient, CalledFacts
<1>5. /\ master[c] \in MasterRecord /\ MasterFine(master[c]) /\ event \in [Masters -> BOOLEAN]
      /\ sends' \in [Masters -> Nat] /\ BlockedHasCommand
  BY <1>1, <1>3 DEF ModbusInv, TypeOK, MasterInv
<1>6. m \in MasterRecord /\ ~m.cmd /\ m.waiting = master[c].waiting
      /\ m.blocking = master[c].blocking
  BY ZenonT(20), <1>5 DEF MasterRecord
<1>7. MasterFine(m)
  BY <1>5, <1>6 DEF MasterFine
<1>8. client[c].msg \in Message \cup {None}
  BY AtClient DEF ClientRecord
<1>9. ClientNow(c, r)
  BY <1>1, <1>3, <1>8, IdleFacts, ClientStops
<1> HIDE DEF m, r
<1>10. /\ master' \in [Masters -> MasterRecord] /\ MasterInv' /\ master'[c] = m
       /\ \A d \in Masters \ {c} : master'[d] = master[d]
  BY <1>1, <1>3, <1>6, <1>7, MasterChanges
<1>11. TypeOK'
  BY <1>1, <1>4, <1>5, <1>9, <1>10, LinesStay, HistoryStays DEF TypeOK, ClientNow
<1>12. GatewayInv'
  BY <1>4 DEF GatewayInv
<1>13. BlockedHasCommand'
  BY <1>1, <1>3, <1>5, <1>6, <1>10 DEF BlockedHasCommand
<1> QED
  BY <1>9, <1>10, <1>11, <1>12, <1>13 DEF ModbusInv, ClientNow

(***************************************************************************)
(* The tasks of the masters, and the lines                                 *)
(***************************************************************************)
LEMMA CommandStep ==
  ASSUME ModbusInv, NEW c \in Masters, NEW id \in Ids, NEW blocking \in BOOLEAN,
         Command(c, id, blocking)
  PROVE  ModbusInv'
<1> DEFINE m == [cmd |-> TRUE, slaveId |-> id, n |-> next[c], blocking |-> blocking,
                 waiting |-> blocking, retryCount |-> RetryComm, exceptioncode |-> "no_error"]
<1>1. /\ ~master[c].waiting /\ ~master[c].cmd
      /\ master' = [master EXCEPT ![c] = m]
      /\ next' = [next EXCEPT ![c] = (@ + 1) % Numbers]
      /\ UNCHANGED <<gw, client, busy, event, pending, inbox, ended, sends, timedOut>>
  BY DEF Command
<1>2. next \in [Masters -> 0 .. Numbers - 1]
  BY DEF ModbusInv, TypeOK
<1>3. next' \in [Masters -> 0 .. Numbers - 1]
  <2>1. (next[c] + 1) % Numbers \in 0 .. Numbers - 1
    BY <1>2
  <2> QED
    BY <1>1, <1>2, <2>1
<1>4. m \in MasterRecord /\ MasterFine(m) /\ m.cmd
  BY <1>2 DEF MasterRecord, MasterFine, ExceptionCodes
<1> HIDE DEF m
<1>5. /\ master' \in [Masters -> MasterRecord] /\ MasterInv' /\ master'[c] = m
      /\ \A d \in Masters \ {c} : master'[d] = master[d]
  BY <1>1, <1>4, MasterChanges
<1>6. TypeOK'
  BY <1>1, <1>3, <1>5, InboxStays DEF ModbusInv, TypeOK
<1>7. GatewayInv'
  BY <1>1, <1>5 DEF ModbusInv, GatewayInv
<1>8. BlockedHasCommand'
  BY <1>1, <1>4, <1>5 DEF ModbusInv, BlockedHasCommand
<1> QED
  BY <1>1, <1>5, <1>6, <1>7, <1>8, ClientsStay DEF ModbusInv

LEMMA ReturnStep ==
  ASSUME ModbusInv, NEW c \in Masters, Return(c)
  PROVE  ModbusInv'
<1> DEFINE m == [master[c] EXCEPT !.waiting = FALSE]
<1>1. /\ event' = [event EXCEPT ![c] = FALSE] /\ master' = [master EXCEPT ![c] = m]
      /\ ended' = [ended EXCEPT ![c] = "no_error"]
      /\ UNCHANGED <<gw, client, busy, lineVars, sends, timedOut>>
  BY DEF Return
<1>2. /\ master[c] \in MasterRecord /\ MasterFine(master[c]) /\ event \in [Masters -> BOOLEAN]
      /\ ended \in [Masters -> ExceptionCodes]
  BY DEF ModbusInv, TypeOK, MasterInv
<1>3. m \in MasterRecord /\ ~m.waiting /\ m.cmd = master[c].cmd /\ m.slaveId = master[c].slaveId
  BY ZenonT(20), <1>2 DEF MasterRecord
<1>4. MasterFine(m)
  BY <1>2, <1>3 DEF MasterFine
<1> HIDE DEF m
<1>5. /\ master' \in [Masters -> MasterRecord] /\ MasterInv' /\ master'[c] = m
      /\ \A d \in Masters \ {c} : master'[d] = master[d]
  BY <1>1, <1>3, <1>4, MasterChanges
<1>6. /\ event' \in [Masters -> BOOLEAN] /\ ended' \in [Masters -> ExceptionCodes]
      /\ \A d \in Masters \ {c} : event'[d] = event[d]
  BY <1>1, <1>2 DEF ExceptionCodes
<1>7. TypeOK'
  BY <1>1, <1>5, <1>6, ClientsStay, LinesStay DEF ModbusInv, TypeOK
<1>8. GatewayInv'
  BY <1>1, <1>3, <1>5, <1>6 DEF ModbusInv, GatewayInv
<1>9. BlockedHasCommand'
  BY <1>3, <1>5, <1>6 DEF ModbusInv, BlockedHasCommand
<1> QED
  BY <1>1, <1>5, <1>7, <1>8, <1>9, ClientsStay DEF ModbusInv

\* The lines change nothing but what they carry.
LEMMA LineStep ==
  ASSUME ModbusInv,
         UNCHANGED <<gw, client, busy, master, event, next, ended, sends, timedOut>>,
         pending' \in [Lines -> SUBSET Message], InboxTyped'
  PROVE  ModbusInv'
<1>1. TypeOK'
  BY DEF ModbusInv, TypeOK
<1>2. GatewayInv'
  BY DEF ModbusInv, GatewayInv
<1> QED
  BY <1>1, <1>2, ClientsStay, MastersStay DEF ModbusInv

LEMMA LinesSteps ==
  ASSUME ModbusInv
  PROVE  /\ \A c \in Clients, id \in Ids : RequestArrives(c, id) => ModbusInv'
         /\ \A s \in Lines : AnswerArrives(s) => ModbusInv'
         /\ \A s \in Lines : AnswerLost(s) => ModbusInv'
<1>1. InboxTyped /\ pending \in [Lines -> SUBSET Message]
  BY DEF ModbusInv, TypeOK
<1>2. ASSUME NEW c \in Clients, NEW id \in Ids, RequestArrives(c, id)
      PROVE  ModbusInv'
  <2>1. Request(c, id, 0) \in Message
    BY MessageFacts
  <2>2. InboxTyped'
    BY <1>1, <1>2, <2>1, ClientEndChanges DEF RequestArrives
  <2> QED
    BY <1>1, <1>2, <2>2, LineStep DEF RequestArrives
<1>3. ASSUME NEW s \in Lines, AnswerArrives(s)
      PROVE  ModbusInv'
  <2>1. PICK msg \in pending[s] :
          /\ pending' = [pending EXCEPT ![s] = @ \ {msg}]
          /\ inbox' = [inbox EXCEPT ![ServerEnd(s)] = [msg EXCEPT !.kind = "response"]]
    BY <1>3 DEF AnswerArrives
  <2>2. [msg EXCEPT !.kind = "response"] \in Message
    BY <1>1, MessageFacts
  <2>3. pending' \in [Lines -> SUBSET Message] /\ InboxTyped'
    BY <1>1, <2>1, <2>2, ServerEndChanges
  <2> QED
    BY <1>3, <2>3, LineStep DEF AnswerArrives
<1>4. ASSUME NEW s \in Lines, AnswerLost(s)
      PROVE  ModbusInv'
  <2>1. pending' \in [Lines -> SUBSET Message]
    BY <1>1, <1>4 DEF AnswerLost
  <2> QED
    BY <1>1, <1>4, <2>1, InboxStays, LineStep DEF AnswerLost
<1> QED
  BY <1>2, <1>3, <1>4

(***************************************************************************)
(* The invariant, and what it says                                         *)
(***************************************************************************)
THEOREM ModbusInvariant == Spec => []ModbusInv
<1>1. ASSUME ModbusInv, Next
      PROVE  ModbusInv'
  <2>1. CASE Gateway
    BY <1>1, <2>1, MainTaskStep, IdleTransportStep, MasterTaskStep, MasterCancelStep,
       MasterRecvMsgStep, RoutingStep, SendMsgToServerStep, WaitTimeoutStep, WaitTransportStep,
       WaitMasterStep, MasterFinishStep DEF Gateway, ClientProcess
  <2>2. CASE \E c \in Masters, id \in Ids, blocking \in BOOLEAN : Command(c, id, blocking)
    BY <1>1, <2>2, CommandStep
  <2>3. CASE \E c \in Masters : Return(c)
    BY <1>1, <2>3, ReturnStep
  <2>4. CASE \/ \E c \in Clients, id \in Ids : RequestArrives(c, id)
             \/ \E s \in Lines : AnswerArrives(s) \/ AnswerLost(s)
    BY <1>1, <2>4, LinesSteps
  <2> QED
    BY <1>1, <2>1, <2>2, <2>3, <2>4 DEF Next
<1>2. ASSUME ModbusInv, UNCHANGED vars
      PROVE  ModbusInv'
  BY <1>2, LineStep, LinesStay DEF vars, lineVars
<1> QED
  BY <1>1, <1>2, InitInv, PTL DEF Spec

\* The types, and with them the bounds: a client is called LIMIT_CALLS times
\* at most in a run, timeouts and retries do not fall below 0, no client that
\* has nothing to send sends.
THEOREM TypeCorrect == Spec => []TypeOK
<1>1. ModbusInv => TypeOK
  BY DEF ModbusInv
<1> QED
  BY <1>1, ModbusInvariant, PTL

\* A server is busy exactly while one client waits for it.
THEOREM BusyServersAreOwned == Spec => []BusyIsOwned
<1>1. ModbusInv => BusyIsOwned
  BY DEF ModbusInv
<1> QED
  BY <1>1, ModbusInvariant, PTL

\* No task is left waiting for a command that is over.
THEOREM BlockedTasksHaveCommands == Spec => []BlockedHasCommand
<1>1. ModbusInv => BlockedHasCommand
  BY DEF ModbusInv
<1> QED
  BY <1>1, ModbusInvariant, PTL

(***************************************************************************)
(* The answers of the lines.  What a client has to send is its own, but    *)
(* for a late answer it took for one, which names a slave of a line that   *)
(* was given up once; and what a line carries was routed to it.            *)
(***************************************************************************)
Owns(c, msg) == msg.from = c \/ \A s \in Route(msg.id) : timedOut[s]

MsgFine(c, r) ==
  r.msg # None =>
    /\ Owns(c, r.msg)
    /\ r.state \in {"SEND_MSG_TO_SERVER", "WAITING_SERVER_RESPONSE"} =>
         r.indexServer \in Route(r.msg.id)
ClientMsgs == \A c \in Clients : MsgFine(c, client[c])

Carried(s, msg) == msg # None => s \in Route(msg.id)
LineMsgs ==
  /\ \A s \in Lines : Carried(s, Arrived(s)) /\ \A msg \in pending[s] : Carried(s, msg)
  /\ \A c \in Clients \ Masters : inbox[ClientEnd(c)] # None => inbox[ClientEnd(c)].from = c

\* A line that was never given up has one request to answer or one answer to
\* give, which is that of the client that waits for it, until that takes it.
Quiet(s) == pending[s] = {} /\ Arrived(s) = None
Finishing(s) == gw.at = "finish" /\ client[gw.client].indexServer = s
OneAnswer(s) ==
  /\ \A msg \in pending[s] : WaitsFor(msg.from, s)
  /\ Arrived(s) # None => WaitsFor(Arrived(s).from, s)
  /\ \A m, n \in pending[s] : m = n
  /\ Arrived(s) # None => pending[s] = {}
  /\ Finishing(s) => Quiet(s)
Answers == \A s \in Lines : ~timedOut[s] => OneAnswer(s)

AnswerInv == ClientMsgs /\ LineMsgs /\ Answers

\* Only a wait that was given up leaves an unfinished frame.
GivenUp == \A s \in Lines : inbox[ServerEnd(s)] = Unfinished => timedOut[s]

\* A request goes to one server, and the ends of the lines are told apart.
LEMMA RouteFacts ==
  /\ \A id : Route(id) \subseteq Servers
  /\ \A id : \A s, u \in Route(id) : s = u
<1>1. \A id : Candidates(id) \subseteq Servers
  BY DEF Candidates, Lines
<1>2. \A id : Route(id) \subseteq Servers
  BY <1>1 DEF Route
<1>3. ASSUME NEW id, NEW s \in Route(id), NEW u \in Route(id)
      PROVE  s = u
  <2>1. s <= u /\ u <= s
    BY DEF Route
  <2>2. s \in Int /\ u \in Int
    BY <1>2 DEF Servers
  <2> QED
    BY <2>1, <2>2
<1> QED
  BY <1>2, <1>3

LEMMA OwnsLater ==
  ASSUME \A s \in Servers : timedOut[s] => timedOut'[s]
  PROVE  \A c, msg : Owns(c, msg) => Owns(c, msg)'
BY RouteFacts DEF Owns

LEMMA MsgFineLater ==
  ASSUME \A s \in Servers : timedOut[s] => timedOut'[s]
  PROVE  \A c, r : MsgFine(c, r) => MsgFine(c, r)'
BY OwnsLater DEF MsgFine

\* One client changes, and is fine.
LEMMA ClientMsgsKept ==
  ASSUME ModbusInv, ClientMsgs, NEW c \in Clients, NEW r, MsgFine(c, r),
         client' = [client EXCEPT ![c] = r],
         \A s \in Servers : timedOut[s] => timedOut'[s]
  PROVE  ClientMsgs'
<1>1. \A d \in Clients : MsgFine(d, client[d])
  BY DEF ClientMsgs
<1>2. client \in [Clients -> ClientRecord]
  BY DEF ModbusInv, TypeOK
<1>3. \A d \in Clients : client'[d] = IF d = c THEN r ELSE client[d]
  BY <1>2
<1>4. \A d \in Clients : MsgFine(d, client'[d])
  BY <1>1, <1>3
<1>5. \A d, q : MsgFine(d, q) => MsgFine(d, q)'
  BY MsgFineLater
<1>6. ClientMsgs' <=> \A d \in Clients : MsgFine(d, client[d])'
  BY DEF ClientMsgs
<1> QED
  BY <1>4, <1>5, <1>6 DEF MsgFine, Owns

\* A line nothing happens to; one nobody waits for; and the rest.
LEMMA LineKept ==
  ASSUME ModbusInv, NEW s \in Lines, OneAnswer(s),
         pending'[s] = pending[s], Arrived(s)' = Arrived(s),
         \A d \in Clients : WaitsFor(d, s) => WaitsFor(d, s)',
         Finishing(s)' => Finishing(s)
  PROVE  OneAnswer(s)'
<1>1. pending[s] \subseteq Message /\ Arrived(s) \in Message \cup {None}
  BY InboxFacts DEF ModbusInv, TypeOK
<1>2. \A msg \in Message : msg.from \in Clients
  BY DEF Message
<1>3. /\ \A msg \in pending[s] : WaitsFor(msg.from, s)'
      /\ Arrived(s) # None => WaitsFor(Arrived(s).from, s)'
  BY <1>1, <1>2 DEF OneAnswer
<1> QED
  BY <1>3 DEF OneAnswer, Quiet

LEMMA NobodyWaits ==
  ASSUME ModbusInv, NEW s \in Lines, OneAnswer(s), \A d \in Clients : ~WaitsFor(d, s)
  PROVE  Quiet(s)
<1>1. pending[s] \subseteq Message /\ Arrived(s) \in Message \cup {None}
  BY InboxFacts DEF ModbusInv, TypeOK
<1>2. \A msg \in Message : msg.from \in Clients
  BY DEF Message
<1> QED
  BY <1>1, <1>2 DEF OneAnswer, Quiet

LEMMA QuietIsFine ==
  ASSUME NEW s \in Lines, Quiet(s)'
  PROVE  OneAnswer(s)'
BY DEF OneAnswer, Quiet

LEMMA OneLineChanges ==
  ASSUME ModbusInv, Answers, NEW s,
         \A u \in Lines \ {s} : /\ pending'[u] = pending[u]
                                /\ Arrived(u)' = Arrived(u)
                                /\ \A d \in Clients : WaitsFor(d, u) => WaitsFor(d, u)'
                                /\ Finishing(u)' => Finishing(u)
                                /\ timedOut[u] => timedOut'[u],
         s \in Lines /\ ~timedOut'[s] => OneAnswer(s)'
  PROVE  Answers'
<1>1. ASSUME NEW u \in Lines \ {s}, ~timedOut'[u]
      PROVE  OneAnswer(u)'
  BY <1>1, LineKept DEF Answers
<1> QED
  BY <1>1 DEF Answers

\* Nothing happens on the lines, and nobody begins or ends to wait.
LEMMA AnswersStay ==
  ASSUME ModbusInv, Answers, UNCHANGED <<pending, timedOut>>,
         \A s \in Lines : /\ Arrived(s)' = Arrived(s)
                          /\ \A d \in Clients : WaitsFor(d, s) => WaitsFor(d, s)'
                          /\ Finishing(s)' => Finishing(s)
  PROVE  Answers'
BY LineKept DEF Answers

LEMMA AllStay ==
  ASSUME ModbusInv, AnswerInv, UNCHANGED <<client, pending, inbox, timedOut>>,
         gw' = gw \/ gw'.at # "finish"
  PROVE  AnswerInv'
<1>1. ClientMsgs' /\ LineMsgs'
  BY InboxStays DEF AnswerInv, ClientMsgs, MsgFine, Owns, LineMsgs, Carried
<1>2. \A s \in Lines : /\ \A d \in Clients : WaitsFor(d, s) => WaitsFor(d, s)'
                       /\ Finishing(s)' => Finishing(s)
  BY DEF WaitsFor, Finishing
<1>3. Answers'
  BY <1>2, InboxStays, AnswersStay DEF AnswerInv
<1> QED
  BY <1>1, <1>3 DEF AnswerInv

\* A client that neither waits nor begins to.
LEMMA OneMoves ==
  ASSUME ModbusInv, AnswerInv, NEW c \in Clients, NEW r, MsgFine(c, r),
         client' = [client EXCEPT ![c] = r], client[c].state # "WAITING_SERVER_RESPONSE",
         UNCHANGED <<pending, timedOut>>,
         \A s \in Lines : Arrived(s)' = Arrived(s),
         \A d \in Clients \ Masters : inbox'[ClientEnd(d)] \in {inbox[ClientEnd(d)], None},
         gw'.at = "call"
  PROVE  AnswerInv'
<1>1. ClientMsgs'
  BY ClientMsgsKept DEF AnswerInv
<1>2. LineMsgs'
  BY DEF AnswerInv, LineMsgs, Carried
<1>3. client \in [Clients -> ClientRecord]
  BY DEF ModbusInv, TypeOK
<1>4. \A d \in Clients \ {c} : client'[d] = client[d]
  BY <1>3
<1>5. \A s \in Lines : /\ \A d \in Clients : WaitsFor(d, s) => WaitsFor(d, s)'
                       /\ ~Finishing(s)'
  BY <1>4 DEF WaitsFor, Finishing
<1>6. Answers'
  BY <1>5, AnswersStay DEF AnswerInv
<1> QED
  BY <1>1, <1>2, <1>6 DEF AnswerInv

LEMMA IdleMsgFine ==
  ASSUME NEW c \in Clients, NEW msg, msg # None => Owns(c, msg)
  PROVE  MsgFine(c, Idle(msg))
BY DEF MsgFine, Idle

LEMMA IdleTransportAnswers ==
  ASSUME ModbusInv, AnswerInv, NEW c \in Clients, IdleTransport(c)
  PROVE  AnswerInv'
<1> DEFINE msg == inbox[ClientEnd(c)]
           r == TakesMessage(client[c], msg)
<1>1. /\ c \notin Masters /\ client[c].state = "IDLE" /\ Running(c, "call")
      /\ client' = [client EXCEPT ![c] = r]
      /\ inbox' = [inbox EXCEPT ![ClientEnd(c)] = None]
      /\ UNCHANGED <<pending, timedOut>>
  BY DEF IdleTransport, InState, TakesMessage
<1>2. gw'.at = "call"
  BY <1>1, AtClient, CalledFacts DEF IdleTransport
<1>3. client[c] \in ClientRecord /\ InboxTyped
  BY DEF ModbusInv, TypeOK
<1>4. r.msg = msg /\ r.state \in {"IDLE", "ROUTING"}
  BY <1>3 DEF ClientRecord, TakesMessage
<1>5. msg # None => msg.from = c
  BY <1>1 DEF AnswerInv, LineMsgs
<1> HIDE DEF r, msg
<1>6. MsgFine(c, r)
  BY <1>4, <1>5 DEF MsgFine, Owns
<1>7. c \in Clients \ Masters /\ inbox' = [inbox EXCEPT ![ClientEnd(c)] = None]
  BY <1>1
<1>8. /\ \A s \in Lines : Arrived(s)' = Arrived(s)
      /\ \A d \in Clients \ Masters :
           inbox'[ClientEnd(d)] = IF d = c THEN None ELSE inbox[ClientEnd(d)]
  BY <1>3, <1>7, ClientEndChanges
<1> QED
  BY <1>1, <1>2, <1>6, <1>8, OneMoves

LEMMA MasterRecvMsgAnswers ==
  ASSUME ModbusInv, AnswerInv, NEW c \in Clients, MasterRecvMsg(c)
  PROVE  AnswerInv'
<1> DEFINE msg == IF master[c].cmd THEN Request(c, master[c].slaveId, master[c].n)
                  ELSE client[c].msg
           r == TakesMessage(client[c], msg)
<1>1. /\ Running(c, "recv") /\ client' = [client EXCEPT ![c] = r] /\ Called(msg # None)
      /\ UNCHANGED <<pending, inbox, timedOut>>
  BY DEF MasterRecvMsg, TakesMessage, lineVars
<1>2. client[c].state = "IDLE"
  BY <1>1, AtClient DEF ModbusInv, GatewayInv
<1>3. gw'.at = "call"
  BY <1>1, AtClient, CalledFacts
<1>4. client[c] \in ClientRecord
  BY AtClient
<1>5. r.msg = msg /\ r.state \in {"IDLE", "ROUTING"}
  BY <1>4 DEF ClientRecord, TakesMessage
<1>6. msg # None => Owns(c, msg)
  <2>1. client[c].msg # None => Owns(c, client[c].msg)
    BY DEF AnswerInv, ClientMsgs, MsgFine
  <2>2. Owns(c, Request(c, master[c].slaveId, master[c].n))
    BY DEF Owns, Request
  <2> QED
    BY <2>1, <2>2
<1> HIDE DEF r, msg
<1>7. MsgFine(c, r)
  BY <1>5, <1>6 DEF MsgFine
<1> QED
  BY <1>1, <1>2, <1>3, <1>7, InboxStays, OneMoves

LEMMA RoutingAnswers ==
  ASSUME ModbusInv, AnswerInv, NEW c \in Clients, Routing(c)
  PROVE  AnswerInv'
<1>1. /\ client[c].state = "ROUTING" /\ Running(c, "call")
      /\ UNCHANGED <<pending, inbox, timedOut>>
  BY DEF Routing, InState, lineVars
<1>2. \E p : Called(p)
  BY DEF Routing
<1>3. gw'.at = "call"
  BY <1>1, <1>2, AtClient, CalledFacts
<1>4. client[c] \in ClientRecord /\ client[c].msg # None /\ Owns(c, client[c].msg)
  BY <1>1, AtClient, MessageFacts DEF ClientFine, AnswerInv, ClientMsgs, MsgFine
<1>5. CASE Candidates(client[c].msg.id) = {}
  <2>1. client' = [client EXCEPT ![c] = Idle(client[c].msg)]
    BY <1>5 DEF Routing
  <2> QED
    BY <1>1, <1>3, <1>4, <2>1, IdleMsgFine, InboxStays, OneMoves
<1>6. CASE Candidates(client[c].msg.id) # {}
  <2>1. PICK s \in Route(client[c].msg.id) :
          client' = [client EXCEPT ![c] = [@ EXCEPT !.state = "SEND_MSG_TO_SERVER",
                                                    !.indexServer = s]]
    BY <1>6 DEF Routing
  <2> DEFINE r == [client[c] EXCEPT !.state = "SEND_MSG_TO_SERVER", !.indexServer = s]
  <2>2. client' = [client EXCEPT ![c] = r]
    BY <2>1
  <2>3. r.msg = client[c].msg /\ r.indexServer = s
    BY <1>4 DEF ClientRecord
  <2> HIDE DEF r
  <2>4. MsgFine(c, r)
    BY <1>4, <2>3 DEF MsgFine
  <2> QED
    BY <1>1, <1>3, <2>2, <2>4, InboxStays, OneMoves
<1> QED
  BY <1>5, <1>6

\* What c does leaves the lines alone that it does not wait for.
LEMMA OthersWait ==
  ASSUME ModbusInv, NEW c \in Clients, NEW r, client' = [client EXCEPT ![c] = r],
         NEW s, client[c].state = "WAITING_SERVER_RESPONSE" => client[c].indexServer = s
  PROVE  \A u \in Lines \ {s} : \A d \in Clients : WaitsFor(d, u) => WaitsFor(d, u)'
<1>1. client \in [Clients -> ClientRecord]
  BY DEF ModbusInv, TypeOK
<1>2. \A d \in Clients \ {c} : client'[d] = client[d]
  BY <1>1
<1>3. \A u \in Lines \ {s} : ~WaitsFor(c, u)
  BY DEF WaitsFor
<1> QED
  BY <1>2, <1>3 DEF WaitsFor

LEMMA SendMsgToServerAnswers ==
  ASSUME ModbusInv, AnswerInv, GivenUp, NEW c \in Clients, SendMsgToServer(c)
  PROVE  AnswerInv'
<1> DEFINE r == [client[c] EXCEPT !.state = "WAITING_SERVER_RESPONSE", !.timeout = RespTimeout]
<1>1. client[c].state = "SEND_MSG_TO_SERVER" /\ Running(c, "call") /\ UNCHANGED timedOut
  BY DEF SendMsgToServer, InState
<1>2. /\ client[c] \in ClientRecord
      /\ \E msg \in Message, s \in Servers : msg = client[c].msg /\ s = client[c].indexServer
  BY <1>1, AtClient DEF ClientFine
<1>3. PICK msg \in Message, s \in Servers : msg = client[c].msg /\ s = client[c].indexServer
  BY <1>2
<1>4. Owns(c, msg) /\ s \in Route(msg.id)
  BY <1>3, <1>1, MessageFacts DEF AnswerInv, ClientMsgs, MsgFine
<1>5. \E p : Called(p)
  BY DEF SendMsgToServer, SendNow
<1>6. gw'.at = "call"
  BY <1>1, <1>5, AtClient, CalledFacts
<1>7. CASE busy[s]
  <2>1. UNCHANGED <<client, pending, inbox>>
    BY <1>3, <1>7 DEF SendMsgToServer
  <2> QED
    BY <1>1, <1>6, <2>1, AllStay
<1>8. CASE ~busy[s]
  <2>1. /\ client' = [client EXCEPT ![c] = r]
        /\ \/ pending' = pending
           \/ s \in Lines /\ pending' = [pending EXCEPT ![s] = @ \cup {msg}]
        /\ Framed(s, msg)
    BY <1>3, <1>8 DEF SendMsgToServer, SendNow
  <2>2. r.state = "WAITING_SERVER_RESPONSE" /\ r.indexServer = s /\ r.msg = msg
    BY <1>3, <1>2 DEF ClientRecord
  <2>3. pending \in [Lines -> SUBSET Message] /\ client \in [Clients -> ClientRecord]
        /\ BusyIsOwned
    BY DEF ModbusInv, TypeOK
  <2>4. client'[c] = r
    BY <2>1, <2>3
  <2> HIDE DEF r
  <2>5. MsgFine(c, r)
    BY <1>4, <2>2 DEF MsgFine
  <2>6. ClientMsgs'
    BY <1>1, <2>1, <2>5, ClientMsgsKept DEF AnswerInv
  <2>7. \A d \in Clients : ~WaitsFor(d, s)
    BY <1>8, <2>3 DEF BusyIsOwned
  <2>8. WaitsFor(c, s)'
    BY <2>2, <2>4 DEF WaitsFor
  <2>9. \A u \in Lines : pending'[u] = pending[u] \/ (u = s /\ pending'[u] = pending[u] \cup {msg})
    BY <2>1, <2>3
  <2>10. /\ \A u \in Lines \ {s} : Arrived(u)' = Arrived(u)
         /\ s \in Lines => Arrived(s)' \in {Arrived(s), [msg EXCEPT !.kind = "response"]}
         /\ s \in Lines /\ Arrived(s)' # Arrived(s) => inbox[ServerEnd(s)] = Unfinished
         /\ \A d \in Clients \ Masters : inbox'[ClientEnd(d)] = inbox[ClientEnd(d)]
    BY <2>1, FramedFacts DEF ModbusInv, TypeOK
  <2>11. LineMsgs'
    <3>1. \A u \in Lines : \A m \in pending'[u] : Carried(u, m)
      BY <1>4, <2>9 DEF AnswerInv, LineMsgs, Carried
    <3>2. [msg EXCEPT !.kind = "response"].id = msg.id
      BY DEF Message
    <3>3. \A u \in Lines : Carried(u, Arrived(u)')
      BY <1>4, <2>10, <3>2 DEF AnswerInv, LineMsgs, Carried
    <3> QED
      BY <2>10, <3>1, <3>3 DEF AnswerInv, LineMsgs, Carried
  <2>12. ASSUME s \in Lines, ~timedOut[s]
         PROVE  OneAnswer(s)'
    <3>1. Quiet(s)
      BY <2>7, <2>12, NobodyWaits DEF AnswerInv, Answers
    <3>2. msg.from = c
      BY <1>4, <2>12 DEF Owns
    <3>3. pending'[s] \subseteq {msg} /\ Arrived(s)' = None
      BY <2>9, <2>12, <2>10, <3>1 DEF Quiet, GivenUp
    <3>4. ~Finishing(s)'
      BY <1>6 DEF Finishing
    <3> QED
      BY <2>8, <3>2, <3>3, <3>4 DEF OneAnswer
  <2>13. \A u \in Lines \ {s} : \A d \in Clients : WaitsFor(d, u) => WaitsFor(d, u)'
    BY <1>3, <1>1, <2>1, OthersWait
  <2>14. Answers'
    BY <1>1, <1>6, <2>9, <2>12, <2>13, <2>10, OneLineChanges DEF AnswerInv, Finishing
  <2> QED
    BY <2>6, <2>11, <2>14 DEF AnswerInv
<1> QED
  BY <1>7, <1>8

LEMMA LineMsgsStay ==
  ASSUME LineMsgs, UNCHANGED pending,
         \A s \in Lines : Arrived(s)' = Arrived(s),
         \A c \in Clients \ Masters : inbox'[ClientEnd(c)] = inbox[ClientEnd(c)]
  PROVE  LineMsgs'
<1>1. \A s \in Lines : Arrived(s)' # None => s \in Route(Arrived(s)'.id)
  BY DEF LineMsgs, Carried
<1>2. \A s \in Lines : \A msg \in pending'[s] : msg # None => s \in Route(msg.id)
  BY DEF LineMsgs, Carried
<1>3. \A c \in Clients \ Masters : inbox'[ClientEnd(c)] # None => inbox'[ClientEnd(c)].from = c
  BY DEF LineMsgs
<1> QED
  BY <1>1, <1>2, <1>3 DEF LineMsgs, Carried

\* The server of c is quiet after it, or was given up, or is finished with.
LEMMA OneStops ==
  ASSUME ModbusInv, AnswerInv, NEW c \in Clients, NEW r, MsgFine(c, r),
         client' = [client EXCEPT ![c] = r], NEW s, s = client[c].indexServer,
         LineMsgs', UNCHANGED pending,
         \A u \in Lines \ {s} : /\ Arrived(u)' = Arrived(u)
                                /\ ~Finishing(u)',
         \A u \in Servers : timedOut[u] => timedOut'[u],
         s \in Lines /\ ~timedOut'[s] => Quiet(s)'
  PROVE  AnswerInv'
<1>1. ClientMsgs'
  BY ClientMsgsKept DEF AnswerInv
<1>2. \A u \in Lines \ {s} : \A d \in Clients : WaitsFor(d, u) => WaitsFor(d, u)'
  BY OthersWait
<1>3. s \in Lines /\ ~timedOut'[s] => OneAnswer(s)'
  BY QuietIsFine
<1>4. Lines \subseteq Servers
  BY DEF Lines
<1>5. Answers'
  BY <1>2, <1>3, <1>4, OneLineChanges DEF AnswerInv
<1> QED
  BY <1>1, <1>5 DEF AnswerInv

LEMMA WaitTimeoutAnswers ==
  ASSUME ModbusInv, AnswerInv, NEW c \in Clients, WaitTimeout(c)
  PROVE  AnswerInv'
<1>1. /\ client[c].state = "WAITING_SERVER_RESPONSE" /\ Running(c, "call")
      /\ Called(FALSE) /\ UNCHANGED pending
  BY DEF WaitTimeout, InState
<1>2. client[c] \in ClientRecord /\ client \in [Clients -> ClientRecord]
  BY DEF ModbusInv, TypeOK
<1>3. gw'.at = "call"
  BY <1>1, AtClient, CalledFacts
<1>4. /\ \A u \in Lines : Arrived(u)' = Arrived(u)
      /\ \A d \in Clients \ Masters : inbox'[ClientEnd(d)] = inbox[ClientEnd(d)]
  <2>1. PICK s \in Servers : s = client[c].indexServer
    BY <1>1, AtClient DEF ClientFine
  <2>2. /\ None \in Received(s)
        /\ \/ UNCHANGED inbox
           \/ s \in Lines /\ inbox' = [inbox EXCEPT ![ServerEnd(s)] = Unfinished]
    BY <2>1 DEF WaitTimeout, GiveUp
  <2>3. s \in Lines => Arrived(s) = None
    BY <2>2 DEF Received
  <2> QED
    BY <2>2, <2>3, InboxStays, ServerEndChanges DEF ModbusInv, TypeOK
<1>5. LineMsgs'
  <2>1. LineMsgs /\ pending' = pending
    BY <1>1 DEF AnswerInv
  <2> QED
    BY <1>4, <2>1, LineMsgsStay
<1>6. CASE client[c].timeout # 0
  <2> DEFINE r == [client[c] EXCEPT !.msg = None, !.timeout = @ - 1]
  <2>1. client' = [client EXCEPT ![c] = r] /\ timedOut' = timedOut
    BY <1>6 DEF WaitTimeout
  <2>2. r.msg = None /\ r.state = client[c].state /\ r.indexServer = client[c].indexServer
    BY <1>2 DEF ClientRecord
  <2> HIDE DEF r
  <2>3. ClientMsgs'
    BY <2>1, <2>2, ClientMsgsKept DEF AnswerInv, MsgFine
  <2>4. \A d \in Clients : client'[d].state = client[d].state
                           /\ client'[d].indexServer = client[d].indexServer
    BY <1>2, <2>1, <2>2
  <2>5. Answers'
    BY <1>1, <1>3, <1>4, <2>1, <2>4, AnswersStay DEF AnswerInv, WaitsFor, Finishing
  <2> QED
    BY <1>5, <2>3, <2>5 DEF AnswerInv
<1>7. CASE client[c].timeout = 0
  <2>1. /\ client' = [client EXCEPT ![c] = Idle(None)]
        /\ timedOut' = [timedOut EXCEPT ![client[c].indexServer] = TRUE]
    BY <1>7 DEF WaitTimeout, GiveUp
  <2>2. timedOut \in [Servers -> BOOLEAN] /\ client[c].indexServer \in Servers
    BY <1>1, AtClient DEF ClientFine, TypeOK
  <2>3. timedOut'[client[c].indexServer] /\ \A u \in Servers : timedOut[u] => timedOut'[u]
    BY <2>1, <2>2
  <2>4. MsgFine(c, Idle(None))
    BY IdleMsgFine
  <2> QED
    BY <1>1, <1>3, <1>4, <1>5, <2>1, <2>3, <2>4, OneStops DEF Finishing
<1> QED
  BY <1>6, <1>7

\* The answer a client takes is its own, or the line was given up once; and
\* no other is to come.
LEMMA ReceivedAnswers ==
  ASSUME ModbusInv, AnswerInv, NEW c \in Clients, NEW s \in Servers, WaitsFor(c, s),
         NEW msg \in Received(s) \ {None}
  PROVE  /\ Owns(c, msg) /\ s \in Route(msg.id)
         /\ s \in Lines /\ ~timedOut[s] => pending[s] = {}
<1>1. /\ \A u \in Lines : Carried(u, Arrived(u))
      /\ \A u \in Lines : ~timedOut[u] => OneAnswer(u)
      /\ MsgFine(c, client[c])
  BY DEF AnswerInv, LineMsgs, Answers, ClientMsgs
<1>2. BusyIsOwned /\ ClientFine(client[c])
  BY AtClient DEF ModbusInv
<1>3. CASE s \in Lines
  <2>1. msg = Arrived(s) /\ msg # None
    BY <1>3 DEF Received
  <2>2. s \in Route(msg.id)
    BY <1>1, <1>3, <2>1 DEF Carried
  <2>3. CASE timedOut[s]
    BY <1>3, <2>2, <2>3, RouteFacts DEF Owns
  <2>4. CASE ~timedOut[s]
    <3>1. pending[s] = {} /\ WaitsFor(msg.from, s)
      BY <1>1, <1>3, <2>1, <2>4 DEF OneAnswer
    <3>2. msg \in Message
      BY ReceivedFacts
    <3>3. msg.from = c
      BY <1>2, <3>1, <3>2 DEF BusyIsOwned, Message
    <3> QED
      BY <2>2, <3>1, <3>3 DEF Owns
  <2> QED
    BY <2>3, <2>4
<1>4. CASE s \notin Lines
  <2>1. PICK d \in Clients : WaitsFor(d, s) /\ msg = [client[d].msg EXCEPT !.kind = "response"]
    BY <1>4 DEF Received, WaitsFor
  <2>2. d = c
    BY <1>2, <2>1 DEF BusyIsOwned
  <2>3. /\ client[c].state = "WAITING_SERVER_RESPONSE" /\ client[c].indexServer = s
        /\ client[c].msg \in Message
    BY <1>2, <1>4 DEF WaitsFor, ClientFine
  <2>4. Owns(c, client[c].msg) /\ s \in Route(client[c].msg.id)
    BY <1>1, <2>3, MessageFacts DEF MsgFine
  <2>5. msg.from = client[c].msg.from /\ msg.id = client[c].msg.id
    BY <2>1, <2>2, <2>3 DEF Message
  <2> QED
    BY <1>4, <2>4, <2>5 DEF Owns
<1> QED
  BY <1>3, <1>4

LEMMA EmptiedLines ==
  ASSUME ModbusInv, LineMsgs, NEW s \in Servers, Emptied(s), UNCHANGED pending
  PROVE  /\ LineMsgs'
         /\ \A u \in Lines \ {s} : Arrived(u)' = Arrived(u)
         /\ s \in Lines => Arrived(s)' = None
<1>1. InboxTyped
  BY DEF ModbusInv, TypeOK
<1>2. \A u \in Lines : Arrived(u)' = IF u = s THEN None ELSE Arrived(u)
  BY <1>1, InboxStays, ServerEndChanges, MessageFacts DEF Emptied
<1>3. \A d \in Clients \ Masters : inbox'[ClientEnd(d)] = inbox[ClientEnd(d)]
  BY <1>1, InboxStays, ServerEndChanges DEF Emptied
<1> QED
  BY <1>2, <1>3 DEF LineMsgs, Carried

LEMMA WaitTransportAnswers ==
  ASSUME ModbusInv, AnswerInv, NEW c \in Clients, WaitTransport(c)
  PROVE  AnswerInv'
<1>1. client[c].state = "WAITING_SERVER_RESPONSE" /\ Running(c, "call")
  BY DEF WaitTransport, InState
<1>2. PICK s \in Servers : s = client[c].indexServer
  BY <1>1, AtClient DEF ClientFine
<1>3. /\ None \notin Received(s) /\ client' = [client EXCEPT ![c] = Idle(None)]
      /\ Emptied(s) /\ Called(TRUE) /\ UNCHANGED <<pending, timedOut>>
  BY <1>2 DEF WaitTransport
<1>4. gw'.at = "call"
  BY <1>1, <1>3, AtClient, CalledFacts
<1>5. /\ LineMsgs'
      /\ \A u \in Lines \ {s} : Arrived(u)' = Arrived(u)
      /\ s \in Lines => Arrived(s)' = None
  BY <1>3, EmptiedLines DEF AnswerInv
<1>6. ASSUME s \in Lines, ~timedOut'[s]
      PROVE  Quiet(s)'
  <2>1. Arrived(s) \in Received(s) \ {None}
    BY <1>3, <1>6 DEF Received
  <2>2. pending[s] = {}
    BY <1>1, <1>2, <1>3, <1>6, <2>1, ReceivedAnswers DEF WaitsFor
  <2> QED
    BY <1>3, <1>5, <1>6, <2>2 DEF Quiet
<1>7. MsgFine(c, Idle(None))
  BY IdleMsgFine
<1> QED
  BY <1>2, <1>3, <1>4, <1>5, <1>6, <1>7, OneStops DEF Finishing

\* Whether the answer ends the command or not, its client has it.
LEMMA WaitMasterAnswers ==
  ASSUME ModbusInv, AnswerInv, NEW c \in Clients, WaitMaster(c)
  PROVE  AnswerInv'
<1>1. client[c].state = "WAITING_SERVER_RESPONSE" /\ Running(c, "call")
  BY DEF WaitMaster, InState
<1>2. PICK s \in Servers : s = client[c].indexServer
  BY <1>1, AtClient DEF ClientFine
<1>3. Emptied(s) /\ UNCHANGED <<pending, timedOut>>
  BY <1>2 DEF WaitMaster
<1>4. PICK msg \in Received(s) \ {None} :
        \/ client' = [client EXCEPT ![c] = Idle(msg)] /\ Called(TRUE)
        \/ client' = [client EXCEPT ![c].msg = msg] /\ Within("finish")
  BY <1>2 DEF WaitMaster
<1>5. /\ Owns(c, msg) /\ s \in Route(msg.id)
      /\ s \in Lines /\ ~timedOut[s] => pending[s] = {}
  BY <1>1, <1>2, ReceivedAnswers DEF WaitsFor
<1>6. /\ LineMsgs'
      /\ \A u \in Lines \ {s} : Arrived(u)' = Arrived(u)
      /\ s \in Lines => Arrived(s)' = None
  BY <1>3, EmptiedLines DEF AnswerInv
<1>7. s \in Lines /\ ~timedOut'[s] => Quiet(s)'
  BY <1>3, <1>5, <1>6 DEF Quiet
<1>8. CASE client' = [client EXCEPT ![c] = Idle(msg)] /\ Called(TRUE)
  <2>1. gw'.at = "call"
    BY <1>1, <1>8, AtClient, CalledFacts
  <2>2. MsgFine(c, Idle(msg))
    BY <1>5, IdleMsgFine
  <2> QED
    BY <1>2, <1>3, <1>6, <1>7, <1>8, <2>1, <2>2, OneStops DEF Finishing
<1>9. CASE client' = [client EXCEPT ![c].msg = msg] /\ Within("finish")
  <2> DEFINE r == [client[c] EXCEPT !.msg = msg]
  <2>1. client \in [Clients -> ClientRecord]
    BY DEF ModbusInv, TypeOK
  <2>2. client' = [client EXCEPT ![c] = r]
    BY <1>9
  <2>3. r.msg = msg /\ r.indexServer = s
    BY <1>2, <2>1 DEF ClientRecord
  <2> HIDE DEF r
  <2>4. MsgFine(c, r)
    BY <1>5, <2>3 DEF MsgFine
  <2>5. gw'.client = c /\ client'[c].indexServer = s
    BY <1>1, <1>9, <2>1, <2>2, <2>3, AtClient, WithinFacts
  <2>6. \A u \in Lines \ {s} : ~Finishing(u)'
    BY <2>5 DEF Finishing
  <2> QED
    BY <1>2, <1>3, <1>6, <1>7, <2>2, <2>4, <2>6, OneStops
<1> QED
  BY <1>4, <1>8, <1>9

LEMMA MasterFinishAnswers ==
  ASSUME ModbusInv, AnswerInv, NEW c \in Clients, MasterFinish(c)
  PROVE  AnswerInv'
<1>1. /\ Running(c, "finish") /\ client' = [client EXCEPT ![c] = Idle(client[c].msg)]
      /\ Called(TRUE) /\ UNCHANGED <<pending, inbox, timedOut>>
  BY DEF MasterFinish, lineVars
<1>2. gw.client = c /\ gw.at = "finish" /\ gw'.at = "call"
  BY <1>1, AtClient, CalledFacts
<1>3. PICK s : s = client[c].indexServer
  OBVIOUS
<1>4. s \in Lines /\ ~timedOut[s] => Quiet(s)
  BY <1>2, <1>3 DEF AnswerInv, Answers, OneAnswer, Finishing
<1>5. MsgFine(c, Idle(client[c].msg))
  BY IdleMsgFine DEF AnswerInv, ClientMsgs, MsgFine
<1>6. LineMsgs' /\ \A u : Arrived(u)' = Arrived(u)
  BY <1>1, InboxStays, LineMsgsStay DEF AnswerInv
<1>7. \A u : ~Finishing(u)'
  BY <1>2 DEF Finishing
<1>8. s \in Lines /\ ~timedOut[s] => Quiet(s)'
  BY <1>1, <1>4, <1>6 DEF Quiet
<1> QED
  BY <1>1, <1>3, <1>5, <1>6, <1>7, <1>8, OneStops

LEMMA LinesAnswers ==
  ASSUME ModbusInv, AnswerInv
  PROVE  /\ \A c \in Clients, id \in Ids : RequestArrives(c, id) => AnswerInv'
         /\ \A s \in Lines : AnswerArrives(s) => AnswerInv'
         /\ \A s \in Lines : AnswerLost(s) => AnswerInv'
<1>1. InboxTyped /\ pending \in [Lines -> SUBSET Message]
  BY DEF ModbusInv, TypeOK
<1>2. ASSUME UNCHANGED <<client, timedOut>>
      PROVE  ClientMsgs'
  BY <1>2 DEF AnswerInv, ClientMsgs, MsgFine, Owns
<1>3. ASSUME gw' = gw, client' = client
      PROVE  \A u \in Lines : /\ \A d \in Clients : WaitsFor(d, u) => WaitsFor(d, u)'
                              /\ Finishing(u)' => Finishing(u)
  BY <1>3 DEF WaitsFor, Finishing
<1>4. ASSUME NEW c \in Clients, NEW id \in Ids, RequestArrives(c, id)
      PROVE  AnswerInv'
  <2>1. /\ c \notin Masters /\ inbox' = [inbox EXCEPT ![ClientEnd(c)] = Request(c, id, 0)]
        /\ UNCHANGED <<gw, client, pending, timedOut>>
    BY <1>4 DEF RequestArrives
  <2>2. Request(c, id, 0) \in Message
    BY MessageFacts
  <2>3. \A u \in Lines : Arrived(u)' = Arrived(u)
    BY <1>1, <2>1, <2>2, ClientEndChanges
  <2>4. \A d \in Clients \ Masters :
          inbox'[ClientEnd(d)] = IF d = c THEN Request(c, id, 0) ELSE inbox[ClientEnd(d)]
    BY <1>1, <2>1, <2>2, ClientEndChanges
  <2>5. LineMsgs'
    BY <2>1, <2>3, <2>4 DEF AnswerInv, LineMsgs, Carried, Request
  <2>6. \A u \in Lines : /\ \A d \in Clients : WaitsFor(d, u) => WaitsFor(d, u)'
                         /\ Finishing(u)' => Finishing(u)
    BY <1>3, <2>1
  <2>7. Answers'
    BY <2>1, <2>3, <2>6, AnswersStay DEF AnswerInv
  <2> QED
    BY <1>2, <2>1, <2>5, <2>7 DEF AnswerInv
<1>5. ASSUME NEW s \in Lines, AnswerArrives(s)
      PROVE  AnswerInv'
  <2>1. UNCHANGED <<gw, client, timedOut>>
    BY <1>5 DEF AnswerArrives
  <2>2. PICK msg \in pending[s] :
          /\ pending' = [pending EXCEPT ![s] = @ \ {msg}]
          /\ inbox' = [inbox EXCEPT ![ServerEnd(s)] = [msg EXCEPT !.kind = "response"]]
    BY <1>5 DEF AnswerArrives
  <2>3. PICK answer : answer = [msg EXCEPT !.kind = "response"]
    OBVIOUS
  <2>4. answer.from = msg.from /\ answer.id = msg.id /\ answer # None /\ answer \in Message
    BY <1>1, <2>3, MessageFacts DEF Message
  <2>5. \A u \in Lines : /\ pending'[u] = IF u = s THEN pending[s] \ {msg} ELSE pending[u]
                         /\ Arrived(u)' = IF u = s THEN answer ELSE Arrived(u)
    BY <1>1, <2>2, <2>3, <2>4, ServerEndChanges, MessageFacts
  <2>6. \A d \in Clients \ Masters : inbox'[ClientEnd(d)] = inbox[ClientEnd(d)]
    BY <1>1, <2>2, <2>3, <2>4, ServerEndChanges
  <2>7. msg # None
    BY <1>1, MessageFacts
  <2>8. LineMsgs'
    <3>1. Carried(s, msg)
      BY DEF AnswerInv, LineMsgs
    <3>2. Carried(s, answer)
      BY <2>4, <2>7, <3>1 DEF Carried
    <3> QED
      BY <2>5, <2>6, <3>2 DEF AnswerInv, LineMsgs
  <2>9. ASSUME ~timedOut'[s]
        PROVE  OneAnswer(s)'
    <3>1. OneAnswer(s)
      BY <2>1, <2>9 DEF AnswerInv, Answers
    <3>2. pending[s] = {msg} /\ WaitsFor(answer.from, s) /\ ~Finishing(s)
      BY <2>4, <3>1 DEF OneAnswer, Quiet
    <3>3. WaitsFor(answer.from, s)' /\ ~Finishing(s)'
      BY <2>1, <3>2 DEF WaitsFor, Finishing
    <3>4. pending'[s] = {} /\ Arrived(s)' = answer
      BY <2>5, <3>2
    <3> QED
      BY <2>4, <3>3, <3>4 DEF OneAnswer
  <2>10. \A u \in Lines : /\ \A d \in Clients : WaitsFor(d, u) => WaitsFor(d, u)'
                          /\ Finishing(u)' => Finishing(u)
    BY <1>3, <2>1
  <2>11. Answers'
    BY <2>1, <2>5, <2>9, <2>10, OneLineChanges DEF AnswerInv
  <2> QED
    BY <1>2, <2>1, <2>8, <2>11 DEF AnswerInv
<1>6. ASSUME NEW s \in Lines, AnswerLost(s)
      PROVE  AnswerInv'
  <2>1. UNCHANGED <<gw, client, inbox, timedOut>>
    BY <1>6 DEF AnswerLost
  <2>2. \A u \in Lines : pending'[u] \subseteq pending[u] /\ (u # s => pending'[u] = pending[u])
    BY <1>1, <1>6 DEF AnswerLost
  <2>3. LineMsgs'
    BY <2>1, <2>2, InboxStays DEF AnswerInv, LineMsgs, Carried
  <2>4. ASSUME ~timedOut'[s]
        PROVE  OneAnswer(s)'
    <3>1. OneAnswer(s)
      BY <2>1, <2>4 DEF AnswerInv, Answers
    <3> QED
      BY <2>1, <2>2, <3>1, InboxStays DEF OneAnswer, Quiet, WaitsFor, Finishing
  <2>5. \A u \in Lines : /\ \A d \in Clients : WaitsFor(d, u) => WaitsFor(d, u)'
                         /\ Finishing(u)' => Finishing(u)
    BY <1>3, <2>1
  <2>6. Answers'
    BY <2>1, <2>2, <2>4, <2>5, InboxStays, OneLineChanges DEF AnswerInv
  <2> QED
    BY <1>2, <2>1, <2>3, <2>6 DEF AnswerInv
<1> QED
  BY <1>4, <1>5, <1>6

LEMMA InitAnswers == Init => AnswerInv
<1>1. ASSUME Init
      PROVE  ClientMsgs
  BY <1>1 DEF Init, ClientMsgs, MsgFine, Idle
<1>2. ASSUME Init
      PROVE  LineMsgs /\ Answers
  BY <1>2, InitInbox DEF Init, LineMsgs, Carried, Answers, OneAnswer, Finishing, Quiet
<1> QED
  BY <1>1, <1>2 DEF AnswerInv

\* An unfinished frame stays at the end of a wait, and nowhere else.
LEMMA GivenUpStep ==
  ASSUME ModbusInv, GivenUp, Next
  PROVE  GivenUp'
<1>1. /\ InboxTyped /\ timedOut \in [Servers -> BOOLEAN] /\ pending \in [Lines -> SUBSET Message]
      /\ Lines \subseteq Servers
  BY DEF ModbusInv, TypeOK, Lines
<1>2. ASSUME UNCHANGED <<inbox, timedOut>>
      PROVE  GivenUp'
  BY <1>2 DEF GivenUp
<1>3. ASSUME UNCHANGED timedOut, NEW e, NEW msg, msg # Unfinished, inbox' = [inbox EXCEPT ![e] = msg]
      PROVE  GivenUp'
  BY <1>1, <1>3, EndsFacts DEF GivenUp, InboxTyped
<1>4. ASSUME NEW c \in Clients, SendMsgToServer(c)
      PROVE  GivenUp'
  <2>1. \A msg : [msg EXCEPT !.kind = "response"] # Unfinished
    BY DEF Unfinished
  <2>2. /\ UNCHANGED timedOut
        /\ \/ UNCHANGED inbox
           \/ \E s : inbox' = [inbox EXCEPT ![ServerEnd(s)] = None]
           \/ \E s : inbox' = [inbox EXCEPT ![ServerEnd(s)] = [client[c].msg EXCEPT !.kind = "response"]]
    BY <1>4 DEF SendMsgToServer, SendNow, Framed
  <2> QED
    BY <1>2, <1>3, <2>1, <2>2, MessageFacts
<1>5. ASSUME NEW c \in Clients, WaitTimeout(c)
      PROVE  GivenUp'
  <2>1. client[c].indexServer \in Servers
    BY <1>5, AtClient DEF WaitTimeout, InState, ClientFine
  <2>2. PICK s \in Servers : s = client[c].indexServer
    BY <2>1
  <2>3. \/ UNCHANGED <<inbox, timedOut>>
        \/ /\ timedOut' = [timedOut EXCEPT ![s] = TRUE]
           /\ \/ UNCHANGED inbox
              \/ inbox' = [inbox EXCEPT ![ServerEnd(s)] = Unfinished]
    BY <1>5, <2>2 DEF WaitTimeout, GiveUp
  <2> QED
    BY <1>1, <1>2, <2>3, EndsApart, EndsFacts DEF GivenUp, InboxTyped
<1>6. ASSUME NEW c \in Clients, IdleTransport(c) \/ WaitTransport(c) \/ WaitMaster(c)
      PROVE  GivenUp'
  <2>1. UNCHANGED timedOut /\ (UNCHANGED inbox \/ \E e : inbox' = [inbox EXCEPT ![e] = None])
    BY <1>6 DEF IdleTransport, WaitTransport, WaitMaster, Emptied
  <2> QED
    BY <1>2, <1>3, <2>1, MessageFacts
<1>7. ASSUME NEW c \in Clients,
             MasterTask(c) \/ MasterCancel(c) \/ MasterRecvMsg(c) \/ Routing(c) \/ MasterFinish(c)
      PROVE  GivenUp'
  BY <1>2, <1>7 DEF MasterTask, MasterCancel, MasterRecvMsg, Routing, MasterFinish, lineVars
<1>8. ASSUME NEW c \in Clients, NEW id \in Ids, RequestArrives(c, id)
      PROVE  GivenUp'
  <2>1. Request(c, id, 0) # Unfinished
    BY DEF Request, Unfinished
  <2> QED
    BY <1>3, <1>8, <2>1 DEF RequestArrives
<1>9. ASSUME NEW s \in Lines, AnswerArrives(s)
      PROVE  GivenUp'
  <2>1. PICK msg \in pending[s] :
          inbox' = [inbox EXCEPT ![ServerEnd(s)] = [msg EXCEPT !.kind = "response"]]
    BY <1>9 DEF AnswerArrives
  <2>2. [msg EXCEPT !.kind = "response"] # Unfinished
    BY <1>1, MessageFacts
  <2> QED
    BY <1>3, <1>9, <2>1, <2>2 DEF AnswerArrives
<1>10. ASSUME \/ MainTask \/ \E s \in Lines : AnswerLost(s)
              \/ \E c \in Masters, id \in Ids, blocking \in BOOLEAN : Command(c, id, blocking)
              \/ \E c \in Masters : Return(c)
       PROVE  GivenUp'
  BY <1>2, <1>10 DEF MainTask, AnswerLost, Command, Return, lineVars
<1> QED
  BY <1>4, <1>5, <1>6, <1>7, <1>8, <1>9, <1>10 DEF Next, Gateway, ClientProcess

LEMMA GivenUpInvariant == Spec => []GivenUp
<1>1. Init => GivenUp
  BY EndsFacts, MessageFacts DEF Init, GivenUp
<1>2. GivenUp /\ UNCHANGED vars => GivenUp'
  BY DEF GivenUp, vars, lineVars
<1> QED
  BY <1>1, <1>2, GivenUpStep, ModbusInvariant, PTL DEF Spec

LEMMA AnswerInvStep ==
  ASSUME ModbusInv, AnswerInv, GivenUp, Next
  PROVE  AnswerInv'
<1>1. ASSUME MainTask
      PROVE  AnswerInv'
  BY <1>1, AllStay DEF MainTask, lineVars
<1>2. ASSUME NEW c \in Clients, MasterTask(c)
      PROVE  AnswerInv'
  <2>1. \E at \in {"recv", "cancel"} : Within(at)
    BY <1>2 DEF MasterTask
  <2>2. gw'.at # "finish"
    BY <2>1, WithinFacts DEF ModbusInv
  <2> QED
    BY <1>2, <2>2, AllStay DEF MasterTask, lineVars
<1>3. ASSUME NEW c \in Clients, MasterCancel(c)
      PROVE  AnswerInv'
  <2>1. gw'.at # "finish"
    BY <1>3, WithinFacts DEF ModbusInv, MasterCancel
  <2> QED
    BY <1>3, <2>1, AllStay DEF MasterCancel, lineVars
<1>4. ASSUME NEW c \in Masters,
             Return(c) \/ \E id \in Ids, blocking \in BOOLEAN : Command(c, id, blocking)
      PROVE  AnswerInv'
  BY <1>4, AllStay DEF Command, Return, lineVars
<1>5. ASSUME NEW c \in Clients, ClientProcess(c)
      PROVE  AnswerInv'
  BY <1>2, <1>3, <1>5, IdleTransportAnswers, MasterRecvMsgAnswers, RoutingAnswers,
     SendMsgToServerAnswers, WaitTimeoutAnswers, WaitTransportAnswers, WaitMasterAnswers,
     MasterFinishAnswers DEF ClientProcess
<1>6. ASSUME \/ \E c \in Clients, id \in Ids : RequestArrives(c, id)
             \/ \E s \in Lines : AnswerArrives(s) \/ AnswerLost(s)
      PROVE  AnswerInv'
  BY <1>6, LinesAnswers
<1> QED
  BY <1>1, <1>4, <1>5, <1>6 DEF Next, Gateway

\* An answer that comes in is for the client that waits for it, until a wait
\* was given up on its line.
THEOREM AnswersGoToRequesters == Spec => []AnswerToRequester
<1>1. ASSUME ModbusInv, AnswerInv, UNCHANGED vars
      PROVE  AnswerInv'
  BY <1>1, AllStay DEF vars, lineVars
<1>2. AnswerInv => AnswerToRequester
  BY DEF AnswerInv, Answers, OneAnswer, AnswerToRequester
<1> QED
  BY <1>1, <1>2, InitAnswers, AnswerInvStep, GivenUpInvariant, ModbusInvariant, PTL DEF Spec

(***************************************************************************)
(* The tries of a command.  Those made, the one on its way to a server,    *)
(* which includes that masterTask has just counted, and those left are no  *)
(* more than it has; and a request a server can have is on its way only    *)
(* while its command is pending.                                           *)
(***************************************************************************)
Limit == RetryComm + (IF AppHigher THEN 1 ELSE 0)

\* Where the gateway is with a client.
At(c) == IF gw.client = c THEN gw.at ELSE "call"

Routable(msg) == msg # None /\ msg.kind = "request" /\ Candidates(msg.id) # {}
OnItsWay(r) == r.state \in {"ROUTING", "SEND_MSG_TO_SERVER"} /\ Routable(r.msg)
Due(r, m, at) == IF OnItsWay(r) \/ (at = "recv" /\ m.cmd) THEN 1 ELSE 0

\* Of a master's client, its object, the number of tries made, and the gateway.
TriesFine(r, m, k, at) ==
  /\ r.state = "IDLE" \/ at = "finish" => ~Routable(r.msg)
  /\ OnItsWay(r) => m.cmd
  /\ IF m.cmd THEN k + Due(r, m, at) + m.retryCount <= Limit ELSE k = 0
Tries == \A c \in Masters : TriesFine(client[c], master[c], sends[c], At(c))

\* A server's end of a line gets answers.
Responses == \A s \in Lines :
  Arrived(s) # None => Arrived(s).kind = "response"

TriesInv == Tries /\ Responses

LEMMA LimitFacts == Limit \in Nat /\ RetryComm <= Limit /\ (AppHigher => RetryComm + 1 <= Limit)
BY DEF Limit

\* Of the masters only that of the client being processed changes.
LEMMA TriesKept ==
  ASSUME Tries, NEW c,
         \A d \in Masters \ {c} : /\ client'[d] = client[d] /\ master'[d] = master[d]
                                  /\ sends'[d] = sends[d] /\ At(d)' = At(d),
         c \in Masters => TriesFine(client'[c], master'[c], sends'[c], At(c)')
  PROVE  Tries'
<1>1. \A d \in Masters : TriesFine(client'[d], master'[d], sends'[d], At(d)')
  BY DEF Tries
<1> QED
  BY <1>1 DEF Tries, TriesFine, Due

LEMMA AtFacts ==
  ASSUME ModbusInv, NEW c \in Clients, NEW at, Running(c, at)
  PROVE  /\ At(c) = at
         /\ gw'.at = "call" => At(c)' = "call" /\ \A d \in Masters \ {c} : At(d)' = At(d)
         /\ \A to \in {"recv", "cancel", "finish"} : Within(to) =>
              At(c)' = to /\ \A d \in Masters \ {c} : At(d)' = At(d)
BY WithinFacts DEF ModbusInv, At, Running

\* What one step of the gateway makes of the tries of its client.
LEMMA TriesFacts ==
  ASSUME NEW r, NEW m, NEW k, NEW at, TriesFine(r, m, k, at), k \in Nat,
         m.retryCount \in Nat
  PROVE  /\ ~m.cmd => k = 0
         /\ OnItsWay(r) => m.cmd /\ k + 1 + m.retryCount <= Limit
         /\ m.cmd => k + m.retryCount <= Limit
         /\ m.cmd /\ at = "recv" => k + 1 + m.retryCount <= Limit
BY LimitFacts DEF TriesFine, Due

\* A client with nothing on its way.
LEMMA TriesRest ==
  ASSUME NEW r, NEW m, NEW k \in Nat, ~OnItsWay(r), r.state = "IDLE" => ~Routable(r.msg),
         m.retryCount \in Nat, IF m.cmd THEN k + m.retryCount <= Limit ELSE k = 0
  PROVE  TriesFine(r, m, k, "call")
BY LimitFacts DEF TriesFine, Due

LEMMA TypeFacts ==
  ASSUME ModbusInv
  PROVE  /\ client \in [Clients -> ClientRecord] /\ \A d \in Clients : client[d] \in ClientRecord
         /\ sends \in [Masters -> Nat] /\ Masters \subseteq Clients
         /\ master \in [Masters -> MasterRecord]
         /\ \A d \in Masters : master[d] \in MasterRecord /\ master[d].retryCount \in 0 .. RetryComm
BY DEF ModbusInv, TypeOK, MasterRecord

LEMMA IdleTransportTries ==
  ASSUME ModbusInv, Tries, NEW c \in Clients,
         IdleTransport(c) \/ WaitTransport(c)
  PROVE  Tries'
<1>1. /\ c \notin Masters /\ Running(c, "call") /\ \E p : Called(p)
      /\ \A d \in Masters \ {c} : client'[d] = client[d]
      /\ UNCHANGED <<master, sends>>
  BY TypeFacts DEF IdleTransport, WaitTransport, InState
<1>2. gw'.at = "call"
  BY <1>1, AtClient, CalledFacts
<1> QED
  BY <1>1, <1>2, AtFacts, TriesKept

LEMMA MasterTaskTries ==
  ASSUME ModbusInv, Tries, NEW c \in Clients, MasterTask(c)
  PROVE  Tries'
<1>1. /\ c \in Masters /\ client[c].state = "IDLE" /\ Running(c, "call")
      /\ UNCHANGED <<client, sends>>
  BY DEF MasterTask, InState
<1>2. /\ client[c] \in ClientRecord /\ sends[c] \in Nat /\ master[c] \in MasterRecord
      /\ master[c].retryCount \in 0 .. RetryComm /\ master \in [Masters -> MasterRecord]
  BY <1>1, TypeFacts
<1>3. At(c) = "call" /\ TriesFine(client[c], master[c], sends[c], "call")
  BY <1>1, AtFacts DEF Tries
<1>4. /\ ~Routable(client[c].msg) /\ ~OnItsWay(client[c])
      /\ IF master[c].cmd THEN sends[c] + master[c].retryCount <= Limit ELSE sends[c] = 0
  BY <1>1, <1>2, <1>3, TriesFacts DEF TriesFine, OnItsWay
<1>5. CASE ~master[c].cmd
  <2>1. Within("recv") /\ master' = master
    BY <1>5 DEF MasterTask
  <2>2. At(c)' = "recv" /\ \A d \in Masters \ {c} : At(d)' = At(d)
    BY <1>1, <2>1, AtFacts
  <2>3. TriesFine(client[c], master[c], sends[c], "recv")
    BY <1>4, <1>5 DEF TriesFine
  <2> QED
    BY <1>1, <2>1, <2>2, <2>3, TriesKept
<1>6. CASE master[c].cmd /\ master[c].retryCount > 0
  <2> DEFINE m == [master[c] EXCEPT !.retryCount = @ - 1]
  <2>1. Within("recv") /\ master' = [master EXCEPT ![c] = m]
    BY <1>6 DEF MasterTask
  <2>2. At(c)' = "recv" /\ \A d \in Masters \ {c} : At(d)' = At(d)
    BY <1>1, <2>1, AtFacts
  <2>3. m.cmd = master[c].cmd /\ m.retryCount = master[c].retryCount - 1
    BY <1>2 DEF MasterRecord
  <2> HIDE DEF m
  <2>4. TriesFine(client[c], m, sends[c], "recv")
    BY <1>2, <1>4, <1>6, <2>3, LimitFacts DEF TriesFine, Due
  <2>5. master'[c] = m /\ \A d \in Masters \ {c} : master'[d] = master[d]
    BY <1>1, <1>2, <2>1
  <2> QED
    BY <1>1, <2>2, <2>4, <2>5, TriesKept
<1>7. CASE master[c].cmd /\ ~(master[c].retryCount > 0)
  <2> DEFINE code == IF master[c].exceptioncode = "no_error" THEN "not_respond"
                     ELSE master[c].exceptioncode
             m == [master[c] EXCEPT !.exceptioncode = code]
  <2>1. Within("cancel") /\ master' = [master EXCEPT ![c] = m]
    BY <1>7 DEF MasterTask
  <2>2. At(c)' = "cancel" /\ \A d \in Masters \ {c} : At(d)' = At(d)
    BY <1>1, <2>1, AtFacts
  <2> HIDE DEF code
  <2>3. m.cmd = master[c].cmd /\ m.retryCount = master[c].retryCount
    BY <1>2 DEF MasterRecord
  <2> HIDE DEF m
  <2>4. TriesFine(client[c], m, sends[c], "cancel")
    BY <1>2, <1>4, <1>7, <2>3, LimitFacts DEF TriesFine, Due
  <2>5. master'[c] = m /\ \A d \in Masters \ {c} : master'[d] = master[d]
    BY <1>1, <1>2, <2>1
  <2> QED
    BY <1>1, <2>2, <2>4, <2>5, TriesKept
<1> QED
  BY <1>5, <1>6, <1>7

LEMMA MasterCancelTries ==
  ASSUME ModbusInv, Tries, NEW c \in Clients, MasterCancel(c)
  PROVE  Tries'
<1> DEFINE m == [master[c] EXCEPT !.cmd = FALSE]
<1>1. /\ Running(c, "cancel") /\ Within("recv") /\ master' = [master EXCEPT ![c] = m]
      /\ sends' = [sends EXCEPT ![c] = 0] /\ UNCHANGED client
  BY DEF MasterCancel
<1>2. c \in Masters /\ client[c].state = "IDLE"
  BY <1>1, AtClient DEF ModbusInv, GatewayInv
<1>3. At(c)' = "recv" /\ \A d \in Masters \ {c} : At(d)' = At(d)
  BY <1>1, AtFacts
<1>4. ~Routable(client[c].msg)
  BY <1>2 DEF Tries, TriesFine
<1>5. ~m.cmd
  BY <1>2, TypeFacts DEF MasterRecord
<1> HIDE DEF m
<1>6. TriesFine(client[c], m, 0, "recv")
  BY <1>4, <1>5 DEF TriesFine, OnItsWay
<1>7. /\ master'[c] = m /\ sends'[c] = 0
      /\ \A d \in Masters \ {c} : master'[d] = master[d] /\ sends'[d] = sends[d]
  BY <1>1, <1>2, TypeFacts
<1> QED
  BY <1>1, <1>3, <1>6, <1>7, TriesKept

LEMMA MasterRecvMsgTries ==
  ASSUME ModbusInv, Tries, NEW c \in Clients, MasterRecvMsg(c)
  PROVE  Tries'
<1> DEFINE msg == IF master[c].cmd THEN Request(c, master[c].slaveId, master[c].n)
                  ELSE client[c].msg
           r == TakesMessage(client[c], msg)
<1>1. /\ Running(c, "recv") /\ client' = [client EXCEPT ![c] = r] /\ Called(msg # None)
      /\ UNCHANGED <<master, sends>>
  BY DEF MasterRecvMsg, TakesMessage
<1>2. c \in Masters /\ client[c].state = "IDLE"
  BY <1>1, AtClient DEF ModbusInv, GatewayInv
<1>3. gw'.at = "call"
  BY <1>1, AtClient, CalledFacts
<1>4. At(c) = "recv" /\ At(c)' = "call" /\ \A d \in Masters \ {c} : At(d)' = At(d)
  BY <1>1, <1>3, AtFacts
<1>5. client[c] \in ClientRecord /\ sends[c] \in Nat /\ master[c].retryCount \in 0 .. RetryComm
  BY <1>2, TypeFacts
<1>6. r.msg = msg /\ r.state = IF msg = None THEN "IDLE" ELSE "ROUTING"
  BY <1>5 DEF ClientRecord, TakesMessage
<1>7. /\ ~Routable(client[c].msg)
      /\ IF master[c].cmd THEN sends[c] + 1 + master[c].retryCount <= Limit ELSE sends[c] = 0
  <2>1. TriesFine(client[c], master[c], sends[c], "recv")
    BY <1>2, <1>4 DEF Tries
  <2> QED
    BY <1>2, <1>5, <2>1, TriesFacts DEF TriesFine
<1>8. ~master[c].cmd => ~Routable(msg)
  BY <1>7
<1> HIDE DEF r, msg
<1>9. TriesFine(r, master[c], sends[c], "call")
  <2>1. r.state = "IDLE" => ~Routable(r.msg)
    BY <1>6 DEF Routable
  <2>2. OnItsWay(r) => master[c].cmd
    BY <1>6, <1>8 DEF OnItsWay
  <2> QED
    BY <1>5, <1>7, <2>1, <2>2, LimitFacts DEF TriesFine, Due
<1>10. client'[c] = r /\ \A d \in Masters \ {c} : client'[d] = client[d]
  BY <1>1, <1>2, TypeFacts
<1> QED
  BY <1>1, <1>4, <1>9, <1>10, TriesKept

LEMMA RoutingTries ==
  ASSUME ModbusInv, Tries, NEW c \in Clients, Routing(c)
  PROVE  Tries'
<1>1. /\ client[c].state = "ROUTING" /\ Running(c, "call") /\ UNCHANGED <<master, sends>>
  BY DEF Routing, InState
<1>2. \E p : Called(p)
  BY DEF Routing
<1>3. gw'.at = "call"
  BY <1>1, <1>2, AtClient, CalledFacts
<1>4. At(c) = "call" /\ At(c)' = "call" /\ \A d \in Masters \ {c} : At(d)' = At(d)
  BY <1>1, <1>3, AtFacts
<1>5. client[c] \in ClientRecord /\ client \in [Clients -> ClientRecord] /\ Masters \subseteq Clients
  BY TypeFacts
<1>6. PICK r : /\ client' = [client EXCEPT ![c] = r] /\ r.msg = client[c].msg
               /\ \/ r.state = "IDLE" /\ Candidates(r.msg.id) = {}
                  \/ r.state = "SEND_MSG_TO_SERVER"
  <2>1. CASE Candidates(client[c].msg.id) = {}
    <3>1. client' = [client EXCEPT ![c] = Idle(client[c].msg)]
      BY <2>1 DEF Routing
    <3>2. Idle(client[c].msg).msg = client[c].msg /\ Idle(client[c].msg).state = "IDLE"
      BY DEF Idle
    <3> QED
      BY <2>1, <3>1, <3>2
  <2>2. CASE Candidates(client[c].msg.id) # {}
    <3>1. PICK s \in Route(client[c].msg.id) :
            client' = [client EXCEPT ![c] = [@ EXCEPT !.state = "SEND_MSG_TO_SERVER",
                                                      !.indexServer = s]]
      BY <2>2 DEF Routing
    <3> DEFINE r == [client[c] EXCEPT !.state = "SEND_MSG_TO_SERVER", !.indexServer = s]
    <3>2. client' = [client EXCEPT ![c] = r]
      BY <3>1
    <3>3. r.msg = client[c].msg /\ r.state = "SEND_MSG_TO_SERVER"
      BY <1>5 DEF ClientRecord
    <3> HIDE DEF r
    <3> QED
      BY <3>2, <3>3
  <2> QED
    BY <2>1, <2>2
<1>7. client'[c] = r /\ \A d \in Masters \ {c} : client'[d] = client[d]
  BY <1>5, <1>6
<1>8. ASSUME c \in Masters
      PROVE  TriesFine(r, master[c], sends[c], "call")
  <2>1. TriesFine(client[c], master[c], sends[c], "call")
    BY <1>4, <1>8 DEF Tries
  <2>2. CASE r.state = "SEND_MSG_TO_SERVER"
    <3>1. OnItsWay(r) <=> OnItsWay(client[c])
      BY <1>1, <1>6, <2>2 DEF OnItsWay
    <3> QED
      BY <2>1, <2>2, <3>1 DEF TriesFine, Due
  <2>3. CASE r.state = "IDLE" /\ Candidates(r.msg.id) = {}
    <3>1. ~Routable(r.msg) /\ ~OnItsWay(r) /\ ~OnItsWay(client[c])
      BY <1>6, <2>3 DEF Routable, OnItsWay
    <3> QED
      BY <2>1, <3>1 DEF TriesFine, Due
  <2> QED
    BY <1>6, <2>2, <2>3
<1> QED
  BY <1>1, <1>4, <1>7, <1>8, TriesKept

LEMMA SendMsgToServerTries ==
  ASSUME ModbusInv, AnswerInv, Tries, NEW c \in Clients, SendMsgToServer(c)
  PROVE  Tries'
<1>1. /\ client[c].state = "SEND_MSG_TO_SERVER" /\ Running(c, "call") /\ UNCHANGED master
      /\ \E p : Called(p)
  BY DEF SendMsgToServer, InState, SendNow
<1>2. gw'.at = "call"
  BY <1>1, AtClient, CalledFacts
<1>3. At(c) = "call" /\ At(c)' = "call" /\ \A d \in Masters \ {c} : At(d)' = At(d)
  BY <1>1, <1>2, AtFacts
<1>4. CASE busy[client[c].indexServer]
  <2>1. UNCHANGED <<client, sends>>
    BY <1>4 DEF SendMsgToServer
  <2> QED
    BY <1>1, <1>3, <2>1, TriesKept DEF Tries
<1>5. CASE ~busy[client[c].indexServer]
  <2> DEFINE r == [client[c] EXCEPT !.state = "WAITING_SERVER_RESPONSE", !.timeout = RespTimeout]
  <2>1. client' = [client EXCEPT ![c] = r]
        /\ sends' = IF Sends(c) THEN [sends EXCEPT ![c] = @ + 1] ELSE sends
    BY <1>5 DEF SendMsgToServer, SendNow
  <2>2. r.state = "WAITING_SERVER_RESPONSE"
    BY TypeFacts DEF ClientRecord
  <2> HIDE DEF r
  <2>3. client'[c] = r /\ \A d \in Masters \ {c} : client'[d] = client[d] /\ sends'[d] = sends[d]
    BY <2>1, TypeFacts
  <2>4. ASSUME c \in Masters
        PROVE  TriesFine(r, master[c], sends'[c], "call")
    <3>1. /\ TriesFine(client[c], master[c], sends[c], "call") /\ sends[c] \in Nat
          /\ master[c].retryCount \in 0 .. RetryComm
          /\ sends'[c] = IF Sends(c) THEN sends[c] + 1 ELSE sends[c]
      BY <1>3, <2>1, <2>4, TypeFacts DEF Tries
    <3>2. Sends(c) => OnItsWay(client[c])
      <4>1. client[c].msg \in Message /\ client[c].indexServer \in Route(client[c].msg.id)
        BY <1>1, AtClient, MessageFacts DEF ClientFine, AnswerInv, ClientMsgs, MsgFine
      <4>2. Candidates(client[c].msg.id) # {}
        BY <4>1 DEF Route
      <4> QED
        BY <1>1, <4>1, <4>2, MessageFacts DEF Sends, OnItsWay, Routable
    <3>3. ~OnItsWay(r) /\ r.state # "IDLE"
      BY <2>2 DEF OnItsWay
    <3>4. /\ ~master[c].cmd => sends[c] = 0
          /\ OnItsWay(client[c]) => master[c].cmd /\ sends[c] + 1 + master[c].retryCount <= Limit
          /\ master[c].cmd => sends[c] + master[c].retryCount <= Limit
      BY <3>1, TriesFacts
    <3>5. sends'[c] \in Nat
          /\ IF master[c].cmd THEN sends'[c] + master[c].retryCount <= Limit ELSE sends'[c] = 0
      BY <3>1, <3>2, <3>4
    <3> QED
      BY <3>1, <3>3, <3>5, TriesRest
  <2> QED
    BY <1>1, <1>3, <2>3, <2>4, TriesKept
<1> QED
  BY <1>4, <1>5

\* A client that has nothing to send after it, and did not before.
LEMMA NothingSent ==
  ASSUME ModbusInv, Tries, NEW c \in Clients, Running(c, "call"), gw'.at = "call",
         NEW r, client' = [client EXCEPT ![c] = r], ~OnItsWay(r), r.state = "IDLE" => ~Routable(r.msg),
         UNCHANGED sends,
         c \in Masters => master'[c].cmd = master[c].cmd
                          /\ master'[c].retryCount = master[c].retryCount,
         \A d \in Masters \ {c} : master'[d] = master[d]
  PROVE  Tries'
<1>1. At(c) = "call" /\ At(c)' = "call" /\ \A d \in Masters \ {c} : At(d)' = At(d)
  BY AtFacts
<1>2. client'[c] = r /\ \A d \in Masters \ {c} : client'[d] = client[d]
  BY TypeFacts
<1>3. ASSUME c \in Masters
      PROVE  TriesFine(r, master'[c], sends[c], "call")
  <2>1. /\ TriesFine(client[c], master[c], sends[c], "call") /\ sends[c] \in Nat
        /\ master[c].retryCount \in Nat
    BY <1>1, <1>3, TypeFacts DEF Tries
  <2>2. IF master[c].cmd THEN sends[c] + master[c].retryCount <= Limit ELSE sends[c] = 0
    BY <2>1, TriesFacts
  <2> QED
    BY <1>3, <2>1, <2>2, TriesRest
<1> QED
  BY <1>1, <1>2, <1>3, TriesKept

LEMMA WaitTimeoutTries ==
  ASSUME ModbusInv, Tries, NEW c \in Clients, WaitTimeout(c)
  PROVE  Tries'
<1>1. /\ client[c].state = "WAITING_SERVER_RESPONSE" /\ Running(c, "call")
      /\ Called(FALSE) /\ UNCHANGED <<master, sends>>
  BY DEF WaitTimeout, InState
<1>2. gw'.at = "call"
  BY <1>1, AtClient, CalledFacts
<1>3. \E r : client' = [client EXCEPT ![c] = r] /\ r.msg = None
  <2>1. CASE client[c].timeout # 0
    <3> DEFINE r == [client[c] EXCEPT !.msg = None, !.timeout = @ - 1]
    <3>1. client' = [client EXCEPT ![c] = r]
      BY <2>1 DEF WaitTimeout
    <3>2. r.msg = None
      BY TypeFacts DEF ClientRecord
    <3> HIDE DEF r
    <3> QED
      BY <3>1, <3>2
  <2>2. CASE client[c].timeout = 0
    <3>1. client' = [client EXCEPT ![c] = Idle(None)]
      BY <2>2 DEF WaitTimeout, GiveUp
    <3>2. Idle(None).msg = None
      BY DEF Idle
    <3> QED
      BY <3>1, <3>2
  <2> QED
    BY <2>1, <2>2
<1> QED
  BY <1>1, <1>2, <1>3, NothingSent DEF OnItsWay, Routable

\* What a client gets from its server is no request.
LEMMA ReceivedResponds ==
  ASSUME ModbusInv, Responses, NEW s \in Servers, NEW msg \in Received(s) \ {None}
  PROVE  ~Routable(msg)
<1>1. CASE s \in Lines
  BY <1>1 DEF Received, Responses, Routable
<1>2. CASE s \notin Lines
  <2>1. PICK d \in Clients : /\ client[d].state = "WAITING_SERVER_RESPONSE"
                             /\ client[d].indexServer = s
                             /\ msg = [client[d].msg EXCEPT !.kind = "response"]
    BY <1>2 DEF Received
  <2>2. client[d].msg \in Message
    BY <1>2, <2>1, AtClient DEF ClientFine
  <2> QED
    BY <2>1, <2>2 DEF Message, Routable
<1> QED
  BY <1>1, <1>2

LEMMA WaitMasterTries ==
  ASSUME ModbusInv, Tries, Responses, NEW c \in Clients, WaitMaster(c)
  PROVE  Tries'
<1> DEFINE s == client[c].indexServer
<1>1. /\ c \in Masters /\ client[c].state = "WAITING_SERVER_RESPONSE" /\ Running(c, "call")
      /\ UNCHANGED sends
  BY DEF WaitMaster, InState
<1>2. s \in Servers
  BY <1>1, AtClient DEF ClientFine
<1>3. PICK msg \in Received(s) \ {None} :
        /\ \/ client' = [client EXCEPT ![c] = Idle(msg)] /\ Called(TRUE)
           \/ client' = [client EXCEPT ![c].msg = msg] /\ Within("finish")
        /\ \/ master' = master
           \/ \E code : master' = [master EXCEPT ![c].exceptioncode = code]
  BY DEF WaitMaster
<1>4. ~Routable(msg)
  BY <1>2, <1>3, ReceivedResponds
<1>5. /\ master'[c].cmd = master[c].cmd /\ master'[c].retryCount = master[c].retryCount
      /\ \A d \in Masters \ {c} : master'[d] = master[d]
  <2>1. master \in [Masters -> MasterRecord]
    BY TypeFacts
  <2> QED
    BY <1>1, <1>3, <2>1 DEF MasterRecord
<1>6. CASE client' = [client EXCEPT ![c] = Idle(msg)] /\ Called(TRUE)
  <2>1. gw'.at = "call"
    BY <1>1, <1>6, AtClient, CalledFacts
  <2>2. ~OnItsWay(Idle(msg)) /\ ~Routable(Idle(msg).msg)
    BY <1>4 DEF OnItsWay, Idle
  <2> QED
    BY <1>1, <1>5, <1>6, <2>1, <2>2, NothingSent
<1>7. CASE client' = [client EXCEPT ![c].msg = msg] /\ Within("finish")
  <2> DEFINE r == [client[c] EXCEPT !.msg = msg]
  <2>1. client' = [client EXCEPT ![c] = r]
    BY <1>7
  <2>2. r.msg = msg /\ r.state = "WAITING_SERVER_RESPONSE"
    BY <1>1, TypeFacts DEF ClientRecord
  <2> HIDE DEF r
  <2>3. client'[c] = r /\ \A d \in Masters \ {c} : client'[d] = client[d]
    BY <2>1, TypeFacts
  <2>4. At(c) = "call" /\ At(c)' = "finish" /\ \A d \in Masters \ {c} : At(d)' = At(d)
    BY <1>1, <1>7, AtFacts
  <2>5. TriesFine(client[c], master[c], sends[c], "call") /\ sends[c] \in Nat
        /\ master[c].retryCount \in Nat
    BY <1>1, <2>4, TypeFacts DEF Tries
  <2>6. /\ ~master[c].cmd => sends[c] = 0
        /\ master[c].cmd => sends[c] + master[c].retryCount <= Limit
    BY <2>5, TriesFacts
  <2>7. TriesFine(r, master'[c], sends[c], "finish")
    BY <1>4, <1>5, <2>2, <2>5, <2>6 DEF TriesFine, Due, OnItsWay
  <2> QED
    BY <1>1, <1>5, <2>3, <2>4, <2>7, TriesKept
<1> QED
  BY <1>3, <1>6, <1>7

LEMMA MasterFinishTries ==
  ASSUME ModbusInv, Tries, NEW c \in Clients, MasterFinish(c)
  PROVE  Tries'
<1> DEFINE m == [master[c] EXCEPT !.cmd = FALSE]
           r == Idle(client[c].msg)
<1>1. /\ Running(c, "finish") /\ master' = [master EXCEPT ![c] = m]
      /\ client' = [client EXCEPT ![c] = r] /\ sends' = [sends EXCEPT ![c] = 0] /\ Called(TRUE)
  BY DEF MasterFinish
<1>2. c \in Masters /\ gw'.at = "call"
  <2>1. gw.client = c /\ gw.at = "finish" /\ GatewayInv
    BY <1>1, AtClient DEF ModbusInv
  <2> QED
    BY <1>1, <2>1, AtClient, CalledFacts DEF GatewayInv
<1>3. At(c) = "finish" /\ At(c)' = "call" /\ \A d \in Masters \ {c} : At(d)' = At(d)
  BY <1>1, <1>2, AtFacts
<1>4. ~Routable(client[c].msg)
  BY <1>2, <1>3 DEF Tries, TriesFine
<1>5. ~OnItsWay(r) /\ ~Routable(r.msg)
  BY <1>4 DEF OnItsWay, Idle
<1>6. ~m.cmd
  BY <1>2, TypeFacts DEF MasterRecord
<1> HIDE DEF r, m
<1>7. TriesFine(r, m, 0, "call")
  BY <1>5, <1>6 DEF TriesFine
<1>8. /\ master'[c] = m /\ sends'[c] = 0 /\ client'[c] = r
      /\ \A d \in Masters \ {c} : /\ master'[d] = master[d] /\ sends'[d] = sends[d]
                                  /\ client'[d] = client[d]
  BY <1>1, <1>2, TypeFacts
<1> QED
  BY <1>3, <1>7, <1>8, TriesKept

LEMMA CommandTries ==
  ASSUME ModbusInv, Tries, NEW c \in Masters, NEW id \in Ids, NEW blocking \in BOOLEAN,
         Command(c, id, blocking)
  PROVE  Tries'
<1> DEFINE m == [cmd |-> TRUE, slaveId |-> id, n |-> next[c], blocking |-> blocking,
                 waiting |-> blocking, retryCount |-> RetryComm, exceptioncode |-> "no_error"]
<1>1. /\ AppRuns /\ ~master[c].cmd /\ master' = [master EXCEPT ![c] = m]
      /\ UNCHANGED <<gw, client, sends>>
  BY DEF Command
<1>2. m.cmd /\ m.retryCount = RetryComm
  OBVIOUS
<1> HIDE DEF m
<1>3. master'[c] = m /\ \A d \in Masters \ {c} : master'[d] = master[d]
  BY <1>1, TypeFacts
<1>4. \A d : At(d)' = At(d)
  BY <1>1 DEF At
<1>5. TriesFine(client[c], master[c], sends[c], At(c))
  BY DEF Tries
<1>6. sends[c] = 0 /\ ~OnItsWay(client[c])
  BY <1>1, <1>5 DEF TriesFine
<1>7. At(c) = "recv" => AppHigher
  BY <1>1, TypeFacts DEF At, AppRuns, Clients
<1>8. TriesFine(client[c], m, 0, At(c))
  BY <1>2, <1>5, <1>6, <1>7, LimitFacts DEF TriesFine, Due
<1> QED
  BY <1>1, <1>3, <1>4, <1>6, <1>8, TriesKept

LEMMA ReturnTries ==
  ASSUME ModbusInv, Tries, NEW c \in Masters, Return(c)
  PROVE  Tries'
<1> DEFINE m == [master[c] EXCEPT !.waiting = FALSE]
<1>1. master' = [master EXCEPT ![c] = m] /\ UNCHANGED <<gw, client, sends>>
  BY DEF Return
<1>2. m.cmd = master[c].cmd /\ m.retryCount = master[c].retryCount
  BY TypeFacts DEF MasterRecord
<1> HIDE DEF m
<1>3. master'[c] = m /\ \A d \in Masters \ {c} : master'[d] = master[d]
  BY <1>1, TypeFacts
<1>4. \A d : At(d)' = At(d)
  BY <1>1 DEF At
<1>5. TriesFine(client[c], m, sends[c], At(c))
  BY <1>2 DEF Tries, TriesFine, Due
<1> QED
  BY <1>1, <1>3, <1>4, <1>5, TriesKept

\* Nothing new at a server's end.
LEMMA ResponsesKept ==
  ASSUME ModbusInv, Responses,
         \A s \in Lines : Arrived(s)' \in {Arrived(s), None}
  PROVE  Responses'
BY DEF Responses

LEMMA ResponsesStep ==
  ASSUME ModbusInv, Responses, Next
  PROVE  Responses'
<1>1. InboxTyped /\ pending \in [Lines -> SUBSET Message]
  BY DEF ModbusInv, TypeOK
<1>2. CASE \E s \in Lines : AnswerArrives(s)
  <2>1. PICK s \in Lines : AnswerArrives(s)
    BY <1>2
  <2>2. PICK msg \in pending[s] :
          inbox' = [inbox EXCEPT ![ServerEnd(s)] = [msg EXCEPT !.kind = "response"]]
    BY <2>1 DEF AnswerArrives
  <2>3. PICK answer \in Message : answer = [msg EXCEPT !.kind = "response"]
    BY <1>1, MessageFacts
  <2>4. answer.kind = "response" /\ answer # Unfinished
    BY <1>1, <2>3, MessageFacts DEF Message
  <2> QED
    BY <1>1, <2>2, <2>3, <2>4, ServerEndChanges DEF Responses
<1>3. CASE \E c \in Clients, id \in Ids : RequestArrives(c, id)
  <2>1. PICK c \in Clients, id \in Ids : RequestArrives(c, id)
    BY <1>3
  <2>2. c \in Clients \ Masters /\ inbox' = [inbox EXCEPT ![ClientEnd(c)] = Request(c, id, 0)]
    BY <2>1 DEF RequestArrives
  <2>3. Request(c, id, 0) \in Message
    <3>1. 0 \in 0 .. Numbers - 1
      BY ModbusAssumption
    <3> QED
      BY <3>1, MessageFacts
  <2>4. PICK msg : msg = Request(c, id, 0)
    OBVIOUS
  <2>5. msg \in Message \cup {None} /\ inbox' = [inbox EXCEPT ![ClientEnd(c)] = msg]
    BY <2>2, <2>3, <2>4
  <2>6. \A s \in Lines : Arrived(s)' = Arrived(s)
    BY <1>1, <2>2, <2>5, ClientEndChanges
  <2> QED
    BY <2>6, ResponsesKept
<1>4. ASSUME NEW c \in Clients, SendMsgToServer(c)
      PROVE  Responses'
  <2>1. PICK s \in Servers, msg \in Message : s = client[c].indexServer /\ msg = client[c].msg
    BY <1>4, AtClient DEF SendMsgToServer, InState, ClientFine
  <2>2. UNCHANGED inbox \/ Framed(s, msg)
    BY <1>4, <2>1 DEF SendMsgToServer, SendNow
  <2>3. [msg EXCEPT !.kind = "response"].kind = "response"
    BY DEF Message
  <2> QED
    BY <1>1, <2>2, <2>3, InboxStays, FramedFacts DEF Responses
<1>5. ASSUME NEW c \in Clients, WaitTimeout(c)
      PROVE  Responses'
  <2>1. PICK s \in Servers : s = client[c].indexServer
    BY <1>5, AtClient DEF WaitTimeout, InState, ClientFine
  <2>2. \/ UNCHANGED inbox
        \/ s \in Lines /\ inbox' = [inbox EXCEPT ![ServerEnd(s)] = Unfinished]
    BY <1>5, <2>1 DEF WaitTimeout, GiveUp
  <2> QED
    BY <1>1, <2>2, InboxStays, ServerEndChanges DEF Responses
<1>6. ASSUME NEW s \in Servers, Emptied(s)
      PROVE  Responses'
  BY <1>1, <1>6, InboxStays, ServerEndChanges DEF Emptied, Responses
<1>7. ASSUME NEW c \in Clients, WaitTransport(c) \/ WaitMaster(c)
      PROVE  Responses'
  <2>1. PICK s \in Servers : s = client[c].indexServer
    BY <1>7, AtClient DEF WaitTransport, WaitMaster, InState, ClientFine
  <2> QED
    BY <1>6, <1>7, <2>1 DEF WaitTransport, WaitMaster
<1>8. ASSUME NEW c \in Clients, IdleTransport(c)
      PROVE  Responses'
  BY <1>1, <1>8, ClientEndChanges, ResponsesKept DEF IdleTransport
<1>9. ASSUME NEW c \in Clients,
             MasterTask(c) \/ MasterCancel(c) \/ MasterRecvMsg(c) \/ Routing(c) \/ MasterFinish(c)
      PROVE  Responses'
  BY <1>9, InboxStays, ResponsesKept
  DEF MasterTask, MasterCancel, MasterRecvMsg, Routing, MasterFinish, lineVars
<1>10. CASE \/ MainTask
            \/ \E c \in Masters, id \in Ids, blocking \in BOOLEAN : Command(c, id, blocking)
            \/ \E c \in Masters : Return(c)
            \/ \E s \in Lines : AnswerLost(s)
  BY <1>10, InboxStays, ResponsesKept DEF MainTask, Command, Return, AnswerLost, lineVars
<1> QED
  BY <1>2, <1>3, <1>4, <1>5, <1>7, <1>8, <1>9, <1>10 DEF Next, Gateway, ClientProcess

LEMMA TriesStep ==
  ASSUME ModbusInv, AnswerInv, Tries, Responses, Next
  PROVE  Tries'
<1>1. ASSUME UNCHANGED <<client, master, sends>>, \A d \in Masters : At(d)' = At(d)
      PROVE  Tries'
  BY <1>1, TriesKept DEF Tries
<1>2. ASSUME MainTask
      PROVE  Tries'
  <2>1. gw.client = NClients /\ gw'.at = "call" /\ UNCHANGED <<client, master, sends>>
    BY <1>2 DEF MainTask
  <2>2. \A d \in Masters : At(d) = "call" /\ At(d)' = "call"
    BY <2>1, TypeFacts DEF At, Clients
  <2> QED
    BY <1>1, <2>1, <2>2
<1>3. ASSUME NEW c \in Clients, ClientProcess(c)
      PROVE  Tries'
  BY <1>3, IdleTransportTries, MasterTaskTries, MasterCancelTries, MasterRecvMsgTries,
     RoutingTries, SendMsgToServerTries, WaitTimeoutTries, WaitMasterTries, MasterFinishTries
  DEF ClientProcess
<1>4. ASSUME \/ \E c \in Clients, id \in Ids : RequestArrives(c, id)
             \/ \E s \in Lines : AnswerArrives(s) \/ AnswerLost(s)
      PROVE  Tries'
  <2>1. UNCHANGED <<gw, client, master, sends>>
    BY <1>4 DEF RequestArrives, AnswerArrives, AnswerLost
  <2> QED
    BY <1>1, <2>1 DEF At
<1> QED
  BY <1>2, <1>3, <1>4, CommandTries, ReturnTries DEF Next, Gateway

LEMMA InitTries == Init => TriesInv
<1>1. ASSUME Init
      PROVE  Tries
  BY <1>1 DEF Init, Tries, TriesFine, OnItsWay, Routable, Idle
<1>2. ASSUME Init
      PROVE  Responses
  BY <1>2, InitInbox DEF Responses
<1> QED
  BY <1>1, <1>2 DEF TriesInv

\* A command is sent no more often than its tries allow, whatever is lost and
\* however the clients of one server are in each other's way.
THEOREM TriesAreBounded == Spec => []RetriesBounded
<1>1. ASSUME ModbusInv, AnswerInv, TriesInv, Next
      PROVE  TriesInv'
  BY <1>1, ResponsesStep, TriesStep DEF TriesInv
<1>2. ASSUME TriesInv, UNCHANGED vars
      PROVE  TriesInv'
  BY <1>2, InboxStays DEF TriesInv, Tries, TriesFine, Due, At, Responses, vars, lineVars
<1>3. ASSUME ModbusInv, TriesInv
      PROVE  RetriesBounded
  <2>1. ASSUME NEW c \in Masters
        PROVE  sends[c] <= Limit
    <3>1. /\ TriesFine(client[c], master[c], sends[c], At(c)) /\ sends[c] \in Nat
          /\ master[c].retryCount \in Nat
      BY <1>3, TypeFacts DEF TriesInv, Tries
    <3>2. /\ ~master[c].cmd => sends[c] = 0
          /\ master[c].cmd => sends[c] + master[c].retryCount <= Limit
      BY <3>1, TriesFacts
    <3> QED
      BY <3>1, <3>2, LimitFacts
  <2> QED
    BY <2>1 DEF RetriesBounded, Limit
<1>4. ASSUME ModbusInv, AnswerInv, UNCHANGED vars
      PROVE  AnswerInv'
  BY <1>4, AllStay DEF vars, lineVars
<1> QED
  BY <1>1, <1>2, <1>3, <1>4, InitAnswers, AnswerInvStep, InitTries, GivenUpInvariant,
     ModbusInvariant, PTL DEF Spec

=============================================================================
