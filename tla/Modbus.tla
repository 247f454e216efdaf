------------------------------- MODULE Modbus -------------------------------
(***************************************************************************)
(* A Modbus gateway: clients, which are masters of this program (a task    *)
(* gives them commands) or lines to remote masters, and servers, which are *)
(* slaves of this program or lines to remote slaves.  A run of             *)
(* ciaaModbus_gatewayMainTask processes each client in turn; a step is one *)
(* call of ciaaModbus_gatewayClientProcess, or a part of it where another  *)
(* task may come in between.                                               *)
(*                                                                         *)
(* A message is told apart by whether it is a request or a response, by    *)
(* its client, and by the number of a master's command.                    *)
(* Lines lose and delay messages; of those that came in, asciiTask keeps   *)
(* the last one.  A frame that is incomplete, longer than an int8_t counts *)
(* or has a wrong LRC is one that is lost; what of it stays in the buffer  *)
(* of a line matters if the next thing there is a frame to be sent.        *)
(***************************************************************************)
EXTENDS Integers, FiniteSets

CONSTANTS
  NClients, NServers,
  Masters,             \* the clients that are masters; the others are lines
  ServerId,            \* of each server: the id of a slave, or 0 for a line
  Ids,                 \* the ids of slaves that requests name
  Numbers,             \* how many numbers commands have, taken in turn
  RetryComm,           \* how often a master sends a command, 3 by default
  RespTimeout,         \* in runs of the gateway
  LIMIT_CALLS,         \* 5 in the code
  MaxRemote,           \* how many requests a remote slave has to answer
  AppHigher            \* the task with the commands preempts the gateway

Clients == 0 .. NClients - 1
Servers == 0 .. NServers - 1
Lines == {s \in Servers : ServerId[s] = 0}

ASSUME ModbusAssumption ==
  /\ NClients \in Nat \ {0} /\ NServers \in Nat \ {0}
  /\ Masters \subseteq Clients
  /\ ServerId \in [Servers -> Ids \cup {0}] /\ Ids \subseteq 1 .. 255
  /\ Numbers \in Nat \ {0}
  /\ RetryComm \in Nat /\ RespTimeout \in Nat
  /\ LIMIT_CALLS \in Nat \ {0} /\ MaxRemote \in Nat \ {0}
  /\ AppHigher \in BOOLEAN

VARIABLES
  gw,         \* the gateway task: the client, the calls so far, and where in one
  client,     \* state, message (none if size is 0), indexServer and timeout
  busy,       \* of each server
  master,     \* the object of each master
  event,      \* whether MODBUSE is set for the task of each master
  pending,    \* the requests each remote slave has to answer
  inbox,      \* the message that came in last, at each end of a line
  next,       \* the number of each master's next command
  ended,      \* history: what the command a task still waits for ended with
  sends,      \* history: how often the pending command was sent
  timedOut    \* history: whether a wait for this server was given up

lineVars == <<pending, inbox, next>>
vars == <<gw, client, busy, master, event, lineVars, ended, sends, timedOut>>

Message == [kind : {"request", "response"}, from : Clients, id : Ids,
            n : 0 .. Numbers - 1]
None == [kind |-> "none"]
Unfinished == [kind |-> "unfinished"]
ExceptionCodes == {"no_error", "not_respond", "error"}
ClientEnd(c) == <<"client", c>>
ServerEnd(s) == <<"server", s>>
Ends == {ClientEnd(c) : c \in Clients \ Masters} \cup {ServerEnd(s) : s \in Lines}

GatewayRecord ==
  [client : 0 .. NClients, calls : 0 .. LIMIT_CALLS - 1, at : {"call", "recv", "cancel", "finish"}]
ClientRecord ==
  [state : {"IDLE", "ROUTING", "SEND_MSG_TO_SERVER", "WAITING_SERVER_RESPONSE"},
   msg : Message \cup {None}, indexServer : Servers \cup {-1}, timeout : 0 .. RespTimeout]
MasterRecord ==
  [cmd : BOOLEAN, slaveId : Ids \cup {0}, n : 0 .. Numbers - 1, blocking : BOOLEAN,
   waiting : BOOLEAN, retryCount : 0 .. RetryComm, exceptioncode : ExceptionCodes]

\* What an unfinished frame leaves behind matters where requests are sent.
InboxTyped ==
  /\ inbox \in [Ends -> Message \cup {None, Unfinished}]
  /\ \A c \in Clients \ Masters : inbox[ClientEnd(c)] # Unfinished

TypeOK ==
  /\ gw \in GatewayRecord
  /\ client \in [Clients -> ClientRecord]
  /\ busy \in [Servers -> BOOLEAN]
  /\ master \in [Masters -> MasterRecord]
  /\ event \in [Masters -> BOOLEAN]
  /\ pending \in [Lines -> SUBSET Message]
  /\ InboxTyped
  /\ next \in [Masters -> 0 .. Numbers - 1]
  /\ ended \in [Masters -> ExceptionCodes]
  /\ sends \in [Masters -> Nat]
  /\ timedOut \in [Servers -> BOOLEAN]

\* In the state IDLE, indexServer and timeout are of no use.
Idle(msg) == [state |-> "IDLE", msg |-> msg, indexServer |-> -1, timeout |-> 0]

\* Everything is open and added to the gateway, which is between two runs.
Init ==
  /\ gw = [client |-> NClients, calls |-> 0, at |-> "call"]
  /\ client = [c \in Clients |-> Idle(None)]
  /\ busy = [s \in Servers |-> FALSE]
  /\ master = [c \in Masters |-> [cmd |-> FALSE, slaveId |-> 0, n |-> 0, blocking |-> FALSE,
                 waiting |-> FALSE, retryCount |-> 0, exceptioncode |-> "no_error"]]
  /\ event = [c \in Masters |-> FALSE]
  /\ pending = [s \in Lines |-> {}] /\ inbox = [e \in Ends |-> None]
  /\ next = [c \in Masters |-> 0]
  /\ ended = [c \in Masters |-> "no_error"] /\ sends = [c \in Masters |-> 0]
  /\ timedOut = [s \in Servers |-> FALSE]

Request(c, id, n) == [kind |-> "request", from |-> c, id |-> id, n |-> n]

(***************************************************************************)
(* The gateway task                                                        *)
(***************************************************************************)
Running(c, at) == gw.client = c /\ gw.at = at
InState(c, state) == Running(c, "call") /\ client[c].state = state

\* Fault: a client with more to do is called for as long as it has.
CalledOn(pendingTask) ==
  gw' = IF pendingTask THEN [gw EXCEPT !.calls = @ + 1, !.at = "call"]
        ELSE [client |-> gw.client + 1, calls |-> 0, at |-> "call"]

\* A client with more to do is called again, LIMIT_CALLS times at most.
Called(pendingTask) ==
  gw' = IF pendingTask /\ gw.calls + 1 < LIMIT_CALLS
          THEN [gw EXCEPT !.calls = @ + 1, !.at = "call"]
          ELSE [client |-> gw.client + 1, calls |-> 0, at |-> "call"]
Within(at) == gw' = [gw EXCEPT !.at = at]

MainTask ==
  /\ gw.client = NClients
  /\ gw' = [client |-> 0, calls |-> 0, at |-> "call"]
  /\ UNCHANGED <<client, busy, master, event, lineVars, ended, sends, timedOut>>

\* Idle, a line: the message that came in, if any.
IdleTransport(c) ==
  /\ c \notin Masters /\ InState(c, "IDLE")
  /\ client' = [client EXCEPT ![c] = [@ EXCEPT !.msg = inbox[ClientEnd(c)],
                  !.state = IF inbox[ClientEnd(c)] = None THEN "IDLE" ELSE "ROUTING"]]
  /\ inbox' = [inbox EXCEPT ![ClientEnd(c)] = None]
  /\ Called(inbox[ClientEnd(c)] # None)
  /\ UNCHANGED <<busy, master, event, pending, next, ended, sends, timedOut>>

\* The end of a command, as the task learns it.
Signal(c, code) ==
  /\ event' = IF master[c].blocking THEN [event EXCEPT ![c] = TRUE] ELSE event
  /\ ended' = IF master[c].blocking THEN [ended EXCEPT ![c] = code] ELSE ended

\* Fault: a command is given up without a signal.
MasterTaskNoSignal(c) ==
  /\ c \in Masters /\ InState(c, "IDLE")
  /\ IF ~master[c].cmd THEN Within("recv") /\ UNCHANGED master
     ELSE IF master[c].retryCount > 0
       THEN Within("recv") /\ master' = [master EXCEPT ![c].retryCount = @ - 1]
     ELSE Within("cancel") /\ UNCHANGED master
  /\ UNCHANGED <<client, busy, event, lineVars, ended, sends, timedOut>>

\* Fault: the retries are not counted.
MasterTaskForever(c) ==
  /\ c \in Masters /\ InState(c, "IDLE")
  /\ Within("recv")
  /\ UNCHANGED <<client, busy, master, event, lineVars, ended, sends, timedOut>>

\* Idle, a master, first ciaaModbus_masterTask: a retry less, or the end,
\* which masterTask signals before it takes the command away.
MasterTask(c) ==
  LET code == IF master[c].exceptioncode = "no_error" THEN "not_respond"
              ELSE master[c].exceptioncode
  IN /\ c \in Masters /\ InState(c, "IDLE")
     /\ IF ~master[c].cmd THEN Within("recv") /\ UNCHANGED <<master, event, ended>>
        ELSE IF master[c].retryCount > 0
          THEN /\ Within("recv")
               /\ master' = [master EXCEPT ![c].retryCount = @ - 1]
               /\ UNCHANGED <<event, ended>>
          ELSE /\ Within("cancel")
               /\ master' = [master EXCEPT ![c].exceptioncode = code]
               /\ Signal(c, code)
     /\ UNCHANGED <<client, busy, lineVars, sends, timedOut>>

MasterCancel(c) ==
  /\ Running(c, "cancel")
  /\ Within("recv")
  /\ master' = [master EXCEPT ![c].cmd = FALSE]
  /\ sends' = [sends EXCEPT ![c] = 0]
  /\ UNCHANGED <<client, busy, event, lineVars, ended, timedOut>>

\* Then ciaaModbus_masterRecvMsg: with no command it leaves the size, and so
\* the message, as it was.
MasterRecvMsg(c) ==
  LET msg == IF master[c].cmd THEN Request(c, master[c].slaveId, master[c].n) ELSE client[c].msg
  IN /\ Running(c, "recv")
     /\ client' = [client EXCEPT ![c] = [@ EXCEPT !.msg = msg,
                     !.state = IF msg = None THEN "IDLE" ELSE "ROUTING"]]
     /\ Called(msg # None)
     /\ UNCHANGED <<busy, master, event, lineVars, ended, sends, timedOut>>

\* The first server with the id of the message, else the first line.
Candidates(id) ==
  IF \E s \in Servers : ServerId[s] = id THEN {s \in Servers : ServerId[s] = id} ELSE Lines
Route(id) == {s \in Candidates(id) : \A u \in Candidates(id) : s <= u}

Routing(c) ==
  /\ InState(c, "ROUTING")
  /\ IF Candidates(client[c].msg.id) = {}
       THEN client' = [client EXCEPT ![c] = Idle(@.msg)] /\ Called(FALSE)
       ELSE /\ \E s \in Route(client[c].msg.id) :
                 client' = [client EXCEPT ![c] = [@ EXCEPT !.state = "SEND_MSG_TO_SERVER",
                                                           !.indexServer = s]]
            /\ Called(TRUE)
  /\ UNCHANGED <<busy, master, event, lineVars, ended, sends, timedOut>>

\* A request of the present command is being sent.
Sends(c) == c \in Masters /\ client[c].msg.kind = "request"
            /\ master[c].cmd /\ client[c].msg.n = master[c].n

\* ciaaModbus_asciiSendMsg makes up its frame in the buffer it receives in, and
\* leaves the number of bytes received: a frame not longer than the unfinished
\* one that was there is then taken for an answer.
Framed(s, msg) ==
  IF s \in Lines /\ inbox[ServerEnd(s)] = Unfinished
    THEN \E back \in {None, [msg EXCEPT !.kind = "response"]} :
           inbox' = [inbox EXCEPT ![ServerEnd(s)] = back]
    ELSE UNCHANGED inbox

\* A slave keeps the message, which it answers when its task is called; a line
\* takes it to the remote slave, if it does not get lost.
SendNow(c) ==
  LET s == client[c].indexServer
  IN /\ Framed(s, client[c].msg)
     /\ busy' = [busy EXCEPT ![s] = TRUE]
     /\ \/ s \notin Lines /\ UNCHANGED pending
        \/ s \in Lines /\ UNCHANGED pending
        \/ /\ s \in Lines /\ Cardinality(pending[s]) < MaxRemote
           /\ pending' = [pending EXCEPT ![s] = @ \cup {client[c].msg}]
     /\ client' = [client EXCEPT ![c] = [@ EXCEPT !.state = "WAITING_SERVER_RESPONSE",
                                               !.timeout = RespTimeout]]
     /\ sends' = IF Sends(c) THEN [sends EXCEPT ![c] = @ + 1] ELSE sends
     /\ Called(TRUE)

\* Fault: whether the server is busy is not looked at.
SendMsgToServerAnyway(c) ==
  /\ InState(c, "SEND_MSG_TO_SERVER")
  /\ SendNow(c)
  /\ UNCHANGED <<master, event, next, ended, timedOut>>

SendMsgToServer(c) ==
  /\ InState(c, "SEND_MSG_TO_SERVER")
  /\ IF busy[client[c].indexServer]
       THEN Called(FALSE) /\ UNCHANGED <<client, busy, pending, inbox, sends>>
       ELSE SendNow(c)
  /\ UNCHANGED <<master, event, next, ended, timedOut>>

\* What the server's task and recvMsg come to: a slave answers at once, and an
\* unfinished frame is no message.
Arrived(s) == IF inbox[ServerEnd(s)] = Unfinished THEN None ELSE inbox[ServerEnd(s)]
Received(s) ==
  IF s \in Lines THEN {Arrived(s)}
  ELSE {[client[c].msg EXCEPT !.kind = "response"] :
          c \in {c \in Clients : client[c].state = "WAITING_SERVER_RESPONSE" /\ client[c].indexServer = s}}

Emptied(s) == inbox' = IF s \in Lines THEN [inbox EXCEPT ![ServerEnd(s)] = None] ELSE inbox

\* A wait is given up: part of a frame may have come in.
GiveUp(c) ==
  LET s == client[c].indexServer
  IN /\ client' = [client EXCEPT ![c] = Idle(None)]
     /\ \/ UNCHANGED inbox
        \/ s \in Lines /\ inbox' = [inbox EXCEPT ![ServerEnd(s)] = Unfinished]
     /\ timedOut' = [timedOut EXCEPT ![s] = TRUE]

\* Fault: a wait that is given up leaves the server busy.
WaitTimeoutStaysBusy(c) ==
  /\ InState(c, "WAITING_SERVER_RESPONSE")
  /\ None \in Received(client[c].indexServer)
  /\ IF client[c].timeout # 0
       THEN /\ client' = [client EXCEPT ![c] = [@ EXCEPT !.msg = None, !.timeout = client[c].timeout - 1]]
            /\ UNCHANGED <<inbox, timedOut>>
       ELSE GiveUp(c)
  /\ Called(FALSE)
  /\ UNCHANGED <<busy, master, event, pending, next, ended, sends>>

\* Fault: a wait does not count its timeout down.
WaitTimeoutNever(c) ==
  /\ InState(c, "WAITING_SERVER_RESPONSE")
  /\ None \in Received(client[c].indexServer)
  /\ IF client[c].timeout # 0
       THEN /\ client' = [client EXCEPT ![c].msg = None]
            /\ UNCHANGED <<busy, inbox, timedOut>>
       ELSE /\ GiveUp(c)
            /\ busy' = [busy EXCEPT ![client[c].indexServer] = FALSE]
  /\ Called(FALSE)
  /\ UNCHANGED <<master, event, pending, next, ended, sends>>

WaitTimeout(c) ==
  /\ InState(c, "WAITING_SERVER_RESPONSE")
  /\ None \in Received(client[c].indexServer)
  /\ IF client[c].timeout # 0
       THEN /\ client' = [client EXCEPT ![c] = [@ EXCEPT !.msg = None, !.timeout = client[c].timeout - 1]]
            /\ UNCHANGED <<busy, inbox, timedOut>>
       ELSE /\ GiveUp(c)
            /\ busy' = [busy EXCEPT ![client[c].indexServer] = FALSE]
  /\ Called(FALSE)
  /\ UNCHANGED <<master, event, pending, next, ended, sends>>

\* The answer goes to a line, and out of the model, whatever it answers.
WaitTransport(c) ==
  LET s == client[c].indexServer
  IN /\ c \notin Masters /\ InState(c, "WAITING_SERVER_RESPONSE")
     /\ None \notin Received(s)
     /\ client' = [client EXCEPT ![c] = Idle(None)]
     /\ Emptied(s)
     /\ busy' = [busy EXCEPT ![s] = FALSE]
     /\ Called(TRUE)
     /\ UNCHANGED <<master, event, pending, next, ended, sends, timedOut>>

\* ciaaModbus_masterSendMsg: what a response of its slave makes of the command,
\* which it answers, has an exception for, or does not fit ("error" is any of
\* the codes for these).  With no command pending no function code fits; that
\* of another command may.
Outcomes(c) == IF master[c].cmd THEN {"no_error", "error"} ELSE {"error"}

WaitMaster(c) ==
  LET s == client[c].indexServer
  IN /\ c \in Masters /\ InState(c, "WAITING_SERVER_RESPONSE")
     /\ \E msg \in Received(s) \ {None} :
          IF msg.id # master[c].slaveId
            THEN /\ client' = [client EXCEPT ![c] = Idle(msg)]
                 /\ busy' = [busy EXCEPT ![s] = FALSE]
                 /\ Called(TRUE)
                 /\ UNCHANGED <<master, event, ended>>
            ELSE \E code \in Outcomes(c) :
                   /\ master' = [master EXCEPT ![c].exceptioncode = code]
                   /\ IF code = "no_error"
                        THEN /\ Signal(c, code) /\ Within("finish")
                             /\ client' = [client EXCEPT ![c].msg = msg]
                             /\ UNCHANGED busy
                        ELSE /\ client' = [client EXCEPT ![c] = Idle(msg)]
                             /\ busy' = [busy EXCEPT ![s] = FALSE]
                             /\ Called(TRUE)
                             /\ UNCHANGED <<event, ended>>
     /\ Emptied(s)
     /\ UNCHANGED <<pending, next, sends, timedOut>>

\* The command is over only after the task was told so.
MasterFinish(c) ==
  /\ Running(c, "finish")
  /\ master' = [master EXCEPT ![c].cmd = FALSE]
  /\ client' = [client EXCEPT ![c] = Idle(@.msg)]
  /\ busy' = [busy EXCEPT ![client[c].indexServer] = FALSE]
  /\ sends' = [sends EXCEPT ![c] = 0]
  /\ Called(TRUE)
  /\ UNCHANGED <<event, lineVars, ended, timedOut>>

(***************************************************************************)
(* The task of a master                                                    *)
(***************************************************************************)
AppRuns == AppHigher \/ gw.client = NClients

\* One of the ciaaModbus_masterCmd functions, with a callback or blocking;
\* while a command is pending they return -1.  The rest of the gateway's run
\* cannot come in between: its task does not preempt this one.
Command(c, id, blocking) ==
  /\ AppRuns /\ ~master[c].waiting /\ ~master[c].cmd
  /\ master' = [master EXCEPT ![c] = [cmd |-> TRUE, slaveId |-> id, n |-> next[c],
                  blocking |-> blocking, waiting |-> blocking, retryCount |-> RetryComm,
                  exceptioncode |-> "no_error"]]
  /\ next' = [next EXCEPT ![c] = (@ + 1) % Numbers]
  /\ UNCHANGED <<gw, client, busy, event, pending, inbox, ended, sends, timedOut>>

\* It returns master[c].exceptioncode.
Return(c) ==
  /\ AppRuns /\ master[c].waiting /\ event[c]
  /\ event' = [event EXCEPT ![c] = FALSE]
  /\ master' = [master EXCEPT ![c].waiting = FALSE]
  /\ ended' = [ended EXCEPT ![c] = "no_error"]
  /\ UNCHANGED <<gw, client, busy, lineVars, sends, timedOut>>

(***************************************************************************)
(* The lines                                                               *)
(***************************************************************************)
RequestArrives(c, id) ==
  /\ c \notin Masters
  /\ inbox' = [inbox EXCEPT ![ClientEnd(c)] = Request(c, id, 0)]
  /\ UNCHANGED <<gw, client, busy, master, event, pending, next, ended, sends, timedOut>>

\* Early or late; an answer sent on as a request is answered too.
AnswerArrives(s) ==
  /\ \E msg \in pending[s] :
       /\ pending' = [pending EXCEPT ![s] = @ \ {msg}]
       /\ inbox' = [inbox EXCEPT ![ServerEnd(s)] = [msg EXCEPT !.kind = "response"]]
  /\ UNCHANGED <<gw, client, busy, master, event, next, ended, sends, timedOut>>

AnswerLost(s) ==
  /\ \E msg \in pending[s] : pending' = [pending EXCEPT ![s] = @ \ {msg}]
  /\ UNCHANGED <<gw, client, busy, master, event, inbox, next, ended, sends, timedOut>>

ClientProcess(c) ==
  \/ IdleTransport(c) \/ MasterTask(c) \/ MasterCancel(c) \/ MasterRecvMsg(c)
  \/ Routing(c) \/ SendMsgToServer(c)
  \/ WaitTimeout(c) \/ WaitTransport(c) \/ WaitMaster(c) \/ MasterFinish(c)

Gateway == MainTask \/ \E c \in Clients : ClientProcess(c)

Next ==
  \/ Gateway
  \/ \E c \in Masters, id \in Ids, blocking \in BOOLEAN : Command(c, id, blocking)
  \/ \E c \in Masters : Return(c)
  \/ \E c \in Clients, id \in Ids : RequestArrives(c, id)
  \/ \E s \in Lines : AnswerArrives(s) \/ AnswerLost(s)

Spec == Init /\ [][Next]_vars

\* The alarm activates the gateway's task for ever.  Gateway is always enabled
\* and each step of it moves gw, which nothing else does: this is its weak
\* fairness, without ENABLED.  Nothing is asked of the lines and other tasks.
FairSpec == Spec /\ []<><<gw' # gw>>_gw

(***************************************************************************)
(* Properties                                                              *)
(***************************************************************************)
WaitsFor(c, s) == client[c].state = "WAITING_SERVER_RESPONSE" /\ client[c].indexServer = s

\* A server is busy as long as one client waits for it, and one only, whether
\* the wait ends with an answer or is given up.
BusyIsOwned ==
  \A s \in Servers :
    /\ busy[s] <=> \E c \in Clients : WaitsFor(c, s)
    /\ \A c, d \in Clients : WaitsFor(c, s) /\ WaitsFor(d, s) => c = d

\* An answer that comes in is for the client that waits for it, until a wait
\* was given up: from then on a late answer goes to whoever waits next.
AnswerToRequester ==
  \A s \in Lines : Arrived(s) # None /\ ~timedOut[s] => WaitsFor(Arrived(s).from, s)

\* A task that blocks in a command has it pending, or its event set: it is
\* never left waiting for a command that is over.
BlockedHasCommand ==
  \A c \in Masters : master[c].waiting => master[c].cmd \/ event[c]

\* A command is sent retryComm times, or once more if it came in between
\* masterTask and masterRecvMsg.
RetriesBounded == \A c \in Masters : sends[c] <= RetryComm + (IF AppHigher THEN 1 ELSE 0)

\* Every command ends, whatever is lost, unless its master finds the server
\* busy with other clients again and again.
HeldUp(c) == client[c].state = "SEND_MSG_TO_SERVER" /\ busy[client[c].indexServer]
CommandsEnd == \A c \in Masters : []<>~master[c].cmd \/ []<>HeldUp(c)

\* ciaaModbus.h: a blocking command returns "0 successful", and else the code
\* that tells what went wrong: the one its command ended with.
ReturnsWhatEnded == [][\A c \in Masters : Return(c) => master[c].exceptioncode = ended[c]]_vars
=============================================================================
