------------------------------ MODULE Outgoing ------------------------------
(***************************************************************************)
(* Commands on their way to the lobby server: TASServer::SendCmd and Ping  *)
(* of tasserver.cpp, called by the GUI thread and by the thread that pings *)
(* the server (pingthread.cpp), and the buffer of socket.cpp that sends no *)
(* more than a number of bytes per second.                                 *)
(*                                                                         *)
(* Each thread goes through SendCmd step by step.  The last id is reached  *)
(* through a reference that outlives its lock (tasserver.h:171): every     *)
(* read and write of it is a step of its own.  The list of pings, which    *)
(* nothing here depends on, is left to Session.                            *)
(*                                                                         *)
(* A command is Size chunks; chunk i is of command ((i - 1) \div Size) + 1.*)
(***************************************************************************)
EXTENDS Integers, Sequences

CONSTANTS
  Size,         \* chunks of a command
  Rate,         \* m_rate: chunks that may be sent at once
  Refill,       \* chunks that are allowed again per call of the timer
  MaxCmds,      \* bound on the commands given to a connection
  MaxSessions   \* bound on the connections made

ASSUME OutgoingAssumption ==
  /\ Size \in Nat \ {0} /\ Rate \in Nat \ {0} /\ Refill \in Nat \ {0}
  /\ MaxCmds \in Nat /\ MaxSessions \in Nat

Threads == {"gui", "ping"}
Kinds == {"say", "plain", "ping"}   \* "plain" are LOGIN and JOIN
NoId == -1

Steps == {"idle", "test", "load", "store", "read", "send",
          "off", "sleep", "reset", "wait"}

VARIABLES
  conn,       \* m_sock
  connected,  \* m_connected
  online,     \* m_online
  session,    \* the connections made so far
  idOn,       \* m_id_transmission
  lastId,     \* m_last_id
  pc,         \* where each thread is
  kind,       \* the command each thread sends
  reg,        \* what each thread read of the last id
  leaving,    \* the GUI thread is in a disconnect of its own
  buffer,     \* Socket::m_buffer
  sent,       \* m_sent
  wire,       \* what the server got on this connection
  log,        \* history: the commands given to this connection
  level       \* history: what was written on any connection, in a bucket
              \* that leaks Refill at every call of the timer

link == <<conn, connected, online, session>>
ids == <<idOn, lastId>>
threads == <<pc, kind, reg, leaving>>
stream == <<buffer, sent, wire, log, level>>
vars == <<link, ids, threads, stream>>

Given == [kind : Kinds, id : Int]

TypeOK ==
  /\ conn \in {"none", "connecting", "open", "lost", "dead"}
  /\ connected \in BOOLEAN /\ online \in BOOLEAN
  /\ session \in Nat
  /\ idOn \in BOOLEAN /\ lastId \in Nat
  /\ pc \in [Threads -> Steps]
  /\ kind \in [Threads -> Kinds]
  /\ reg \in [Threads -> Int]
  /\ leaving \in BOOLEAN
  /\ buffer \in Seq(Nat) /\ wire \in Seq(Nat)
  /\ sent \in 0 .. Rate
  /\ log \in Seq(Given)
  /\ level \in Nat

Chunks(n) == [i \in 1 .. n |-> i]

Init ==
  /\ conn = "none" /\ connected = FALSE /\ online = FALSE /\ session = 0
  /\ idOn = TRUE /\ lastId = 0
  /\ pc = [t \in Threads |-> IF t = "gui" THEN "idle" ELSE "off"]
  /\ kind = [t \in Threads |-> "ping"]
  /\ reg = [t \in Threads |-> 0]
  /\ leaving = FALSE
  /\ buffer = <<>> /\ wire = <<>> /\ log = <<>>
  /\ sent = 0 /\ level = 0

Idle == pc["gui"] = "idle"
At(t, step) == pc[t] = step
Go(t, step) == pc' = [pc EXCEPT ![t] = step]

-----------------------------------------------------------------------------
Allowed(spent) == Rate - spent           \* int max = m_rate - m_sent

(* Socket::_Send after the data was appended: wxSocket writes some of what *)
(* is allowed, nothing unless the connection is open, and that is erased.  *)
Write(data, spent, was) ==
  \E n \in 0 .. Allowed(spent) :
    /\ n <= Len(data) /\ (conn = "open" \/ n = 0)
    /\ wire' = wire \o SubSeq(data, 1, n)
    /\ buffer' = SubSeq(data, n + 1, Len(data))
    /\ sent' = spent + n
    /\ level' = was + n

Fresh == [i \in 1 .. Size |-> Len(log) * Size + i]

(* Socket::Send, which holds the socket's lock.                            *)
Send(command) ==
  IF conn = "none" THEN UNCHANGED stream
  ELSE /\ Write(buffer \o Fresh, sent, level)
       /\ log' = Append(log, command)

(* Mutant: the timer allows nothing again.                                 *)
LeakNothing(amount) == amount

(* Socket::OnTimer, called by TASServer::Update.                           *)
Leak(amount) == IF amount > Refill THEN amount - Refill ELSE 0

OnTimer ==
  /\ Idle
  /\ IF buffer # <<>> /\ conn # "none"
     THEN Write(buffer, Leak(sent), Leak(level))
     ELSE /\ sent' = Leak(sent) /\ level' = Leak(level)
          /\ UNCHANGED <<buffer, wire>>
  /\ UNCHANGED <<link, ids, threads, log>>

-----------------------------------------------------------------------------
(* SendCmd, step by step, for both threads.                                *)
Room == Len(log) < MaxCmds /\ lastId < MaxCmds

Start(t, k) ==
  /\ kind' = [kind EXCEPT ![t] = k]
  /\ reg' = [reg EXCEPT ![t] = 0]
  /\ Go(t, "test")

(* The locals of a call that has returned.                                 *)
Forget(t) ==
  /\ kind' = [kind EXCEPT ![t] = "ping"]
  /\ reg' = [reg EXCEPT ![t] = 0]

(* Any command of the user or of an event, JoinChannel and Login among     *)
(* them, which switch the ids off, and /ping.                              *)
Command(k) ==
  /\ Idle /\ Room
  /\ Start("gui", k)
  /\ idOn' = (k # "plain")
  /\ UNCHANGED <<link, lastId, leaving, stream>>

Test(t) ==
  /\ At(t, "test")
  /\ reg' = [reg EXCEPT ![t] = NoId]
  /\ Go(t, IF idOn THEN "load" ELSE "send")
  /\ UNCHANGED <<link, ids, kind, leaving, stream>>

Load(t) ==
  /\ At(t, "load")
  /\ reg' = [reg EXCEPT ![t] = lastId]
  /\ Go(t, "store")
  /\ UNCHANGED <<link, ids, kind, leaving, stream>>

Store(t) ==
  /\ At(t, "store")
  /\ lastId' = reg[t] + 1
  /\ Go(t, "read")
  /\ UNCHANGED <<link, idOn, kind, reg, leaving, stream>>

Read(t) ==
  /\ At(t, "read")
  /\ reg' = [reg EXCEPT ![t] = lastId]
  /\ Go(t, "send")
  /\ UNCHANGED <<link, ids, kind, leaving, stream>>

(* Where a thread goes when its command was sent.                          *)
AfterSend(t) ==
  IF t = "ping" THEN "sleep" ELSE IF leaving THEN "reset" ELSE "idle"

(* Mutant: every command leaves the ids switched on.                       *)
IdsBackOn(t) == TRUE

(* Only JoinChannel and Login switch the ids on again.                     *)
IdsAfter(t) == idOn \/ kind[t] = "plain"

SendStep(t) ==
  /\ At(t, "send")
  /\ Send([kind |-> kind[t], id |-> reg[t]])
  /\ Go(t, AfterSend(t))
  /\ idOn' = IdsAfter(t)
  /\ Forget(t)
  /\ UNCHANGED <<link, lastId, leaving>>

(* PingThread::Entry between two pings.                                    *)
PingAgain ==
  /\ At("ping", "sleep") /\ pc["gui"] # "wait" /\ Room
  /\ Start("ping", "ping")
  /\ UNCHANGED <<link, ids, leaving, stream>>

PingEnds ==
  /\ At("ping", "sleep") /\ pc["gui"] = "wait"
  /\ Go("ping", "off")
  /\ UNCHANGED <<link, ids, kind, reg, leaving, stream>>

-----------------------------------------------------------------------------
(* The connection.                                                         *)

(* Mutant: Socket::Connect keeps what the last connection did not take.    *)
ConnectKeepsBuffer ==
  /\ Idle /\ ~connected /\ session < MaxSessions
  /\ conn' = "connecting"
  /\ online' = FALSE
  /\ session' = session + 1
  /\ wire' = <<>> /\ log' = <<>>
  /\ UNCHANGED <<connected, ids, threads, buffer, sent, level>>

(* Mutant: a new connection may send at full rate at once.                 *)
ConnectForgetsSent ==
  /\ Idle /\ ~connected /\ session < MaxSessions
  /\ conn' = "connecting"
  /\ online' = FALSE
  /\ session' = session + 1
  /\ buffer' = <<>> /\ wire' = <<>> /\ log' = <<>>
  /\ sent' = 0
  /\ UNCHANGED <<connected, ids, threads, level>>

Connect ==
  /\ Idle /\ ~connected /\ session < MaxSessions
  /\ conn' = "connecting"
  /\ online' = FALSE
  /\ session' = session + 1
  /\ buffer' = <<>> /\ wire' = <<>> /\ log' = <<>>
  /\ UNCHANGED <<connected, ids, threads, sent, level>>

SocketOpens ==
  /\ conn = "connecting"
  /\ conn' = "open"
  /\ UNCHANGED <<connected, online, session, ids, threads, stream>>

SocketLost ==
  /\ conn \in {"connecting", "open"}
  /\ conn' = "lost"
  /\ UNCHANGED <<connected, online, session, ids, threads, stream>>

OnConnected ==
  /\ Idle /\ conn = "open" /\ ~connected
  /\ connected' = TRUE
  /\ online' = FALSE
  /\ lastId' = 0
  /\ UNCHANGED <<conn, session, idOn, threads, stream>>

OnAccepted ==
  /\ Idle /\ conn = "open" /\ connected /\ ~online
  /\ online' = TRUE
  /\ Go("ping", "sleep")
  /\ UNCHANGED <<conn, connected, session, ids, kind, reg, leaving,
                 stream>>

(* TASServer::Disconnect sends EXIT, then disconnects the socket; a lost   *)
(* connection goes straight to OnDisconnected.                             *)
Disconnect ==
  /\ Idle /\ connected
  /\ leaving' = TRUE
  /\ Start("gui", "say")
  /\ UNCHANGED <<link, ids, stream>>

OnLost ==
  /\ Idle /\ conn = "lost"
  /\ conn' = "dead"
  /\ Go("gui", "reset")
  /\ UNCHANGED <<connected, online, session, ids, kind, reg, leaving,
                 stream>>

Reset ==
  /\ At("gui", "reset")
  /\ connected' = FALSE /\ online' = FALSE
  /\ lastId' = 0
  /\ Go("gui", "wait")
  /\ UNCHANGED <<conn, session, idOn, kind, reg, leaving, stream>>

(* The ping thread has ended; Socket::Disconnect goes on.                  *)
Joined ==
  /\ At("gui", "wait") /\ pc["ping"] = "off"
  /\ Go("gui", "idle")
  /\ leaving' = FALSE
  /\ IF leaving
     THEN conn' = "none" /\ buffer' = <<>>
     ELSE UNCHANGED <<conn, buffer>>
  /\ UNCHANGED <<connected, online, session, ids, kind, reg, sent,
                 wire, log, level>>

-----------------------------------------------------------------------------
ThreadStep(t) ==
  Test(t) \/ Load(t) \/ Store(t) \/ Read(t) \/ SendStep(t)

GuiStep == ThreadStep("gui") \/ Reset \/ Joined
PingStep == ThreadStep("ping") \/ PingEnds

Next ==
  \/ \E k \in Kinds : Command(k)
  \/ GuiStep \/ PingStep \/ PingAgain
  \/ OnTimer
  \/ Connect \/ SocketOpens \/ SocketLost \/ OnConnected \/ OnAccepted
  \/ Disconnect \/ OnLost

Spec == Init /\ [][Next]_vars

(* The threads run, the timer fires, and while the connection stands the   *)
(* system takes some of what it is given again and again.                  *)
FairSpec ==
  /\ Spec
  /\ WF_vars(GuiStep) /\ WF_vars(PingStep)
  /\ SF_vars(OnTimer /\ wire' # wire)

-----------------------------------------------------------------------------
(* What the server got is the beginning of what was given to this          *)
(* connection, and the buffer holds the rest: two threads that send, the   *)
(* limit that cuts commands and a lost connection neither lose, repeat nor *)
(* mix anything (socket.cpp:160-199).                                      *)
InOrder ==
  /\ wire = Chunks(Len(wire)) /\ Len(wire) <= Len(log) * Size
  /\ conn # "none" => wire \o buffer = Chunks(Len(log) * Size)

(* The same as an abstract specification.                                  *)
Stream == INSTANCE Pipe WITH given <- Len(log), got <- wire
ImplementsPipe == Stream!Spec

(* Over all connections, in any time no more is sent than the limit and    *)
(* the refill of the timer calls in that time (socket.cpp:183, 350).       *)
RateKept == level <= Rate

(* LOGIN and JOIN never carry an id, and every other command of the GUI    *)
(* thread does, whatever the ping thread sends and counts in between       *)
(* (tasserver.cpp:443-446, 1213-1215).                                     *)
IdsWhereWanted ==
  \A n \in DOMAIN log :
    /\ log[n].kind = "plain" => log[n].id = NoId
    /\ log[n].kind = "say" => log[n].id >= 1

(* What waits in the buffer of an open connection gets sent.               *)
Flushed ==
  buffer # <<>> /\ conn = "open"
    ~> buffer = <<>> \/ conn # "open"

(* Nothing is lost in the buffer, and the rate is kept.                    *)
StreamSound == TypeOK /\ InOrder /\ RateKept
=============================================================================
