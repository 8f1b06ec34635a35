------------------------------- MODULE Session -------------------------------
(***************************************************************************)
(* The connection to the lobby server, as the GUI thread sees it: the TCP  *)
(* socket of socket.cpp, the login of TASServer, the thread that pings the *)
(* server, the registry of users and battles, and the commands of the user *)
(* (Ui::DoConnect, Reconnect, Disconnect).                                 *)
(*                                                                         *)
(* The GUI thread is one thread, but its calls nest: a disconnect runs     *)
(* Socket::Disconnect, TASServer::OnDisconnected and a modal dialog, whose *)
(* event loop handles socket events, data and timers before the outer      *)
(* calls go on.  todo is that stack of what is still to be executed, the   *)
(* next step first; the other threads act between any two steps.           *)
(*                                                                         *)
(* A pending event of the socket is handled before data and before the     *)
(* user's next command.                                                    *)
(***************************************************************************)
EXTENDS Integers, Sequences

CONSTANT
  MaxSessions    \* bound on the number of connections made

ASSUME SessionAssumption == MaxSessions \in Nat

VARIABLES
  sock,         \* m_sock->m_sock and its state
  event,        \* the socket's event that waits for the GUI thread
  connected,    \* m_connected
  online,       \* m_online
  denied,       \* m_last_denied is not empty
  redirecting,  \* m_redirecting
  session,      \* the number of sockets created: the present connection
  srv,          \* the server's end of the present connection
  pinger,       \* m_ping_thread: the connection it was started for, or 0
  pings,        \* the connections whose ping thread still runs
  pinglist,     \* GetPingList(): the connections its entries are of
  users,        \* the connections that announced what the registry holds
  todo,         \* the stack of the GUI thread
  retry,        \* history: the last command was "Yes, try again"
  nested        \* history: something was done under a dialog that a call of
                \* Socket::Disconnect had opened

vars == <<sock, event, connected, online, denied, redirecting, session, srv,
          pinger, pings, pinglist, users, todo, retry, nested>>

link == <<sock, event, session, srv>>            \* the socket
flags == <<connected, online, denied, redirecting>>
threads == <<pinger, pings, pinglist>>

Sessions == 1 .. MaxSessions
Calls == {"disconnect", "onDisconnected", "prompt", "clear", "destroy", "connect"}

TypeOK ==
  /\ sock \in {"none", "connecting", "open", "closed"}
  /\ event \in {"none", "connection", "lost"}
  /\ connected \in BOOLEAN /\ online \in BOOLEAN
  /\ denied \in BOOLEAN /\ redirecting \in BOOLEAN
  /\ session \in 0 .. MaxSessions
  /\ srv \in {"new", "login", "in", "out"}
  /\ pings \subseteq Sessions
  /\ pinger \in pings \cup {0}
  /\ pinglist \subseteq Sessions
  /\ users \subseteq Sessions
  /\ todo \in Seq(Calls)
  /\ retry \in BOOLEAN /\ nested \in BOOLEAN

Has(call) == \E i \in DOMAIN todo : todo[i] = call
Prompting == todo # <<>> /\ Head(todo) = "prompt"

(* The event loop runs, that of the program or that of the dialog.         *)
Listening == todo = <<>> \/ Prompting

(* Mutant: the socket is destroyed before it is reported.                  *)
SocketDestroyFirst == <<"destroy", "onDisconnected">>

(* The calls of Socket::Disconnect, Ui::DoConnect and Ui::Reconnect, which *)
(* disconnects once itself and once more in DoConnect.                     *)
SocketDisconnect == <<"onDisconnected", "destroy">>
DoConnect == <<"disconnect", "connect">>
Reconnect == <<"disconnect">> \o DoConnect

Room == session < MaxSessions /\ ~ Has("connect")

-----------------------------------------------------------------------------
Init ==
  /\ sock = "none" /\ event = "none" /\ srv = "new" /\ session = 0
  /\ connected = FALSE /\ online = FALSE
  /\ denied = FALSE /\ redirecting = FALSE
  /\ pinger = 0 /\ pings = {} /\ pinglist = {}
  /\ users = {}
  /\ todo = <<>>
  /\ retry = FALSE /\ nested = FALSE

(* The user's commands; the dialog is modal.                               *)
MayCommand == todo = <<>> /\ event = "none"

Give(calls) ==
  /\ MayCommand
  /\ todo' = calls
  /\ retry' = FALSE
  /\ UNCHANGED <<link, flags, threads, users>>

UserDisconnects == Give(<<"disconnect">>)
UserConnects == Room /\ Give(DoConnect)
UserReconnects == Room /\ Give(Reconnect)

-----------------------------------------------------------------------------
(* The steps of the stack.                                                 *)
Disconnect ==
  /\ todo # <<>> /\ Head(todo) = "disconnect"
  /\ todo' = (IF sock = "open" /\ connected THEN SocketDisconnect ELSE <<>>)
               \o Tail(todo)
  /\ UNCHANGED <<link, flags, threads, users, retry>>

ResetFlags ==
  /\ connected' = FALSE
  /\ online' = FALSE
  /\ denied' = FALSE
  /\ redirecting' = FALSE

(* Mutant: the thread is not joined.                                       *)
HandleDisconnectedNoWait(rest) ==
  /\ ResetFlags
  /\ pinger' = 0
  /\ pinglist' = {}
  /\ UNCHANGED pings
  /\ todo' = <<"clear">> \o rest

(* TASServer::OnDisconnected on top of the calls rest.  The list of pings  *)
(* is emptied before the thread is joined: the thread's last ping may      *)
(* still get into it.  The static dialog is not shown twice.               *)
HandleDisconnected(rest) ==
  /\ ResetFlags
  /\ pings' = pings \ {pinger}
  /\ pinger' = 0
  /\ pinglist' = {} \/ (pinger # 0 /\ pinglist' = {pinger})
  /\ todo' = (IF online \/ denied \/ redirecting \/ Has("prompt")
              THEN <<"clear">> ELSE <<"prompt", "clear">>) \o rest

OnDisconnected ==
  /\ todo # <<>> /\ Head(todo) = "onDisconnected"
  /\ HandleDisconnected(Tail(todo))
  /\ UNCHANGED <<link, users, retry>>

(* Mutant: the users outlive the connection.                               *)
KeepUsers ==
  /\ todo # <<>> /\ Head(todo) = "clear"
  /\ todo' = Tail(todo)
  /\ UNCHANGED <<link, flags, threads, users, retry>>

Clear ==
  /\ todo # <<>> /\ Head(todo) = "clear"
  /\ users' = {}
  /\ todo' = Tail(todo)
  /\ UNCHANGED <<link, flags, threads, retry>>

(* The end of Socket::Disconnect: whatever m_sock is by now.               *)
Destroy ==
  /\ todo # <<>> /\ Head(todo) = "destroy"
  /\ sock' = "none"
  /\ event' = "none"
  /\ todo' = Tail(todo)
  /\ UNCHANGED <<session, srv, flags, threads, users, retry>>

Connect ==
  /\ todo # <<>> /\ Head(todo) = "connect"
  /\ sock' = "connecting"
  /\ event' = "none"
  /\ session' = session + 1
  /\ srv' = "new"
  /\ connected' = FALSE /\ online' = FALSE /\ redirecting' = FALSE
  /\ todo' = Tail(todo)
  /\ UNCHANGED <<denied, threads, users, retry>>

(* The answers to the dialog: "Yes" tries the same server again, "No" and  *)
(* "Cancel" leave it to the user.                                          *)
AnswerYes ==
  /\ Prompting /\ event = "none" /\ Room
  /\ todo' = Reconnect \o Tail(todo)
  /\ retry' = TRUE
  /\ UNCHANGED <<link, flags, threads, users>>

AnswerNo ==
  /\ Prompting /\ event = "none"
  /\ todo' = Tail(todo)
  /\ UNCHANGED <<link, flags, threads, users, retry>>

-----------------------------------------------------------------------------
(* The network and the socket's events.                                    *)
SocketOpens ==
  /\ sock = "connecting" /\ Listening
  /\ sock' = "open"
  /\ event' = "connection"
  /\ UNCHANGED <<session, srv, flags, threads, users, todo, retry>>

SocketCloses ==
  /\ sock \in {"connecting", "open"} /\ event = "none" /\ Listening
  /\ sock' = "closed"
  /\ event' = "lost"
  /\ UNCHANGED <<session, srv, flags, threads, users, todo, retry>>

(* Mutant: the pings of the connection before are kept.                    *)
OnConnectedKeepPings ==
  /\ event = "connection" /\ Listening
  /\ event' = "none"
  /\ connected' = TRUE /\ online' = FALSE /\ denied' = FALSE
  /\ UNCHANGED <<sock, session, srv, redirecting, threads, users, todo, retry>>

OnConnected ==
  /\ event = "connection" /\ Listening
  /\ event' = "none"
  /\ connected' = TRUE /\ online' = FALSE /\ denied' = FALSE
  /\ pinglist' = {}
  /\ UNCHANGED <<sock, session, srv, redirecting, pinger, pings, users, todo, retry>>

OnLost ==
  /\ event = "lost" /\ Listening
  /\ event' = "none"
  /\ HandleDisconnected(todo)
  /\ UNCHANGED <<sock, session, srv, users, retry>>

(* The timer finds the socket open, before its event or after a            *)
(* disconnect that is still going on.                                      *)
Update ==
  /\ sock = "open" /\ ~ connected /\ Listening
  /\ connected' = TRUE
  /\ UNCHANGED <<link, online, denied, redirecting, threads, users, todo, retry>>

-----------------------------------------------------------------------------
(* The lines that arrive, and ExecuteCommand.                              *)
Receives(from) == sock = "open" /\ event = "none" /\ Listening /\ srv \in from

OnTASServer ==                               \* TASSERVER: the client logs in
  /\ Receives({"new"})
  /\ srv' = "login"
  /\ UNCHANGED <<sock, event, session, flags, threads, users, todo, retry>>

StartPings ==
  /\ pinger' = session
  /\ pings' = pings \cup {session}

OnAccepted ==                       \* the server may also send it once more
  /\ Receives({"login", "in"})
  /\ srv' = "in"
  /\ \/ ~ online /\ online' = TRUE /\ StartPings
     \/ online /\ UNCHANGED <<online, pinger, pings>>
  /\ UNCHANGED <<sock, event, session, connected, denied, redirecting,
                 pinglist, users, todo, retry>>

OnDenied ==
  /\ Receives({"login"})
  /\ srv' = "out"
  /\ ~ online
  /\ denied' = TRUE
  /\ todo' = (IF connected THEN SocketDisconnect ELSE <<>>) \o todo
  /\ retry' = FALSE
  /\ UNCHANGED <<sock, event, session, connected, online, redirecting, threads, users>>

OnRedirect ==
  /\ Receives({"login"}) /\ Room
  /\ srv' = "out"
  /\ ~ online
  /\ redirecting' = TRUE
  /\ todo' = DoConnect \o todo
  /\ retry' = FALSE
  /\ UNCHANGED <<sock, event, session, connected, online, denied, threads, users>>

OnAddUser ==                          \* ADDUSER, BATTLEOPENED and the like
  /\ Receives({"in"})
  /\ users' = users \cup {session}
  /\ UNCHANGED <<link, flags, threads, todo, retry>>

OnPong ==
  /\ Receives({"in"})
  /\ session \in pinglist
  /\ pinglist' = pinglist \ {session}
  /\ UNCHANGED <<link, flags, pinger, pings, users, todo, retry>>

(* TASServer::Ping, on the ping thread.                                    *)
Ping(s) ==
  /\ s \in pings
  /\ pinglist' = pinglist \cup {s}
  /\ UNCHANGED <<link, flags, pinger, pings, users, todo, retry>>

-----------------------------------------------------------------------------
Gui ==
  /\ Disconnect \/ OnDisconnected \/ Clear \/ Destroy \/ Connect
  /\ UNCHANGED nested

SocketEvent == (OnConnected \/ OnLost) /\ UNCHANGED nested

Network == (SocketOpens \/ SocketCloses) /\ UNCHANGED nested

Command == UserDisconnects \/ UserConnects \/ UserReconnects \/ AnswerNo

Lines ==
  OnTASServer \/ OnAccepted \/ OnDenied \/ OnRedirect \/ OnAddUser \/ OnPong

Next ==
  \/ Gui \/ SocketEvent \/ Network
  \/ (Command \/ \E s \in Sessions : Ping(s)) /\ UNCHANGED nested
  \/ /\ AnswerYes \/ Update \/ Lines
     /\ nested' = (nested \/ Has("destroy"))

Spec == Init /\ [][Next]_vars

(* The GUI thread keeps running, and handles the events it has.            *)
FairSpec == Spec /\ WF_vars(Gui) /\ WF_vars(SocketEvent)

-----------------------------------------------------------------------------
(* All of these hold unless something was done under a dialog that a       *)
(* disconnect had opened: the calls below it then go on with a connection  *)
(* that is not theirs.                                                     *)

(* There is one ping thread while the client is logged in, that of the     *)
(* present connection, and none otherwise (tasserver.cpp:624-628,          *)
(* 2212-2217).                                                             *)
OnePing == ~ nested => pings = (IF online THEN {session} ELSE {})

(* The socket is destroyed without its lock (socket.cpp:149-153): by then  *)
(* no ping thread sends over it and the registry is empty.                 *)
DestroyAlone ==
  ~ nested /\ todo # <<>> /\ Head(todo) = "destroy" => pings = {} /\ users = {}

(* The registry holds what the present connection announced, and while     *)
(* the client is not online only until it is cleared.                      *)
FreshUsers == ~ nested =>
  /\ users \subseteq {session}
  /\ users # {} => online \/ Has("clear")

(* While online, no entry of an earlier connection is in the list of       *)
(* pings, where its number could be taken for that of a new ping           *)
(* (tasserver.cpp:2194-2195, 2210-2217).                                   *)
NoStalePing == ~ nested /\ online => pinglist \subseteq {session}

(* Once the connection is lost, its users and its ping thread are gone at  *)
(* last, or the user connected anew.                                       *)
EndsClean ==
  sock = "closed" ~> (users = {} /\ pings = {}) \/ sock # "closed" \/ nested

(* After "try again with the same server" (ui.cpp:655) and all it led to,  *)
(* there is a connection or an attempt at one.                             *)
RetryConnects == retry /\ todo = <<>> => sock # "none"

(* The thread and the list of pings are those of the present connection.   *)
PingsArePresent == TypeOK /\ OnePing /\ NoStalePing
=============================================================================
