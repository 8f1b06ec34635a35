--------------------------- MODULE Threads_proofs ---------------------------
(***************************************************************************)
(* The two components with a thread beside the GUI's.  First the safety    *)
(* properties of Session, with its ping thread, for any number of          *)
(* connections; then those of WorkQueue and its refinement of JobPool, for *)
(* every finite set of items and any priorities.  The two share nothing.   *)
(***************************************************************************)
EXTENDS Session, WorkQueue, TLAPS

-----------------------------------------------------------------------------
(* Session.                                                                *)

(* The stacks, by what is to be done next, while nothing was done under a  *)
(* dialog that a disconnect had opened.  What a disconnect goes on to:     *)
After == {<<>>, <<"connect">>, <<"disconnect", "connect">>}

(* the calls of a disconnect;                                              *)
Disconnects ==
  {<<"disconnect">>, <<"disconnect", "connect">>,
   <<"disconnect", "disconnect", "connect">>}

Reports ==
  {<<"onDisconnected", "destroy">>,
   <<"onDisconnected", "destroy", "connect">>,
   <<"onDisconnected", "destroy", "disconnect", "connect">>}

Clears ==
  {<<"clear", "destroy">>,
   <<"clear", "destroy", "connect">>,
   <<"clear", "destroy", "disconnect", "connect">>}

Prompts ==
  {<<"prompt", "clear", "destroy">>,
   <<"prompt", "clear", "destroy", "connect">>,
   <<"prompt", "clear", "destroy", "disconnect", "connect">>}

(* the same while the socket under the dialog is lost;                     *)
Losses ==
  {<<"clear", "prompt", "clear", "destroy">>,
   <<"clear", "prompt", "clear", "destroy", "connect">>,
   <<"clear", "prompt", "clear", "destroy", "disconnect", "connect">>}

Destroys ==
  {<<"destroy">>, <<"destroy", "connect">>,
   <<"destroy", "disconnect", "connect">>}

(* a lost connection with its dialog, and the answer "Yes" to it.          *)
Retries ==
  {<<"disconnect", "disconnect", "connect", "clear">>,
   <<"disconnect", "connect", "clear">>}

ConnectLast == <<"connect", "clear">>
PromptLast == <<"prompt", "clear">>
ClearLast == <<"clear">>

Lone == {ConnectLast, PromptLast, ClearLast}

Stacks ==
  After \cup Disconnects \cup Reports \cup Clears \cup Prompts \cup Losses
    \cup Destroys \cup Retries \cup Lone

-----------------------------------------------------------------------------
(* The sequences that the steps make of each other.                        *)
IsCat(s, t, u) ==
  /\ s \in Seq(Calls) /\ t \in Seq(Calls) /\ u \in Seq(Calls)
  /\ Len(u) = Len(s) + Len(t)
  /\ \A i \in 1 .. Len(s) : u[i] = s[i]
  /\ \A i \in 1 .. Len(t) : u[Len(s) + i] = t[i]

(* Sequences of the same length and elements are the same.                 *)
LEMMA Cat == \A s, t, u : IsCat(s, t, u) => s \o t = u
<1> SUFFICES ASSUME NEW s, NEW t, NEW u, IsCat(s, t, u)
             PROVE  s \o t = u
  OBVIOUS
<1> USE DEF IsCat
<1>1. DOMAIN (s \o t) = DOMAIN u /\ s \o t \in Seq(Calls)
  OBVIOUS
<1>2. ASSUME NEW i \in DOMAIN u
      PROVE  (s \o t)[i] = u[i]
  <2>1. CASE i <= Len(s)
    BY <2>1
  <2>2. CASE i > Len(s)
    <3>1. i - Len(s) \in 1 .. Len(t) /\ Len(s) + (i - Len(s)) = i
      BY <2>2
    <3> QED
      BY <2>2, <3>1
  <2> QED
    BY <2>1, <2>2
<1> QED
  BY <1>1, <1>2

(* What is left when the next call is done.                                *)
LEMMA TailOfDisconnects == \A s \in Disconnects : Tail(s) \in After
<1>1. /\ Tail(<<"disconnect">>) = <<>>
      /\ Tail(<<"disconnect", "connect">>) = <<"connect">>
      /\ Tail(<<"disconnect", "disconnect", "connect">>) = <<"disconnect", "connect">>
  OBVIOUS
<1> QED
  BY <1>1, Zenon DEF Disconnects, After

(* A report is followed by the destruction of the socket;                  *)
LEMMA TailOfReports == \A s \in Reports : Tail(s) \in Destroys
<1>1. /\ Tail(<<"onDisconnected", "destroy">>) = <<"destroy">>
      /\ Tail(<<"onDisconnected", "destroy", "connect">>) = <<"destroy", "connect">>
      /\ Tail(<<"onDisconnected", "destroy", "disconnect", "connect">>) = <<"destroy", "disconnect", "connect">>
  OBVIOUS
<1> QED
  BY <1>1, Zenon DEF Reports, Destroys

(* so is the registry's clearing that a report led to,                     *)
LEMMA TailOfClears == \A s \in Clears : Tail(s) \in Destroys
<1>1. /\ Tail(<<"clear", "destroy">>) = <<"destroy">>
      /\ Tail(<<"clear", "destroy", "connect">>) = <<"destroy", "connect">>
      /\ Tail(<<"clear", "destroy", "disconnect", "connect">>) = <<"destroy", "disconnect", "connect">>
  OBVIOUS
<1> QED
  BY <1>1, Zenon DEF Clears, Destroys

(* once the user has answered;                                             *)
LEMMA TailOfPrompts == \A s \in Prompts : Tail(s) \in Clears
<1>1. /\ Tail(<<"prompt", "clear", "destroy">>) = <<"clear", "destroy">>
      /\ Tail(<<"prompt", "clear", "destroy", "connect">>) = <<"clear", "destroy", "connect">>
      /\ Tail(<<"prompt", "clear", "destroy", "disconnect", "connect">>) = <<"clear", "destroy", "disconnect", "connect">>
  OBVIOUS
<1> QED
  BY <1>1, Zenon DEF Prompts, Clears

(* and that of a socket lost under the dialog leads back to it.            *)
LEMMA TailOfLosses == \A s \in Losses : Tail(s) \in Prompts
<1>1. /\ Tail(<<"clear", "prompt", "clear", "destroy">>) = <<"prompt", "clear", "destroy">>
      /\ Tail(<<"clear", "prompt", "clear", "destroy", "connect">>) = <<"prompt", "clear", "destroy", "connect">>
      /\ Tail(<<"clear", "prompt", "clear", "destroy", "disconnect", "connect">>) = <<"prompt", "clear", "destroy", "disconnect", "connect">>
  OBVIOUS
<1> QED
  BY <1>1, Zenon DEF Losses, Prompts

(* Then comes what the disconnect was for.                                 *)
LEMMA TailOfDestroys == \A s \in Destroys : Tail(s) \in After
<1>1. /\ Tail(<<"destroy">>) = <<>>
      /\ Tail(<<"destroy", "connect">>) = <<"connect">>
      /\ Tail(<<"destroy", "disconnect", "connect">>) = <<"disconnect", "connect">>
  OBVIOUS
<1> QED
  BY <1>1, Zenon DEF Destroys, After

(* The lost connection's own clearing stays below all of it.               *)
LEMMA TailOfRetries ==
  /\ \A s \in Retries : Tail(s) \in Retries \cup {ConnectLast}
  /\ Tail(ConnectLast) = ClearLast
  /\ Tail(<<"connect">>) = <<>>
  /\ Tail(PromptLast) = ClearLast
  /\ Tail(ClearLast) = <<>>
<1>1. /\ Tail(<<"disconnect", "disconnect", "connect", "clear">>) = <<"disconnect", "connect", "clear">>
      /\ Tail(<<"disconnect", "connect", "clear">>) = <<"connect", "clear">>
      /\ Tail(<<"connect", "clear">>) = <<"clear">>
      /\ Tail(<<"connect">>) = <<>>
      /\ Tail(<<"prompt", "clear">>) = <<"clear">>
      /\ Tail(<<"clear">>) = <<>>
  OBVIOUS
<1> QED
  BY <1>1, Zenon DEF Retries, ConnectLast, PromptLast, ClearLast

(* The calls of a disconnect take its place.                               *)
LEMMA SocketDisconnects ==
  \A s \in Disconnects : SocketDisconnect \o Tail(s) \in Reports
<1>1. /\ IsCat(<<"onDisconnected", "destroy">>, <<>>,
               <<"onDisconnected", "destroy">>)
      /\ IsCat(<<"onDisconnected", "destroy">>, <<"connect">>,
               <<"onDisconnected", "destroy", "connect">>)
      /\ IsCat(<<"onDisconnected", "destroy">>, <<"disconnect", "connect">>,
               <<"onDisconnected", "destroy", "disconnect", "connect">>)
  BY DEF IsCat, Calls
<1>2. /\ Tail(<<"disconnect">>) = <<>>
      /\ Tail(<<"disconnect", "connect">>) = <<"connect">>
      /\ Tail(<<"disconnect", "disconnect", "connect">>) = <<"disconnect", "connect">>
  OBVIOUS
<1> QED
  BY <1>1, <1>2, Cat, Zenon DEF Disconnects, Reports, SocketDisconnect

(* The report of the lost connection empties the registry,                 *)
LEMMA ReportClears ==
  \A s \in Reports : <<"clear">> \o Tail(s) \in Clears
<1>1. /\ IsCat(<<"clear">>, <<"destroy">>,
               <<"clear", "destroy">>)
      /\ IsCat(<<"clear">>, <<"destroy", "connect">>,
               <<"clear", "destroy", "connect">>)
      /\ IsCat(<<"clear">>, <<"destroy", "disconnect", "connect">>,
               <<"clear", "destroy", "disconnect", "connect">>)
  BY DEF IsCat, Calls
<1>2. /\ Tail(<<"onDisconnected", "destroy">>) = <<"destroy">>
      /\ Tail(<<"onDisconnected", "destroy", "connect">>) = <<"destroy", "connect">>
      /\ Tail(<<"onDisconnected", "destroy", "disconnect", "connect">>) = <<"destroy", "disconnect", "connect">>
  OBVIOUS
<1> QED
  BY <1>1, <1>2, Cat, Zenon DEF Reports, Clears

(* and may ask the user first.                                             *)
LEMMA ReportPrompts ==
  \A s \in Reports : <<"prompt", "clear">> \o Tail(s) \in Prompts
<1>1. /\ IsCat(<<"prompt", "clear">>, <<"destroy">>,
               <<"prompt", "clear", "destroy">>)
      /\ IsCat(<<"prompt", "clear">>, <<"destroy", "connect">>,
               <<"prompt", "clear", "destroy", "connect">>)
      /\ IsCat(<<"prompt", "clear">>, <<"destroy", "disconnect", "connect">>,
               <<"prompt", "clear", "destroy", "disconnect", "connect">>)
  BY DEF IsCat, Calls
<1>2. /\ Tail(<<"onDisconnected", "destroy">>) = <<"destroy">>
      /\ Tail(<<"onDisconnected", "destroy", "connect">>) = <<"destroy", "connect">>
      /\ Tail(<<"onDisconnected", "destroy", "disconnect", "connect">>) = <<"destroy", "disconnect", "connect">>
  OBVIOUS
<1> QED
  BY <1>1, <1>2, Cat, Zenon DEF Reports, Prompts

(* The socket is lost under the dialog.                                    *)
LEMMA LossClears ==
  \A s \in Prompts : <<"clear">> \o s \in Losses
<1>1. /\ IsCat(<<"clear">>, <<"prompt", "clear", "destroy">>,
               <<"clear", "prompt", "clear", "destroy">>)
      /\ IsCat(<<"clear">>, <<"prompt", "clear", "destroy", "connect">>,
               <<"clear", "prompt", "clear", "destroy", "connect">>)
      /\ IsCat(<<"clear">>, <<"prompt", "clear", "destroy", "disconnect", "connect">>,
               <<"clear", "prompt", "clear", "destroy", "disconnect", "connect">>)
  BY DEF IsCat, Calls
<1> QED
  BY <1>1, Cat, Zenon DEF Prompts, Losses

(* The calls that an empty stack gets, and the answer "Yes".               *)
LEMMA FirstCalls ==
  /\ SocketDisconnect \o <<>> \in Reports
  /\ DoConnect \o <<>> \in Disconnects
  /\ Reconnect \in Disconnects
  /\ Reconnect \o ClearLast \in Retries
  /\ <<"clear">> \o <<>> = ClearLast
  /\ <<"prompt", "clear">> \o <<>> = PromptLast
<1>1. /\ IsCat(<<"onDisconnected", "destroy">>, <<>>,
               <<"onDisconnected", "destroy">>)
      /\ IsCat(<<"disconnect", "connect">>, <<>>,
               <<"disconnect", "connect">>)
      /\ IsCat(<<"disconnect">>, <<"disconnect", "connect">>,
               <<"disconnect", "disconnect", "connect">>)
      /\ IsCat(<<"disconnect", "disconnect", "connect">>, <<"clear">>,
               <<"disconnect", "disconnect", "connect", "clear">>)
      /\ IsCat(<<"clear">>, <<>>,
               <<"clear">>)
      /\ IsCat(<<"prompt", "clear">>, <<>>,
               <<"prompt", "clear">>)
  BY DEF IsCat, Calls
<1> QED
  BY <1>1, Cat, Zenon DEF Reports, Disconnects, Retries,
     SocketDisconnect, DoConnect, Reconnect,
     PromptLast, ClearLast
-----------------------------------------------------------------------------
(* The stack tells what is to be done next.                                *)
LEMMA NextCall ==
  ASSUME NEW s \in Stacks, s # <<>>
  PROVE  /\ Head(s) = "disconnect" => s \in Disconnects \cup Retries
         /\ Head(s) = "onDisconnected" => s \in Reports
         /\ Head(s) = "clear" => s \in Clears \cup Losses \cup {ClearLast}
         /\ Head(s) = "destroy" => s \in Destroys
         /\ Head(s) = "connect" => s \in {<<"connect">>, ConnectLast}
         /\ Head(s) = "prompt" => s \in Prompts \cup {PromptLast}
  BY DEF Stacks, After, Disconnects, Reports, Clears, Prompts, Losses,
         Destroys, Retries, Lone, ConnectLast, PromptLast, ClearLast

(* What is to be destroyed, and a dialog, are on the stack.                *)
LEMMA DialogStacks ==
  /\ \A s \in Prompts : \E i \in DOMAIN s : s[i] = "destroy"
  /\ \A s \in Prompts : \E i \in DOMAIN s : s[i] = "prompt"
<1>1. \A s \in Prompts : 1 \in DOMAIN s /\ 3 \in DOMAIN s
  BY DEF Prompts
<1>2. \A s \in Prompts : s[1] = "prompt" /\ s[3] = "destroy"
  BY DEF Prompts
<1> QED
  BY <1>1, <1>2

(* The kinds of stacks are different: none is of a kind further down.      *)
LEMMA Apart ==
  ASSUME NEW s
  PROVE  /\ s \in After \cup Disconnects =>
              s \notin Reports \cup Clears \cup Prompts \cup Losses \cup Destroys
                         \cup Retries \cup Lone
         /\ s \in Reports =>
              s \notin Clears \cup Prompts \cup Losses \cup Destroys \cup Retries
                         \cup Lone
         /\ s \in Clears =>
              s \notin Prompts \cup Losses \cup Destroys \cup Retries \cup Lone
         /\ s \in Prompts =>
              s \notin Losses \cup Destroys \cup Retries \cup Lone
         /\ s \in Losses => s \notin Destroys \cup Retries \cup Lone
         /\ s \in Destroys => s \notin Retries \cup Lone
         /\ s \in Retries => s \notin Lone
<1> USE DEF Lone, After, Disconnects, Reports, Clears, Prompts, Losses, Destroys,
            Retries, ConnectLast, PromptLast, ClearLast
<1>1. s \in After \cup Disconnects =>
        s \notin Reports \cup Clears \cup Prompts
                       \cup Losses \cup Destroys \cup Retries \cup Lone
  <2>1. s \notin After \/ s \notin Reports \cup Clears \cup Prompts \cup Losses
    OBVIOUS
  <2>2. s \notin After \/ s \notin Destroys \cup Retries \cup Lone
    OBVIOUS
  <2>3. s \notin Disconnects \/ s \notin Reports \cup Clears \cup Prompts \cup Losses
    OBVIOUS
  <2>4. s \notin Disconnects \/ s \notin Destroys \cup Retries \cup Lone
    OBVIOUS
  <2> HIDE DEF After, Disconnects, Reports, Clears, Prompts, Losses, Destroys, Retries,
              Lone
  <2> QED
    BY <2>1, <2>2, <2>3, <2>4
<1>2. s \in Reports =>
        s \notin Clears \cup Prompts \cup Losses
                       \cup Destroys \cup Retries \cup Lone
  OBVIOUS
<1>3. s \in Clears =>
        s \notin Prompts \cup Losses \cup Destroys
                       \cup Retries \cup Lone
  OBVIOUS
<1>4. s \in Prompts =>
        s \notin Losses \cup Destroys \cup Retries \cup Lone
  OBVIOUS
<1>5. s \in Losses =>
        s \notin Destroys \cup Retries \cup Lone
  OBVIOUS
<1>6. s \in Destroys =>
        s \notin Retries \cup Lone
  OBVIOUS
<1>7. s \in Retries =>
        s \notin Lone
  OBVIOUS
<1> QED
  BY <1>1, <1>2, <1>3, <1>4, <1>5, <1>6, <1>7, Zenon

(* Nor are the single stacks the same.                                     *)
LEMMA LoneApart ==
  /\ ClearLast # ConnectLast /\ ClearLast # PromptLast /\ ConnectLast # PromptLast
  /\ <<>> \notin Disconnects
  BY DEF ConnectLast, PromptLast, ClearLast, Disconnects
-----------------------------------------------------------------------------
(* In any state, also under the dialog of a disconnect: at most one call   *)
(* on the stack makes a connection, and there is room for it.              *)
Connects(s) == \E i \in DOMAIN s : s[i] = "connect"

OneConnect(s) ==
  \A i, j \in DOMAIN s : s[i] = "connect" /\ s[j] = "connect" => i = j

StackOK ==
  /\ todo \in Seq(Calls)
  /\ OneConnect(todo)
  /\ Connects(todo) => session < MaxSessions

StateOK ==
  /\ sock \in {"none", "connecting", "open", "closed"}
  /\ event \in {"none", "connection", "lost"}
  /\ connected \in BOOLEAN /\ online \in BOOLEAN
  /\ denied \in BOOLEAN /\ redirecting \in BOOLEAN
  /\ session \in 0 .. MaxSessions
  /\ srv \in {"new", "login", "in", "out"}
  /\ retry \in BOOLEAN /\ nested \in BOOLEAN
  /\ sock # "none" => session # 0

ThreadsOK ==
  /\ pings \subseteq Sessions
  /\ pinger \in pings \cup {0}
  /\ pinglist \subseteq Sessions
  /\ users \subseteq Sessions

Always == StackOK /\ StateOK /\ ThreadsOK

(* Before anything was done under such a dialog.  The ping thread runs     *)
(* while the client is online, and then nothing has been undone yet.       *)
ThreadInv ==
  /\ pings = IF online THEN {session} ELSE {}
  /\ online => /\ pinger = session /\ session # 0 /\ connected
               /\ pinglist \subseteq {session}
               /\ todo \in {<<>>} \cup Disconnects \cup Reports
               /\ sock = "open" \/ event = "lost"

(* The registry is filled until it is cleared.                             *)
UsersInv ==
  /\ users \subseteq {session}
  /\ users # {} => online \/ todo \in Clears \cup {ClearLast}

(* The socket has what each stack expects of it; a socket that is open and *)
(* whose event was handled is known to be connected, no ping of an earlier *)
(* connection is left when it comes to be used, and the client is online   *)
(* when the server takes it for logged in.                                 *)
SocketInv ==
  /\ event # "none" => todo \in {<<>>} \cup Prompts
  /\ event = "connection" =>
       todo = <<>> /\ ~ online /\ sock = "open" /\ srv = "new"
  /\ event = "lost" => sock = "closed"
  /\ sock = "connecting" => event = "none" /\ ~ online /\ srv = "new"
  /\ todo \in Reports => sock = "open"
  /\ todo \in Clears \cup Prompts \cup Losses => sock \in {"open", "closed"}
  /\ todo \in Retries \cup {PromptLast} => sock = "closed"
  /\ todo = ClearLast => sock # "open"
  /\ sock = "open" /\ event = "none" =>
       /\ todo \in {<<>>} \cup Disconnects => connected
       /\ todo = <<>> =>
            pinglist \subseteq {session} /\ (srv = "in" => online)

Orderly == todo \in Stacks /\ ThreadInv /\ UsersInv /\ SocketInv

IInv == Always /\ (~ nested => Orderly)
-----------------------------------------------------------------------------
(* Calls are put on a stack, or the next one is taken from it.             *)
LEMMA Pushed ==
  ASSUME NEW s \in Seq(Calls), NEW t \in Seq(Calls), OneConnect(s), OneConnect(t),
         ~ (Connects(s) /\ Connects(t))
  PROVE  /\ s \o t \in Seq(Calls) /\ OneConnect(s \o t)
         /\ Connects(s \o t) => Connects(s) \/ Connects(t)
<1> DEFINE u == s \o t
<1>1. \A i \in DOMAIN u :
        \/ i \in DOMAIN s /\ u[i] = s[i]
        \/ i - Len(s) \in DOMAIN t /\ u[i] = t[i - Len(s)]
  OBVIOUS
<1>2. OneConnect(u)
  <2> SUFFICES ASSUME NEW i \in DOMAIN u, NEW j \in DOMAIN u,
                      u[i] = "connect", u[j] = "connect"
               PROVE  i = j
    BY DEF OneConnect
  <2> HIDE DEF u
  <2>1. CASE i \in DOMAIN s /\ u[i] = s[i] /\ j \in DOMAIN s /\ u[j] = s[j]
    BY <2>1 DEF OneConnect
  <2>2. CASE /\ i - Len(s) \in DOMAIN t /\ u[i] = t[i - Len(s)]
             /\ j - Len(s) \in DOMAIN t /\ u[j] = t[j - Len(s)]
    <3>1. i - Len(s) = j - Len(s)
      BY <2>2 DEF OneConnect
    <3>2. i \in Int /\ j \in Int /\ Len(s) \in Int
      BY DEF u
    <3> QED
      BY <3>1, <3>2
  <2> QED
    BY <1>1, <2>1, <2>2 DEF Connects
<1>3. Connects(u) => Connects(s) \/ Connects(t)
  <2> HIDE DEF u
  <2> QED
    BY <1>1 DEF Connects
<1> QED
  BY <1>2, <1>3

(* What is left makes no connection when the next call does.               *)
LEMMA Popped ==
  ASSUME NEW s \in Seq(Calls), s # <<>>, OneConnect(s)
  PROVE  /\ Tail(s) \in Seq(Calls) /\ OneConnect(Tail(s))
         /\ Connects(Tail(s)) => Connects(s) /\ Head(s) # "connect"
<1>1. \A i \in DOMAIN Tail(s) : i + 1 \in DOMAIN s /\ i + 1 # 1 /\ Tail(s)[i] = s[i + 1]
  OBVIOUS
<1>2. Head(s) = s[1] /\ 1 \in DOMAIN s /\ Tail(s) \in Seq(Calls)
  OBVIOUS
<1>3. OneConnect(Tail(s))
  <2> SUFFICES ASSUME NEW i \in DOMAIN Tail(s), NEW j \in DOMAIN Tail(s),
                      Tail(s)[i] = "connect", Tail(s)[j] = "connect"
               PROVE  i = j
    BY DEF OneConnect
  <2>1. i + 1 = j + 1
    BY <1>1 DEF OneConnect
  <2> QED
    BY <2>1
<1>4. Connects(Tail(s)) => Connects(s) /\ Head(s) # "connect"
  BY <1>1, <1>2 DEF Connects, OneConnect
<1> QED
  BY <1>2, <1>3, <1>4

(* The calls that are put on the stack.                                    *)
LEMMA Prefixes ==
  /\ \A s \in {<<>>, SocketDisconnect, <<"clear">>, <<"prompt", "clear">>,
               <<"disconnect">>} :
       s \in Seq(Calls) /\ OneConnect(s) /\ ~ Connects(s)
  /\ \A s \in {DoConnect, Reconnect} : s \in Seq(Calls) /\ OneConnect(s)
<1>1. Reconnect = <<"disconnect", "disconnect", "connect">>
  <2>1. IsCat(<<"disconnect">>, <<"disconnect", "connect">>,
              <<"disconnect", "disconnect", "connect">>)
    BY DEF IsCat, Calls
  <2> QED
    BY <2>1, Cat, Zenon DEF Reconnect, DoConnect
<1> QED
  BY <1>1 DEF SocketDisconnect, DoConnect, Calls, OneConnect, Connects

(* A stack gets calls that make no connection,                             *)
LEMMA StackPlain ==
  ASSUME StackOK, session' = session,
         NEW s \in {<<>>, SocketDisconnect, <<"clear">>, <<"prompt", "clear">>},
         \/ todo' = s \o todo
         \/ todo # <<>> /\ todo' = s \o Tail(todo)
  PROVE  StackOK'
<1>1. s \in Seq(Calls) /\ OneConnect(s) /\ ~ Connects(s)
  BY Prefixes
<1>2. CASE todo' = s \o todo
  BY <1>1, <1>2, Pushed DEF StackOK
<1>3. CASE todo # <<>> /\ todo' = s \o Tail(todo)
  BY <1>1, <1>3, Pushed, Popped DEF StackOK
<1> QED
  BY <1>2, <1>3

(* loses its next one,                                                     *)
LEMMA StackPop ==
  ASSUME StackOK, session' = session, todo # <<>>, todo' = Tail(todo)
  PROVE  StackOK'
  BY Popped DEF StackOK

(* or gets calls that make a connection for which there is room.           *)
LEMMA StackConnect ==
  ASSUME StackOK, session' = session, Room, NEW s \in {DoConnect, Reconnect},
         \/ todo' = s \o todo
         \/ todo # <<>> /\ todo' = s \o Tail(todo)
         \/ todo = <<>> /\ todo' = s
  PROVE  StackOK'
<1>1. s \in Seq(Calls) /\ OneConnect(s)
  BY Prefixes
<1>2. session < MaxSessions /\ ~ Connects(todo)
  BY DEF Room, Has, Connects
<1>3. CASE todo' = s \o todo
  BY <1>1, <1>2, <1>3, Pushed DEF StackOK
<1>4. CASE todo # <<>> /\ todo' = s \o Tail(todo)
  BY <1>1, <1>2, <1>4, Pushed, Popped DEF StackOK
<1>5. CASE todo' = s
  BY <1>1, <1>2, <1>5 DEF StackOK
<1> QED
  BY <1>3, <1>4, <1>5

(* The report of a lost connection, on top of the calls rest.              *)
LEMMA ReportCalls ==
  ASSUME NEW rest, HandleDisconnected(rest)
  PROVE  \E s \in {<<"clear">>, <<"prompt", "clear">>} : todo' = s \o rest
  BY DEF HandleDisconnected

(* The stack, for every step.                                              *)
LEMMA StackStep ==
  ASSUME StackOK, StateOK, [Next]_vars
  PROVE  StackOK'
<1>1. CASE UNCHANGED <<todo, session>>
  BY <1>1 DEF StackOK
<1>2. CASE Disconnect
  BY <1>2, StackPlain DEF Disconnect, link
<1>3. CASE OnDisconnected
  BY <1>3, ReportCalls, StackPlain DEF OnDisconnected, link
<1>4. CASE Clear \/ Destroy \/ AnswerNo
  BY <1>4, StackPop DEF Clear, Destroy, AnswerNo, Prompting, link
<1>5. CASE Connect
  <2>1. Connects(todo) /\ ~ Connects(todo')
    <3>1. 1 \in DOMAIN todo /\ todo[1] = "connect"
      BY <1>5 DEF Connect, StackOK
    <3> QED
      BY <1>5, <3>1, Popped DEF Connect, StackOK, Connects
  <2> QED
    BY <1>5, <2>1, Popped DEF Connect, StackOK
<1>6. CASE UserDisconnects
  BY <1>6 DEF UserDisconnects, Give, MayCommand, StackOK, Calls, OneConnect, Connects, link
<1>7. CASE UserConnects \/ UserReconnects
  BY <1>7, StackConnect DEF UserConnects, UserReconnects, Give, MayCommand, link
<1>8. CASE AnswerYes
  BY <1>8, StackConnect DEF AnswerYes, Prompting, link
<1>9. CASE OnLost
  BY <1>9, ReportCalls, StackPlain DEF OnLost
<1>10. CASE OnDenied
  BY <1>10, StackPlain DEF OnDenied
<1>11. CASE OnRedirect
  BY <1>11, StackConnect DEF OnRedirect
<1>12. CASE SocketOpens \/ SocketCloses \/ OnConnected \/ Update
  BY <1>1, <1>12 DEF SocketOpens, SocketCloses, OnConnected, Update, link
<1>13. CASE OnTASServer \/ OnAccepted \/ OnAddUser \/ OnPong
  BY <1>1, <1>13 DEF OnTASServer, OnAccepted, OnAddUser, OnPong, link
<1>14. CASE \E s \in Sessions : Ping(s)
  BY <1>1, <1>14 DEF Ping, link
<1> QED
  BY <1>1, <1>2, <1>3, <1>4, <1>5, <1>6, <1>7, <1>8, <1>9, <1>10, <1>11, <1>12,
     <1>13, <1>14
  DEF Next, vars, link, Gui, SocketEvent, Network, Command, Lines

(* The flags and the socket, for every step.                               *)
LEMMA StateStep ==
  ASSUME Always, [Next]_vars
  PROVE  StateOK'
<1>1. StackOK /\ StateOK
  BY DEF Always
<1>2. CASE UNCHANGED vars
  BY <1>1, <1>2 DEF StateOK, vars
<1>3. CASE Next
  <2>1. nested' \in BOOLEAN
    BY <1>1, <1>3 DEF StateOK, Next, Gui, SocketEvent, Network
  <2>2. CASE Disconnect \/ OnDisconnected \/ Clear \/ Destroy
    BY <1>1, <2>1, <2>2
    DEF Disconnect, OnDisconnected, HandleDisconnected, ResetFlags, Clear, Destroy,
        StateOK, link, flags
  <2>3. CASE Connect
    <3>1. session < MaxSessions
      <4>1. 1 \in DOMAIN todo /\ todo[1] = "connect"
        BY <1>1, <2>3 DEF Connect, StackOK
      <4> QED
        BY <1>1, <4>1 DEF StackOK, Connects
    <3>2. session' \in 0 .. MaxSessions /\ session' # 0
      BY <1>1, <2>3, <3>1, SessionAssumption DEF Connect, StateOK
    <3> QED
      BY <1>1, <2>1, <2>3, <3>2 DEF Connect, StateOK
  <2>4. CASE Command \/ AnswerYes
    BY <1>1, <2>1, <2>4
    DEF Command, UserDisconnects, UserConnects, UserReconnects, Give, AnswerYes,
        AnswerNo, StateOK, link, flags
  <2>5. CASE Network \/ SocketEvent \/ Update
    <3>1. CASE SocketOpens \/ SocketCloses
      BY <1>1, <2>1, <3>1 DEF SocketOpens, SocketCloses, StateOK, flags
    <3>2. CASE OnConnected \/ OnLost
      BY <1>1, <2>1, <3>2
      DEF OnConnected, OnLost, HandleDisconnected, ResetFlags, StateOK
    <3>3. CASE Update
      BY <1>1, <2>1, <3>3 DEF Update, StateOK, link
    <3> QED
      BY <2>5, <3>1, <3>2, <3>3 DEF Network, SocketEvent
  <2>6. CASE Lines
    <3>1. CASE OnTASServer \/ OnAddUser \/ OnPong
      BY <1>1, <2>1, <3>1 DEF OnTASServer, OnAddUser, OnPong, StateOK, link, flags
    <3>2. CASE OnAccepted
      BY <1>1, <2>1, <3>2 DEF OnAccepted, StateOK
    <3>3. CASE OnDenied \/ OnRedirect
      BY <1>1, <2>1, <3>3 DEF OnDenied, OnRedirect, StateOK
    <3> QED
      BY <2>6, <3>1, <3>2, <3>3 DEF Lines
  <2>7. CASE \E s \in Sessions : Ping(s)
    BY <1>1, <2>1, <2>7 DEF Ping, StateOK, link, flags
  <2> QED
    BY <1>3, <2>2, <2>3, <2>4, <2>5, <2>6, <2>7 DEF Next, Gui
<1> QED
  BY <1>2, <1>3

(* The threads, their pings and the registry, for every step.              *)
LEMMA ThreadsStep ==
  ASSUME Always, [Next]_vars
  PROVE  ThreadsOK'
<1>1. StateOK /\ ThreadsOK
  BY DEF Always
<1>2. sock # "none" => session \in Sessions
  BY <1>1, SessionAssumption DEF StateOK, Sessions
<1>3. ASSUME NEW rest, HandleDisconnected(rest), UNCHANGED users
      PROVE  ThreadsOK'
  BY <1>1, <1>3 DEF HandleDisconnected, ThreadsOK
<1>4. CASE UNCHANGED <<threads, users>>
  BY <1>1, <1>4 DEF ThreadsOK, threads
<1>5. CASE OnDisconnected \/ OnLost
  BY <1>3, <1>5 DEF OnDisconnected, OnLost
<1>6. CASE Clear \/ OnConnected
  BY <1>1, <1>6 DEF Clear, OnConnected, ThreadsOK, threads
<1>7. CASE OnAccepted \/ OnAddUser \/ OnPong
  BY <1>1, <1>2, <1>7
  DEF OnAccepted, OnAddUser, OnPong, Receives, StartPings, ThreadsOK, threads
<1>8. CASE \E s \in Sessions : Ping(s)
  BY <1>1, <1>8 DEF Ping, ThreadsOK
<1> QED
  BY <1>4, <1>5, <1>6, <1>7, <1>8
  DEF Next, vars, threads, Gui, SocketEvent, Network, Command, Lines, Disconnect,
      Destroy, Connect, UserDisconnects, UserConnects, UserReconnects, Give, AnswerYes,
      AnswerNo, SocketOpens, SocketCloses, Update, OnTASServer, OnDenied, OnRedirect

(* All of it.                                                              *)
LEMMA AlwaysStep ==
  ASSUME Always, [Next]_vars
  PROVE  Always'
  BY StackStep, StateStep, ThreadsStep DEF Always
-----------------------------------------------------------------------------
(* The calls of the stack, before anything was done out of order: first a  *)
(* disconnect, which may find nothing to disconnect.                       *)
LEMMA DisconnectOrderly ==
  ASSUME Always, Orderly, Disconnect
  PROVE  Orderly'
<1> USE DEF Disconnect, Orderly
<1>1. todo # <<>> /\ todo \in Disconnects \cup Retries
  BY NextCall
<1>2. event = "none"
  BY <1>1, Apart DEF SocketInv
<1>3. CASE sock = "open" /\ connected
  <2>1. todo' \in Reports
    BY <1>1, <1>3, SocketDisconnects DEF SocketInv
  <2>2. todo' \in Stacks
    BY <2>1 DEF Stacks
  <2>3. todo \in Disconnects
    BY <1>1, <1>3 DEF SocketInv
  <2>4. /\ todo' \notin {<<>>} \cup Disconnects \cup Clears \cup Prompts \cup Losses
                       \cup Retries \cup {ClearLast, PromptLast}
        /\ todo \notin Clears \cup {ClearLast}
    BY <2>1, <2>3, Apart DEF Lone, After
  <2>5. SocketInv'
    BY <1>2, <1>3, <2>4 DEF SocketInv, link, flags, threads
  <2> QED
    BY <1>2, <1>3, <2>1, <2>2, <2>3, <2>4, <2>5
    DEF ThreadInv, UsersInv, link, flags, threads
<1>4. CASE ~ (sock = "open" /\ connected)
  <2>1. sock # "open" /\ ~ online
    BY <1>1, <1>2, <1>4 DEF SocketInv, ThreadInv
  <2>2. todo' = Tail(todo)
    BY <1>1, <1>4 DEF Always, StackOK
  <2>3. todo' \in After \cup Retries \cup {ConnectLast}
    BY <1>1, <2>2, TailOfDisconnects, TailOfRetries
  <2>4. todo' \in Stacks
    BY <2>3 DEF Stacks, Lone
  <2>5. todo \in Disconnects => todo' \in After
    BY <2>2, TailOfDisconnects
  <2>6. users = {}
    BY <1>1, <2>1, Apart DEF UsersInv, Lone
  <2>7. /\ todo' \notin Reports \cup Clears \cup Prompts \cup Losses
        /\ todo' # ClearLast /\ todo' # PromptLast
    BY <2>3, Apart, LoneApart DEF Lone
  <2>8. todo' \in Retries => todo \in Retries
    BY <1>1, <2>5, Apart
  <2>9. SocketInv'
    BY <1>1, <1>2, <2>1, <2>7, <2>8 DEF SocketInv, link, flags, threads
  <2> QED
    BY <2>1, <2>4, <2>6, <2>9 DEF ThreadInv, UsersInv, link, flags, threads
<1> QED
  BY <1>3, <1>4

(* The report stops the ping thread before the registry is cleared; the    *)
(* user is asked only when the client was not online.                      *)
LEMMA OnDisconnectedOrderly ==
  ASSUME Always, Orderly, OnDisconnected
  PROVE  Orderly'
<1> USE DEF OnDisconnected, Orderly
<1>1. todo \in Reports /\ sock = "open"
  BY NextCall DEF SocketInv
<1>2. event = "none"
  BY <1>1, Apart DEF SocketInv
<1>3. /\ pings' = {} /\ online' = FALSE
      /\ UNCHANGED <<link, users>>
  BY DEF HandleDisconnected, ResetFlags, ThreadInv
<1>4. users # {} => online
  BY <1>1, Apart DEF UsersInv, Lone
<1>5. \/ todo' \in Clears
      \/ todo' \in Prompts /\ ~ online
  BY <1>1, ReportClears, ReportPrompts DEF HandleDisconnected
<1>6. /\ todo' \notin {<<>>} \cup Disconnects \cup Reports \cup Retries
      /\ todo' # ClearLast /\ todo' # PromptLast
  BY <1>5, Apart DEF Lone, After
<1>7. todo' \in Stacks
  BY <1>5 DEF Stacks
<1>8. SocketInv'
  BY <1>1, <1>2, <1>3, <1>6 DEF SocketInv, link
<1> QED
  BY <1>3, <1>4, <1>5, <1>7, <1>8 DEF ThreadInv, UsersInv, link

(* The registry is cleared.                                                *)
LEMMA ClearOrderly ==
  ASSUME Always, Orderly, Clear
  PROVE  Orderly'
<1> USE DEF Clear, Orderly
<1>1. todo \in Clears \cup Losses \cup {ClearLast}
  BY NextCall DEF ClearLast
<1>2. event = "none" /\ ~ online
  BY <1>1, Apart, LoneApart DEF SocketInv, ThreadInv, Lone, After
<1>3. \/ todo \in Clears /\ todo' \in Destroys
      \/ todo \in Losses /\ todo' \in Prompts
      \/ todo = ClearLast /\ todo' = <<>>
  BY <1>1, TailOfClears, TailOfLosses, TailOfRetries
<1>4. todo' \in Stacks
  BY <1>3 DEF Stacks, After
<1>5. /\ todo' \notin Disconnects \cup Reports \cup Clears \cup Losses \cup Retries
      /\ todo' # ClearLast /\ todo' # PromptLast
      /\ todo' = <<>> => todo = ClearLast
      /\ todo' \in Prompts => todo \in Losses
  BY <1>3, Apart, LoneApart DEF Lone, After
<1>6. SocketInv'
  BY <1>2, <1>3, <1>5 DEF SocketInv, link, flags, threads
<1> QED
  BY <1>2, <1>4, <1>6 DEF ThreadInv, UsersInv, link, flags, threads

(* The socket is destroyed, when the client has left already.              *)
LEMMA DestroyOrderly ==
  ASSUME Always, Orderly, Destroy
  PROVE  Orderly' /\ pings = {} /\ users = {}
<1> USE DEF Destroy, Orderly
<1>1. todo \in Destroys
  BY NextCall
<1>2. ~ online /\ users = {} /\ pings = {}
  BY <1>1, Apart DEF ThreadInv, UsersInv, Lone, After
<1>3. todo' \in After
  BY <1>1, TailOfDestroys
<1>4. todo' \in Stacks
  BY <1>3 DEF Stacks
<1>5. /\ todo' \notin Reports \cup Clears \cup Prompts \cup Losses \cup Retries
      /\ todo' # ClearLast /\ todo' # PromptLast
  BY <1>3, Apart DEF Lone
<1>6. SocketInv'
  BY <1>2, <1>5 DEF SocketInv
<1> QED
  BY <1>2, <1>4, <1>6 DEF ThreadInv, UsersInv, flags, threads

(* A connection is made, when that before is gone.                         *)
LEMMA ConnectOrderly ==
  ASSUME Always, Orderly, Connect
  PROVE  Orderly'
<1> USE DEF Connect, Orderly
<1>1. todo \in {<<"connect">>, ConnectLast}
  BY NextCall
<1>2. todo \notin Disconnects \cup Reports \cup Clears /\ todo # ClearLast
  <2>1. <<"connect">> \notin Disconnects
    BY DEF Disconnects
  <2>2. <<"connect">> \in After
    BY DEF After
  <2> QED
    BY <1>1, <2>1, <2>2, Apart, LoneApart DEF Lone
<1>3. ~ online /\ users = {} /\ pings = {}
  BY <1>2 DEF ThreadInv, UsersInv
<1>4. todo' \in {<<>>, ClearLast}
  BY <1>1, TailOfRetries
<1>5. todo' \in Stacks
  BY <1>4 DEF Stacks, After, Lone
<1>6. todo' \notin Reports \cup Prompts \cup Retries \cup {PromptLast}
  BY <1>4, Apart, LoneApart DEF Lone, After
<1>7. todo' \notin Clears \cup Losses
  BY <1>4, Apart DEF Lone, After
<1>8. SocketInv'
  BY <1>6, <1>7 DEF SocketInv
<1> QED
  BY <1>3, <1>5, <1>8 DEF ThreadInv, UsersInv, threads
-----------------------------------------------------------------------------
(* While the event loop runs nothing is under way, or there is a dialog,   *)
(* and it is the dialog of a disconnect unless the connection was lost.    *)
LEMMA Dialogs ==
  ASSUME Orderly, Listening
  PROVE  /\ todo = <<>> \/ todo \in Prompts \/ todo = PromptLast
         /\ todo \in Prompts => Has("destroy") /\ Has("prompt")
         /\ sock = "connecting" \/ (sock = "open" /\ ~ Has("destroy")) => todo = <<>>
<1>1. todo = <<>> \/ todo \in Prompts \/ todo = PromptLast
  BY NextCall DEF Orderly, Listening, Prompting
<1>2. todo \in Prompts => Has("destroy") /\ Has("prompt")
  BY DialogStacks DEF Has
<1> QED
  BY <1>1, <1>2 DEF Orderly, SocketInv

(* The empty stack is of no other kind.                                    *)
LEMMA EmptyStack ==
  /\ <<>> \in Stacks
  /\ <<>> \notin Disconnects \cup Reports \cup Clears \cup Prompts \cup Losses
                 \cup Retries \cup Lone
  BY Apart, LoneApart DEF Stacks, After

(* A command of the user.                                                  *)
LEMMA CommandOrderly ==
  ASSUME Always, Orderly, UserDisconnects \/ UserConnects \/ UserReconnects
  PROVE  Orderly'
<1> USE DEF UserDisconnects, UserConnects, UserReconnects, Give, MayCommand, Orderly
<1>1. todo = <<>> /\ event = "none"
  OBVIOUS
<1>2. todo' \in Disconnects
  BY FirstCalls DEF Disconnects, DoConnect
<1>3. todo' \in Stacks /\ todo' # <<>>
  BY <1>2, EmptyStack DEF Stacks
<1>4. todo' \notin Reports \cup Clears \cup Prompts \cup Losses \cup Retries \cup Lone
  BY <1>2, Apart
<1>5. SocketInv'
  BY <1>1, <1>2, <1>3, <1>4 DEF SocketInv, Lone, link, flags, threads
<1>6. ThreadInv'
  BY <1>1, <1>2 DEF ThreadInv, link, flags, threads
<1>7. UsersInv'
  BY <1>1, EmptyStack DEF UsersInv, Lone, link, flags
<1> QED
  BY <1>3, <1>5, <1>6, <1>7

(* The user answers the dialog.                                            *)
LEMMA AnswerNoOrderly ==
  ASSUME Always, Orderly, AnswerNo
  PROVE  Orderly'
<1> USE DEF AnswerNo, Prompting, Orderly
<1>1. event = "none" /\ todo # <<>>
  OBVIOUS
<1>2. \/ todo \in Prompts /\ todo' \in Clears
      \/ todo = PromptLast /\ todo' = ClearLast
  BY NextCall, TailOfPrompts, TailOfRetries
<1>3. ~ online /\ users = {}
  BY <1>2, Apart, LoneApart DEF ThreadInv, UsersInv, Lone, After
<1>4. todo' \in Stacks
  BY <1>2 DEF Stacks, Lone
<1>5. /\ todo' \notin {<<>>} \cup Disconnects \cup Reports \cup Prompts \cup Losses
                      \cup Retries \cup {PromptLast}
      /\ todo' \in Clears => todo \in Prompts
      /\ todo' = ClearLast => todo = PromptLast
  BY <1>2, Apart, LoneApart DEF Lone, After
<1>6. SocketInv'
  BY <1>1, <1>5 DEF SocketInv, link, flags, threads
<1> QED
  BY <1>3, <1>4, <1>6 DEF ThreadInv, UsersInv, link, flags, threads

(* The user answers "Yes" after a loss.                                    *)
LEMMA AnswerYesOrderly ==
  ASSUME Always, Orderly, AnswerYes, ~ Has("destroy")
  PROVE  Orderly'
<1> USE DEF AnswerYes, Prompting, Orderly
<1>1. todo = PromptLast
  BY Dialogs DEF Listening
<1>2. todo' \in Retries
  BY <1>1, TailOfRetries, FirstCalls
<1>3. ~ online /\ users = {} /\ event = "none" /\ sock = "closed"
  BY <1>1, Apart, LoneApart DEF ThreadInv, UsersInv, SocketInv, Lone, After
<1>4. todo' \in Stacks
  BY <1>2 DEF Stacks
<1>5. todo' \notin Reports \cup Clears \cup Prompts \cup Losses \cup Lone
  BY <1>2, Apart
<1>6. SocketInv'
  BY <1>3, <1>5 DEF SocketInv, Lone, link
<1> QED
  BY <1>3, <1>4, <1>6 DEF ThreadInv, UsersInv, link, flags, threads
-----------------------------------------------------------------------------
(* The socket opens or is lost.                                            *)
LEMMA NetworkOrderly ==
  ASSUME Always, Orderly, SocketOpens \/ SocketCloses
  PROVE  Orderly'
<1> USE DEF Orderly
<1>1. CASE SocketOpens
  <2>1. todo = <<>> /\ ~ online
    BY <1>1, Dialogs DEF SocketOpens, SocketInv
  <2>2. SocketInv'
    BY <1>1, <2>1, EmptyStack DEF SocketOpens, SocketInv, Lone, flags, threads
  <2> QED
    BY <1>1, <2>1, <2>2 DEF SocketOpens, ThreadInv, UsersInv, flags, threads
<1>2. CASE SocketCloses
  <2>1. todo \in {<<>>} \cup Prompts
    BY <1>2, Dialogs DEF SocketCloses, SocketInv
  <2>2. todo \notin Reports
    BY <2>1, Apart, EmptyStack
  <2>3. SocketInv'
    BY <1>2, <2>1, <2>2 DEF SocketCloses, SocketInv, flags, threads
  <2> QED
    BY <1>2, <2>3 DEF SocketCloses, ThreadInv, UsersInv, flags, threads
<1> QED
  BY <1>1, <1>2

(* The connection is made: the pings of that before are forgotten.         *)
LEMMA OnConnectedOrderly ==
  ASSUME Always, Orderly, OnConnected
  PROVE  Orderly'
<1> USE DEF OnConnected, Orderly
<1>1. todo = <<>> /\ ~ online /\ sock = "open"
  BY DEF SocketInv
<1>2. SocketInv'
  BY <1>1, EmptyStack DEF SocketInv, Lone
<1> QED
  BY <1>1, <1>2 DEF ThreadInv, UsersInv

(* The connection is lost, under the dialog of a disconnect or not.        *)
LEMMA OnLostOrderly ==
  ASSUME Always, Orderly, OnLost
  PROVE  Orderly'
<1> USE DEF OnLost, Orderly
<1>1. sock = "closed"
  BY DEF SocketInv
<1>2. /\ pings' = {} /\ online' = FALSE /\ event' = "none"
      /\ UNCHANGED <<sock, session, srv, users>>
  BY DEF HandleDisconnected, ResetFlags, ThreadInv
<1>3. \/ todo = <<>> /\ todo' = ClearLast
      \/ todo = <<>> /\ todo' = PromptLast /\ ~ online
      \/ todo \in Prompts /\ todo' \in Losses /\ ~ online
  <2>1. CASE todo = <<>>
    BY <2>1, FirstCalls DEF HandleDisconnected
  <2>2. CASE todo \in Prompts
    <3>1. ~ online
      BY <2>2, Apart, EmptyStack DEF ThreadInv
    <3> QED
      BY <2>2, <3>1, Dialogs, LossClears DEF HandleDisconnected
  <2> QED
    BY <2>1, <2>2, Dialogs DEF SocketInv
<1>4. users # {} => online
  BY <1>3, Apart, EmptyStack DEF UsersInv, Lone
<1>5. todo' \in Stacks
  BY <1>3 DEF Stacks, Lone
<1>6. todo' \notin Reports
  BY <1>3, Apart DEF Lone
<1>7. SocketInv'
  BY <1>1, <1>2, <1>6 DEF SocketInv
<1> QED
  BY <1>2, <1>3, <1>4, <1>5, <1>7, LoneApart DEF ThreadInv, UsersInv
-----------------------------------------------------------------------------
(* What the timer finds and what arrives is of a connection with nothing   *)
(* under way: otherwise it is done under the dialog of a disconnect.       *)
LEMMA UpdateOrderly ==
  ASSUME Always, Orderly, Update, ~ Has("destroy")
  PROVE  Orderly'
<1> USE DEF Update, Orderly
<1>1. todo = <<>>
  BY Dialogs
<1>2. SocketInv'
  BY <1>1 DEF SocketInv, link
<1> QED
  BY <1>2 DEF ThreadInv, UsersInv, link, threads

(* A line of the server.                                                   *)
LEMMA LinesOrderly ==
  ASSUME Always, Orderly, Lines, ~ Has("destroy")
  PROVE  Orderly'
<1> USE DEF Orderly
<1>1. todo = <<>> /\ sock = "open" /\ event = "none" /\ session # 0
  BY Dialogs
  DEF Lines, OnTASServer, OnAccepted, OnDenied, OnRedirect, OnAddUser, OnPong,
      Receives, Always, StateOK
<1>2. connected /\ pinglist \subseteq {session}
  BY <1>1 DEF SocketInv
<1>3. users # {} => online
  BY <1>1, EmptyStack DEF UsersInv, Lone
<1>4. CASE OnTASServer
  <2>1. SocketInv'
    BY <1>1, <1>4, EmptyStack DEF OnTASServer, SocketInv, flags, threads
  <2> QED
    BY <1>4, <2>1 DEF OnTASServer, ThreadInv, UsersInv, flags, threads
<1>5. CASE OnAccepted
  <2>1. SocketInv'
    BY <1>1, <1>2, <1>5, EmptyStack DEF OnAccepted, SocketInv
  <2>2. ThreadInv'
    BY <1>1, <1>2, <1>5 DEF OnAccepted, StartPings, ThreadInv
  <2> QED
    BY <1>1, <1>3, <1>5, <2>1, <2>2 DEF OnAccepted, UsersInv
<1>6. CASE OnDenied \/ OnRedirect
  <2>1. ~ online
    BY <1>6 DEF OnDenied, OnRedirect
  <2>2. todo' \in Reports \cup Disconnects
    BY <1>1, <1>2, <1>6, FirstCalls DEF OnDenied, OnRedirect
  <2>3. todo' \in Stacks
    BY <2>2 DEF Stacks
  <2>4. todo' \notin {<<>>} \cup Clears \cup Prompts \cup Losses \cup Retries \cup Lone
    BY <2>2, Apart, EmptyStack
  <2>5. UNCHANGED <<sock, event, session, connected, online, threads, users>>
    BY <1>6 DEF OnDenied, OnRedirect
  <2>6. SocketInv'
    BY <1>1, <1>2, <2>4, <2>5 DEF SocketInv, Lone
  <2> QED
    BY <1>3, <2>1, <2>3, <2>5, <2>6 DEF ThreadInv, UsersInv, threads
<1>7. CASE OnAddUser
  <2>1. online
    BY <1>1, <1>7 DEF OnAddUser, Receives, SocketInv
  <2>2. SocketInv'
    BY <1>7 DEF OnAddUser, SocketInv, link, flags, threads
  <2> QED
    BY <1>7, <2>1, <2>2 DEF OnAddUser, ThreadInv, UsersInv, link, flags, threads
<1>8. CASE OnPong
  <2>1. SocketInv'
    BY <1>8 DEF OnPong, SocketInv, link, flags
  <2> QED
    BY <1>8, <2>1 DEF OnPong, ThreadInv, UsersInv, link, flags
<1> QED
  BY <1>4, <1>5, <1>6, <1>7, <1>8 DEF Lines

(* The ping thread sends only while the client is online.                  *)
LEMMA PingOrderly ==
  ASSUME Always, Orderly, NEW s \in Sessions, Ping(s)
  PROVE  Orderly'
<1>1. online /\ s = session /\ pinglist \subseteq {session}
  BY DEF Ping, Orderly, ThreadInv
<1>2. pinglist' \subseteq {session}
  BY <1>1 DEF Ping
<1>3. SocketInv'
  BY <1>2 DEF Orderly, Ping, SocketInv, link, flags
<1> QED
  BY <1>2, <1>3 DEF Orderly, Ping, ThreadInv, UsersInv, link, flags
-----------------------------------------------------------------------------
(* The invariant holds at first,                                           *)
LEMMA InvInit == Init => IInv
<1> SUFFICES ASSUME Init PROVE IInv
  OBVIOUS
<1> USE DEF Init
<1>1. StackOK /\ ThreadsOK
  BY DEF StackOK, ThreadsOK, OneConnect, Connects
<1>2. StateOK
  <2>1. session \in 0 .. MaxSessions
    BY SessionAssumption
  <2> QED
    BY <2>1, Zenon DEF StateOK
<1>3. Orderly
  <2>1. SocketInv
    BY EmptyStack DEF SocketInv, Lone
  <2> QED
    BY <2>1, EmptyStack DEF Orderly, ThreadInv, UsersInv
<1> QED
  BY <1>1, <1>2, <1>3 DEF IInv, Always

(* and every step keeps it.                                                *)
LEMMA InvStep ==
  ASSUME IInv, [Next]_vars
  PROVE  IInv'
<1>1. Always /\ Always'
  BY AlwaysStep DEF IInv
<1>2. ASSUME ~ nested', Next
      PROVE  ~ nested /\ Orderly
  <2>1. nested' = nested \/ nested' = (nested \/ Has("destroy"))
    BY <1>2, Zenon DEF Next, Gui, SocketEvent, Network
  <2>2. ~ nested
    BY <1>2, <2>1, Zenon
  <2> QED
    BY <2>2 DEF IInv
<1>3. ASSUME ~ nested', Next
      PROVE  Orderly'
  <2>1. Always /\ Orderly
    BY <1>1, <1>2, <1>3
  <2>2. CASE Gui
    BY <2>1, <2>2, DisconnectOrderly, OnDisconnectedOrderly, ClearOrderly,
       DestroyOrderly, ConnectOrderly DEF Gui
  <2>3. CASE SocketEvent \/ Network
    BY <2>1, <2>3, OnConnectedOrderly, OnLostOrderly, NetworkOrderly
    DEF SocketEvent, Network
  <2>4. CASE Command \/ \E s \in Sessions : Ping(s)
    BY <2>1, <2>4, CommandOrderly, AnswerNoOrderly, PingOrderly DEF Command
  <2>5. CASE /\ AnswerYes \/ Update \/ Lines
             /\ nested' = (nested \/ Has("destroy"))
    <3>1. ~ Has("destroy")
      BY <1>3, <2>5
    <3> QED
      BY <2>1, <2>5, <3>1, AnswerYesOrderly, UpdateOrderly, LinesOrderly
  <2> QED
    BY <1>3, <2>2, <2>3, <2>4, <2>5 DEF Next
<1>4. CASE UNCHANGED vars
  BY <1>1, <1>4
  DEF IInv, Orderly, ThreadInv, UsersInv, SocketInv, vars, link, flags, threads
<1> QED
  BY <1>1, <1>3, <1>4 DEF IInv

(* The invariant of every behaviour.                                       *)
THEOREM Invariance == Spec => []IInv
  BY InvInit, InvStep, PTL DEF Spec

(* There is one ping thread while the client is logged in, that of the     *)
(* present connection, and none otherwise, and no ping of an earlier       *)
(* connection is in the list while it is used (tasserver.cpp:624-628,      *)
(* 2194-2217), unless something was done under a disconnect's dialog.      *)
THEOREM PingsCorrect == Spec => []PingsArePresent
<1>1. IInv => PingsArePresent
  BY DEF IInv, Always, StackOK, StateOK, ThreadsOK, Orderly, ThreadInv,
         PingsArePresent, TypeOK, OnePing, NoStalePing
<1> QED
  BY <1>1, Invariance, PTL

(* A disconnect destroys the socket only when no thread sends over it and  *)
(* the registry is empty (socket.cpp:149-153).                             *)
THEOREM DestroyCorrect == Spec => []DestroyAlone
<1>1. IInv => DestroyAlone
  <2> SUFFICES ASSUME Orderly, todo # <<>>, Head(todo) = "destroy"
               PROVE  pings = {} /\ users = {}
    BY DEF IInv, DestroyAlone
  <2>1. todo \in Destroys
    BY NextCall DEF Orderly
  <2> QED
    BY <2>1, Apart DEF Orderly, ThreadInv, UsersInv, Lone, After
<1> QED
  BY <1>1, Invariance, PTL

(* The registry holds what the present connection announced, and nothing   *)
(* once it was cleared (server.cpp:147-178).                               *)
THEOREM UsersCorrect == Spec => []FreshUsers
<1>1. IInv => FreshUsers
  <2> SUFFICES ASSUME Orderly, users # {}, ~ online
               PROVE  Has("clear")
    BY DEF IInv, FreshUsers, Orderly, UsersInv
  <2>1. todo \in Clears \cup {ClearLast}
    BY DEF Orderly, UsersInv
  <2>2. 1 \in DOMAIN todo /\ todo[1] = "clear"
    BY <2>1 DEF Clears, ClearLast
  <2> QED
    BY <2>2 DEF Has
<1> QED
  BY <1>1, Invariance, PTL

-----------------------------------------------------------------------------
(* WorkQueue.                                                              *)

(* The inductive invariant: where each item is, what the end of the thread *)
(* means, and that no wake-up is lost.                                     *)
ItemsApart ==
  /\ \A i \in queue : fate[i] = "none"
  /\ pc = "running" => item \notin queue /\ fate[item] = "none"

Ending ==
  /\ mustExit <=> caller \in {"waking", "joining", "joined"}
  /\ pc \in {"leftover", "stopped"} => mustExit
  /\ pc = "stopped" => queue = {}
  /\ caller = "joined" => pc = "stopped"
  /\ late => mustExit /\ pc \notin {"pop", "asleep"}
  /\ pc \notin {"leftover", "stopped"} => \A i \in Items : fate[i] # "dropped"

Awake ==
  /\ pc = "asleep" \/ (pc = "test" /\ ~mustExit) =>
       (queue # {} => permits > 0 \/ caller = "posting")
  /\ pc = "asleep" => (mustExit => permits > 0 \/ caller = "waking")

WorkerInv == WorkerTypeOK /\ ItemsApart /\ Ending /\ Awake

-----------------------------------------------------------------------------
(* What Pop returns is an item of the queue, or NULL when there is none.   *)
LEMMA PopResult ==
  ASSUME WorkerTypeOK, Pop
  PROVE  \/ queue = {} /\ item' = NULL /\ queue' = queue
         \/ /\ item' \in queue /\ item' \in Items /\ item' # NULL
            /\ queue' = queue \ {item'}
            /\ \A j \in queue : Priority[j] <= Priority[item']
  BY WorkQueueAssumption DEF WorkerTypeOK, Pop, Front

(* The inductive invariant holds at the start,                             *)
LEMMA WorkerInvInit == WorkerInit => WorkerInv
<1>1. WorkerInit => WorkerTypeOK
  <2>1. WorkerInit => fate \in [Items -> Fates]
    BY DEF WorkerInit, Fates
  <2>2. WorkerInit => /\ pc \in WorkerSteps /\ pc # "running"
                /\ caller \in CallerSteps /\ caller # "removing"
    BY DEF WorkerInit, WorkerSteps, CallerSteps
  <2>3. WorkerInit => queue \subseteq Items /\ permits \in Nat
    BY DEF WorkerInit
  <2>4. WorkerInit => item \in Items \cup {NULL} /\ arg \in Items \cup {NULL}
    BY DEF WorkerInit
  <2>5. WorkerInit => mustExit \in BOOLEAN /\ late \in BOOLEAN
    BY Zenon DEF WorkerInit
  <2> QED
    BY <2>1, <2>2, <2>3, <2>4, <2>5 DEF WorkerTypeOK
<1>2. WorkerInit => ItemsApart /\ Awake
  BY DEF WorkerInit, ItemsApart, Awake
<1>3. WorkerInit => Ending
  BY DEF WorkerInit, Ending
<1> QED
  BY <1>1, <1>2, <1>3 DEF WorkerInv

(* Every step preserves the invariant.                                     *)
LEMMA WorkerInvStep == WorkerInv /\ [WorkerNext]_WorkerVars => WorkerInv'
<1>1. SUFFICES ASSUME WorkerInv, [WorkerNext]_WorkerVars PROVE WorkerInv'
  OBVIOUS
<1> USE WorkQueueAssumption DEF WorkerInv, WorkerTypeOK, ItemsApart, Ending, Awake,
                                WorkerSteps, CallerSteps, Fates
<1>2. CASE Test
  BY <1>1, <1>2 DEF Test
<1>3. CASE Woken
  BY <1>1, <1>3 DEF Woken
<1>4. CASE SleepTimeout
  BY <1>1, <1>4 DEF SleepTimeout
<1>5. CASE Check
  BY <1>1, <1>5 DEF Check
<1>6. CASE PopNext
  <2>1. WorkerTypeOK
    BY <1>1
  <2>2. pc = "pop" /\ Pop
    BY <1>6 DEF PopNext
  <2>3. CASE queue = {} /\ item' = NULL /\ queue' = queue
    BY <1>1, <1>6, <2>3 DEF PopNext
  <2>4. CASE /\ item' \in queue /\ item' \in Items /\ item' # NULL
             /\ queue' = queue \ {item'}
    BY <1>1, <1>6, <2>4 DEF PopNext
  <2> QED
    BY <2>1, <2>2, <2>3, <2>4, PopResult
<1>7. CASE RunItem
  BY <1>1, <1>7 DEF RunItem
<1>8. CASE DropLeftover
  <2>1. WorkerTypeOK
    BY <1>1
  <2>2. pc = "leftover" /\ Pop
    BY <1>8 DEF DropLeftover
  <2>3. CASE queue = {} /\ item' = NULL /\ queue' = queue
    BY <1>1, <1>8, <2>3 DEF DropLeftover
  <2>4. CASE /\ item' \in queue /\ item' \in Items /\ item' # NULL
             /\ queue' = queue \ {item'}
    BY <1>1, <1>8, <2>4 DEF DropLeftover
  <2> QED
    BY <2>1, <2>2, <2>3, <2>4, PopResult
<1>9. CASE Post
  BY <1>1, <1>9 DEF Post, WakeUp
<1>10. CASE Remove
  BY <1>1, <1>10 DEF Remove
<1>11. CASE PostExit
  BY <1>1, <1>11 DEF PostExit, WakeUp
<1>12. CASE Join
  BY <1>1, <1>12 DEF Join
<1>13. ASSUME NEW i \in Items, Push(i) PROVE WorkerInv'
  BY <1>1, <1>13 DEF Push, Job
<1>14. ASSUME NEW i \in Items, Cancel(i) PROVE WorkerInv'
  BY <1>1, <1>14 DEF Cancel
<1>15. CASE Wait
  BY <1>1, <1>15 DEF Wait
<1>16. CASE UNCHANGED WorkerVars
  BY <1>1, <1>16 DEF WorkerVars
<1> QED
  BY <1>1, <1>2, <1>3, <1>4, <1>5, <1>6, <1>7, <1>8, <1>9, <1>10, <1>11, <1>12,
     <1>13, <1>14, <1>15, <1>16 DEF WorkerNext

(* and in every reachable state.                                           *)
THEOREM WorkerInvCorrect == WorkerSpec => []WorkerInv
  BY WorkerInvInit, WorkerInvStep, PTL DEF WorkerSpec

-----------------------------------------------------------------------------
(* The variables keep their types, whatever the number of items.           *)
THEOREM WorkerTypeCorrect == WorkerSpec => []WorkerTypeOK
<1>1. WorkerInv => WorkerTypeOK
  BY DEF WorkerInv
<1> QED
  BY <1>1, WorkerInvCorrect, PTL

(* No wake-up is lost: a worker asleep without a permit has no work, and   *)
(* is not told to stop, unless the post is about to come.                  *)
THEOREM WakeUpCorrect == WorkerSpec => []NoLostWakeUp
<1>1. WorkerInv => NoLostWakeUp
  BY DEF WorkerInv, WorkerTypeOK, Awake, NoLostWakeUp
<1> QED
  BY <1>1, WorkerInvCorrect, PTL

(* When Wait has returned, no item is waiting or running.                  *)
THEOREM NothingLeftCorrect == WorkerSpec => []NothingLeft
<1>1. WorkerInv => NothingLeft
  BY DEF WorkerInv, WorkerTypeOK, Ending, NothingLeft, Job, Fates
<1> QED
  BY <1>1, WorkerInvCorrect, PTL

-----------------------------------------------------------------------------
(* The refinement.  A step that leaves alone the queue, the fates, whether *)
(* an item is running and m_must_exit is a stutter of the pool.            *)
LEMMA Stutter ==
  ASSUME UNCHANGED <<queue, fate, item, mustExit, late>>,
         (pc = "running") <=> (pc' = "running")
  PROVE  UNCHANGED Pool!vars
  BY DEF Pool!vars, Job

(* One item's change of state, as the pool sees it.                        *)
LEMMA OneBecomes ==
  ASSUME NEW i \in Items, NEW s,
         Job'[i] = s,
         \A j \in Items \ {i} : Job'[j] = Job[j]
  PROVE  Pool!Become(i, s)
<1>1. Job' = [j \in Items |-> Job'[j]]
  BY DEF Job
<1>2. Job = [j \in Items |-> Job[j]]
  BY DEF Job
<1> QED
  BY <1>1, <1>2 DEF Pool!Become

(* At the start no item has been given to the pool.                        *)
LEMMA PoolInit == WorkerInit => Pool!Init
  BY DEF WorkerInit, Pool!Init, Job

(* A pop that finds an item begins a job of the pool.                      *)
LEMMA PopBegins ==
  ASSUME WorkerInv, PopNext
  PROVE  [Pool!Next]_(Pool!vars)
<1> USE DEF WorkerInv, WorkerTypeOK, ItemsApart, Ending
<1>1. CASE queue = {} /\ item' = NULL /\ queue' = queue
  <2>1. UNCHANGED Pool!vars
    BY <1>1, WorkQueueAssumption DEF PopNext, Pool!vars, Job
  <2> QED
    BY <2>1
<1>2. CASE /\ item' \in queue /\ item' \in Items /\ item' # NULL
           /\ queue' = queue \ {item'}
           /\ \A j \in queue : Priority[j] <= Priority[item']
  <2>1. /\ pc = "pop" /\ pc' = "running" /\ ~late /\ fate' = fate
        /\ mustExit' = mustExit /\ late' = mustExit
    BY <1>2 DEF PopNext
  <2>2. Job[item'] = "waiting"
    BY <1>2, <2>1 DEF Job
  <2>3. \A j \in Pool!InState("waiting") : Priority[j] <= Priority[item']
    BY <1>2, <2>1 DEF Job, Pool!InState, Fates
  <2>4. Pool!InState("running") = {} /\ Pool!InState("dropped") = {}
    BY <2>1 DEF Job, Pool!InState, Fates
  <2>5. Job'[item'] = "running"
    BY <1>2, <2>1 DEF Job
  <2>6. \A j \in Items \ {item'} : Job'[j] = Job[j]
    BY <1>2, <2>1 DEF Job
  <2>7. Pool!Become(item', "running")
    BY <1>2, <2>5, <2>6, OneBecomes
  <2>8. Pool!Begin(item')
    BY <2>1, <2>2, <2>3, <2>4, <2>7 DEF Pool!Begin
  <2> QED
    BY <1>2, <2>8 DEF Pool!Next
<1>3. WorkerTypeOK /\ Pop
  BY DEF PopNext
<1> QED
  BY <1>1, <1>2, <1>3, PopResult

(* An iteration of the last loop drops a job, or ends the worker.          *)
LEMMA LeftoverDrops ==
  ASSUME WorkerInv, DropLeftover
  PROVE  [Pool!Next]_(Pool!vars)
<1> USE DEF WorkerInv, WorkerTypeOK, ItemsApart, Ending
<1>1. CASE queue = {} /\ item' = NULL /\ queue' = queue
  <2>1. UNCHANGED Pool!vars
    BY <1>1 DEF DropLeftover, Pool!vars, Job
  <2> QED
    BY <2>1
<1>2. CASE /\ item' \in queue /\ item' \in Items /\ item' # NULL
           /\ queue' = queue \ {item'}
  <2>1. /\ pc = "leftover" /\ pc' = "leftover" /\ mustExit
        /\ fate' = [fate EXCEPT ![item'] = "dropped"]
        /\ mustExit' = mustExit /\ late' = late
    BY <1>2 DEF DropLeftover
  <2>2. Job[item'] = "waiting"
    BY <1>2, <2>1 DEF Job
  <2>3. Pool!InState("running") = {}
    BY <2>1 DEF Job, Pool!InState, Fates
  <2>4. Job'[item'] = "dropped"
    BY <1>2, <2>1 DEF Job
  <2>5. \A j \in Items \ {item'} : Job'[j] = Job[j]
    BY <1>2, <2>1 DEF Job
  <2>6. Pool!Become(item', "dropped")
    BY <1>2, <2>4, <2>5, OneBecomes
  <2>7. Pool!Drop(item')
    BY <2>1, <2>2, <2>3, <2>6 DEF Pool!Drop
  <2> QED
    BY <1>2, <2>7 DEF Pool!Next
<1>3. WorkerTypeOK /\ Pop
  BY DEF DropLeftover
<1> QED
  BY <1>1, <1>2, <1>3, PopResult

(* Every step of the threads is a step of the pool or a stutter.           *)
LEMMA PoolStep == WorkerInv /\ [WorkerNext]_WorkerVars => [Pool!Next]_(Pool!vars)
<1>1. SUFFICES ASSUME WorkerInv, [WorkerNext]_WorkerVars PROVE [Pool!Next]_(Pool!vars)
  OBVIOUS
<1> USE DEF WorkerInv, WorkerTypeOK, ItemsApart, Ending
<1>2. CASE Test
  BY <1>2, Stutter DEF Test
<1>3. CASE Woken
  BY <1>3, Stutter DEF Woken
<1>4. CASE SleepTimeout
  BY <1>4, Stutter DEF SleepTimeout
<1>5. CASE Check
  BY <1>5, Stutter DEF Check
<1>6. CASE PopNext
  BY <1>1, <1>6, PopBegins
<1>7. CASE RunItem
  <2>1. item \in Items /\ Job[item] = "running"
    BY <1>1, <1>7 DEF RunItem, Job
  <2>2. Job'[item] = "done" /\ \A j \in Items \ {item} : Job'[j] = Job[j]
    BY <1>1, <1>7 DEF RunItem, Job
  <2>3. Pool!Finish(item)
    BY <1>7, <2>1, <2>2, OneBecomes DEF RunItem, Pool!Finish
  <2> QED
    BY <2>1, <2>3 DEF Pool!Next
<1>8. CASE DropLeftover
  BY <1>1, <1>8, LeftoverDrops
<1>9. CASE Post
  BY <1>9, Stutter DEF Post
<1>10. CASE Remove
  <2>1. CASE arg \in queue
    <3>1. arg \in Items /\ arg \in Kept /\ ~mustExit
      BY <1>1, <1>10, WorkQueueAssumption DEF Remove
    <3>2. Job[arg] = "waiting" /\ Job'[arg] = "cancelled"
      BY <1>1, <1>10, <2>1, <3>1 DEF Remove, Job
    <3>3. \A j \in Items \ {arg} : Job'[j] = Job[j]
      BY <1>1, <1>10, <2>1, <3>1 DEF Remove, Job
    <3>4. Pool!Cancel(arg)
      BY <1>1, <1>10, <3>1, <3>2, <3>3, OneBecomes DEF Remove, Pool!Cancel
    <3> QED
      BY <3>1, <3>4 DEF Pool!Next
  <2>2. CASE arg \notin queue
    BY <1>10, <2>2, Stutter DEF Remove
  <2> QED
    BY <2>1, <2>2
<1>11. CASE PostExit
  BY <1>11, Stutter DEF PostExit
<1>12. CASE Join
  BY <1>12, Stutter DEF Join
<1>13. ASSUME NEW i \in Items, Push(i) PROVE [Pool!Next]_(Pool!vars)
  <2>1. ~mustExit /\ Job[i] = "new"
    BY <1>1, <1>13 DEF Push
  <2>2. fate[i] = "none" /\ ~(pc = "running" /\ item = i)
    BY <1>1, <2>1 DEF Job, Fates
  <2>3. Job'[i] = "waiting" /\ \A j \in Items \ {i} : Job'[j] = Job[j]
    BY <1>13, <2>2 DEF Push, Job
  <2>4. Pool!Submit(i)
    BY <1>13, <2>1, <2>3, OneBecomes DEF Push, Pool!Submit
  <2> QED
    BY <1>13, <2>4 DEF Pool!Next
<1>14. ASSUME NEW i \in Items, Cancel(i) PROVE [Pool!Next]_(Pool!vars)
  BY <1>14, Stutter DEF Cancel
<1>15. CASE Wait
  <2>1. Job' = Job
    BY <1>15 DEF Wait, Job
  <2>2. Pool!Close
    BY <1>1, <1>15, <2>1 DEF Wait, Pool!Close
  <2> QED
    BY <2>2 DEF Pool!Next
<1>16. CASE UNCHANGED WorkerVars
  BY <1>16, Stutter DEF WorkerVars
<1> QED
  BY <1>1, <1>2, <1>3, <1>4, <1>5, <1>6, <1>7, <1>8, <1>9, <1>10, <1>11, <1>12,
     <1>13, <1>14, <1>15, <1>16 DEF WorkerNext

(* The worker thread implements the pool of jobs.                          *)
THEOREM PoolCorrect == WorkerSpec => ImplementsPool
  BY PoolInit, PoolStep, WorkerInvCorrect, PTL DEF WorkerSpec, ImplementsPool, Pool!Spec
=============================================================================
