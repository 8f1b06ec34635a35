--------------------------- MODULE Outgoing_proofs ---------------------------
(***************************************************************************)
(* The safety properties of Outgoing and its refinement of Pipe, for every *)
(* size of a command, every rate and any number of commands and            *)
(* connections.                                                            *)
(***************************************************************************)
EXTENDS Outgoing, TLAPS, SequenceTheorems

Busy == {"test", "load", "store", "read", "send"}

(* Only the GUI thread's own plain commands switch the ids off, and they   *)
(* are on again when the call returns.                                     *)
IdsOn ==
  /\ kind["ping"] = "ping"
  /\ idOn = (pc["gui"] \in Busy => kind["gui"] # "plain")

(* What a thread that is in SendCmd has read of the last id.               *)
IdsRead ==
  /\ \A t \in Threads : pc[t] = "store" => reg[t] \in Nat
  /\ pc["gui"] \in {"load", "store", "read"} => kind["gui"] # "plain"
  /\ pc["gui"] = "read" => lastId >= 1
  /\ pc["gui"] = "send" =>
       IF kind["gui"] = "plain" THEN reg["gui"] = NoId ELSE reg["gui"] >= 1

(* The bucket is as full as the budget says.                               *)
BudgetIsLevel == level = sent

IInv ==
  TypeOK /\ InOrder /\ BudgetIsLevel /\ IdsOn /\ IdsRead /\ IdsWhereWanted

-----------------------------------------------------------------------------
(* Sequences of numbered chunks.                                           *)
LEMMA ChunksAre ==
  ASSUME NEW n \in Nat
  PROVE  /\ Chunks(n) \in Seq(Nat) /\ Len(Chunks(n)) = n
         /\ \A i \in 1 .. n : Chunks(n)[i] = i
<1>1. Chunks(n) \in [1 .. n -> Nat]
  BY DEF Chunks
<1>2. Chunks(n) \in Seq(Nat)
  BY <1>1, SeqDef
<1>3. Len(Chunks(n)) = n
  BY <1>1, <1>2
<1> QED
  BY <1>2, <1>3 DEF Chunks

(* A sequence whose elements are their places is one of chunks.            *)
LEMMA IsChunks ==
  ASSUME NEW s \in Seq(Nat), \A i \in 1 .. Len(s) : s[i] = i
  PROVE  s = Chunks(Len(s))
<1>1. Len(s) \in Nat
  OBVIOUS
<1> QED
  BY <1>1, ChunksAre, SeqEqual

(* A beginning of a sequence of chunks is one.                             *)
LEMMA BeginsWithChunks ==
  ASSUME NEW a \in Seq(Nat), NEW b \in Seq(Nat), NEW m \in Nat, a \o b = Chunks(m)
  PROVE  Len(a) + Len(b) = m /\ Len(a) <= m /\ a = Chunks(Len(a))
<1>1. Len(a) \in Nat /\ Len(b) \in Nat
  OBVIOUS
<1> DEFINE c == a \o b
<1>2. /\ Len(c) = Len(a) + Len(b)
      /\ \A i \in 1 .. Len(a) + Len(b) :
           c[i] = IF i <= Len(a) THEN a[i] ELSE b[i - Len(a)]
  BY ConcatProperties
<1>3. Len(c) = m /\ \A i \in 1 .. m : c[i] = i
  BY ChunksAre
<1> HIDE DEF c
<1>4. Len(a) + Len(b) = m /\ Len(a) <= m
  BY <1>1, <1>2, <1>3
<1>5. \A i \in 1 .. Len(a) : a[i] = i
  BY <1>1, <1>2, <1>3, <1>4
<1> QED
  BY <1>4, <1>5, IsChunks

(* What was sent and what waits are the first m chunks.                    *)
Whole(w, d, m) == w \in Seq(Nat) /\ d \in Seq(Nat) /\ w \o d = Chunks(m)

(* The first n of d are appended to w, and the rest is left.               *)
Cut(w, d, n, got, rest) ==
  /\ n \in 0 .. Len(d)
  /\ got = w \o SubSeq(d, 1, n)
  /\ rest = SubSeq(d, n + 1, Len(d))

(* Some of what waits is written, and the rest still waits.                *)
LEMMA CutChunks ==
  ASSUME NEW w, NEW d, NEW m \in Nat, Whole(w, d, m),
         NEW n, NEW got, NEW rest, Cut(w, d, n, got, rest)
  PROVE  /\ Whole(got, rest, m)
         /\ Len(got) = Len(w) + n /\ Len(got) <= m
         /\ got = Chunks(Len(got))
<1>w. w \in Seq(Nat) /\ d \in Seq(Nat) /\ w \o d = Chunks(m)
  BY DEF Whole
<1> DEFINE front == SubSeq(d, 1, n)
<1>0. /\ n \in 0 .. Len(d) /\ got = w \o SubSeq(d, 1, n)
      /\ rest = SubSeq(d, n + 1, Len(d))
  BY DEF Cut
<1>1. Len(w) \in Nat /\ Len(d) \in Nat /\ n \in Nat
  BY <1>w, <1>0
<1>2. front \in Seq(Nat) /\ Len(front) = n /\ rest \in Seq(Nat)
  BY ONLY <1>w, <1>0, <1>1, SMT
<1>3. front \o rest = d
  <2>1. /\ 1 \in 1 .. Len(d) + 1 /\ n \in 1 - 1 .. Len(d)
        /\ Len(d) \in n .. Len(d)
    BY <1>0, <1>1
  <2>2. front \o rest = SubSeq(d, 1, Len(d))
    BY ONLY <1>w, <1>0, <2>1, ConcatAdjacentSubSeq, Zenon,
            front = SubSeq(d, 1, n)
  <2> QED
    BY <1>w, <2>2, SubSeqFull
<1> HIDE DEF front
<1>4. got = w \o front /\ got \in Seq(Nat) /\ Len(got) = Len(w) + n
  BY <1>w, <1>0, <1>1, <1>2, ConcatProperties DEF front
<1>5. got \o rest = Chunks(m)
  <2>1. (w \o front) \o rest = w \o (front \o rest)
    <3>1. front \in Seq(Nat) /\ rest \in Seq(Nat)
      BY <1>2
    <3> QED
      BY ONLY <3>1, <1>w, SMT
  <2> QED
    BY <1>w, <1>3, <1>4, <2>1, Zenon
<1>6. Len(got) <= m /\ got = Chunks(Len(got))
  BY ONLY <1>2, <1>4, <1>5, m \in Nat, BeginsWithChunks, Zenon
<1> QED
  BY <1>2, <1>4, <1>5, <1>6 DEF Whole

(* A command more waits.                                                   *)
LEMMA MoreChunks ==
  ASSUME NEW w \in Seq(Nat), NEW b \in Seq(Nat), NEW m \in Nat, NEW k \in Nat,
         w \o b = Chunks(m)
  PROVE  LET d == b \o [i \in 1 .. k |-> m + i]
         IN  d \in Seq(Nat) /\ w \o d = Chunks(m + k)
<1> DEFINE f == [i \in 1 .. k |-> m + i]
<1>1. f \in Seq(Nat) /\ Len(f) = k /\ \A i \in 1 .. k : f[i] = m + i
  <2>1. f \in [1 .. k -> Nat]
    OBVIOUS
  <2>2. f \in Seq(Nat)
    BY <2>1, SeqDef
  <2> QED
    BY <2>1, <2>2
<1> HIDE DEF f
<1>2. b \o f \in Seq(Nat) /\ (w \o b) \o f = w \o (b \o f)
  BY ONLY <1>1, w \in Seq(Nat), b \in Seq(Nat), SMT
<1> DEFINE c == Chunks(m) \o f
<1>3. Chunks(m) \in Seq(Nat) /\ Len(Chunks(m)) = m
  BY ChunksAre
<1>4. /\ c \in Seq(Nat) /\ Len(c) = m + k
      /\ \A i \in 1 .. m + k :
           c[i] = IF i <= m THEN Chunks(m)[i] ELSE f[i - m]
  <2>1. /\ c \in Seq(Nat) /\ Len(c) = Len(Chunks(m)) + Len(f)
        /\ \A i \in 1 .. Len(Chunks(m)) + Len(f) :
             c[i] = IF i <= Len(Chunks(m)) THEN Chunks(m)[i]
                    ELSE f[i - Len(Chunks(m))]
    BY <1>1, <1>3, ConcatProperties, Zenon
  <2> QED
    BY <1>1, <1>3, <2>1, Zenon
<1> HIDE DEF c
<1>5. \A i \in 1 .. m + k : c[i] = i
  <2>1. TAKE i \in 1 .. m + k
  <2>2. CASE i <= m
    <3>1. i \in 1 .. m
      BY <2>2
    <3> QED
      BY <1>4, <2>2, <3>1, ChunksAre
  <2>3. CASE i > m
    <3>1. i - m \in 1 .. k
      BY <2>3
    <3> QED
      BY <1>1, <1>4, <2>3, <3>1
  <2> QED
    BY <2>2, <2>3
<1> QED
  BY <1>2, <1>4, <1>5, IsChunks DEF c, f
-----------------------------------------------------------------------------
(* The buffer and the budget.                                              *)
LEMMA LeakBounds ==
  ASSUME NEW r \in Nat, NEW n \in 0 .. r
  PROVE  Leak(n) \in 0 .. r
  BY OutgoingAssumption DEF Leak

(* What Socket::_Send does to the stream of the connection.                *)
LEMMA WriteResult ==
  ASSUME NEW data \in Seq(Nat), NEW m \in Nat, NEW spent \in 0 .. Rate,
         wire \in Seq(Nat), wire \o data = Chunks(m), Write(data, spent, spent)
  PROVE  /\ wire' \in Seq(Nat) /\ buffer' \in Seq(Nat)
         /\ wire' = Chunks(Len(wire')) /\ Len(wire') \in Len(wire) .. m
         /\ wire' \o buffer' = Chunks(m)
         /\ sent' \in 0 .. Rate /\ level' = sent'
<1>1. PICK n \in 0 .. Allowed(spent) :
        /\ n <= Len(data)
        /\ wire' = wire \o SubSeq(data, 1, n)
        /\ buffer' = SubSeq(data, n + 1, Len(data))
        /\ sent' = spent + n /\ level' = spent + n
  BY DEF Write
<1>2. n \in 0 .. Len(data) /\ spent + n \in 0 .. Rate
  BY <1>1, OutgoingAssumption DEF Allowed
<1>3. /\ wire' \in Seq(Nat) /\ buffer' \in Seq(Nat)
      /\ Len(wire') = Len(wire) + n /\ Len(wire') <= m
      /\ wire' = Chunks(Len(wire'))
      /\ wire' \o buffer' = Chunks(m)
  <2>1. Cut(wire, data, n, wire', buffer')
    BY <1>1, <1>2 DEF Cut
  <2> QED
    <3>1. Whole(wire, data, m)
      BY DEF Whole
    <3>2. /\ Whole(wire', buffer', m)
          /\ Len(wire') = Len(wire) + n /\ Len(wire') <= m
          /\ wire' = Chunks(Len(wire'))
      BY <2>1, <3>1, CutChunks, Zenon
    <3> QED
      BY <3>2 DEF Whole
<1>4. Len(wire') \in Len(wire) .. m
  BY <1>2, <1>3
<1> QED
  BY <1>1, <1>2, <1>3, <1>4

Streams == /\ buffer \in Seq(Nat) /\ wire \in Seq(Nat)
           /\ sent \in 0 .. Rate /\ log \in Seq(Given)

(* The number of chunks that were given.                                   *)
LEMMA GivenChunks ==
  ASSUME log \in Seq(Given)
  PROVE  /\ Len(log) \in Nat /\ Len(log) * Size \in Nat
         /\ (Len(log) + 1) * Size = Len(log) * Size + Size
  BY OutgoingAssumption

(* A command is given to an open or a lost connection.                     *)
LEMMA SendResult ==
  ASSUME Streams, InOrder, BudgetIsLevel, NEW command \in Given, conn # "none",
         Send(command)
  PROVE  /\ Streams' /\ BudgetIsLevel'
         /\ log' = Append(log, command) /\ Len(log') = Len(log) + 1
         /\ wire' = Chunks(Len(wire')) /\ Len(wire') \in Len(wire) .. Len(log') * Size
         /\ wire' \o buffer' = Chunks(Len(log') * Size)
<1> DEFINE m == Len(log) * Size
           data == buffer \o Fresh
<1>1. m \in Nat /\ Size \in Nat /\ wire \o buffer = Chunks(m)
  BY GivenChunks, OutgoingAssumption DEF Streams, InOrder
<1>2. log' = Append(log, command) /\ Write(data, sent, sent)
  BY DEF Send, BudgetIsLevel
<1>3. log' \in Seq(Given) /\ Len(log') = Len(log) + 1
  BY <1>2 DEF Streams
<1>4. data \in Seq(Nat) /\ wire \o data = Chunks(m + Size)
  <2>1. Fresh = [i \in 1 .. Size |-> m + i]
    BY DEF Fresh
  <2> QED
    BY <1>1, <2>1, MoreChunks, Zenon DEF Streams
<1>5. m + Size = Len(log') * Size /\ m + Size \in Nat
  BY <1>1, <1>3, GivenChunks DEF Streams
<1> HIDE DEF data, m
<1>6. /\ wire' \in Seq(Nat) /\ buffer' \in Seq(Nat)
      /\ wire' = Chunks(Len(wire')) /\ Len(wire') \in Len(wire) .. m + Size
      /\ wire' \o buffer' = Chunks(m + Size)
      /\ sent' \in 0 .. Rate /\ level' = sent'
  BY <1>2, <1>4, <1>5, WriteResult, Zenon DEF Streams
<1> QED
  BY <1>2, <1>3, <1>5, <1>6, Zenon DEF Streams, BudgetIsLevel

(* The timer.                                                              *)
LEMMA TimerResult ==
  ASSUME Streams, InOrder, BudgetIsLevel, OnTimer
  PROVE  /\ Streams' /\ BudgetIsLevel' /\ log' = log
         /\ wire' = Chunks(Len(wire'))
         /\ Len(wire') \in Len(wire) .. Len(log) * Size
         /\ conn # "none" => wire' \o buffer' = Chunks(Len(log) * Size)
<1> DEFINE m == Len(log) * Size
<1>1. m \in Nat /\ Leak(sent) \in 0 .. Rate /\ log' = log
  BY GivenChunks, LeakBounds, OutgoingAssumption DEF Streams, OnTimer
<1>2. Len(wire) \in Len(wire) .. m /\ wire = Chunks(Len(wire))
  BY <1>1 DEF Streams, InOrder
<1>3. CASE buffer # <<>> /\ conn # "none"
  <2>1. wire \o buffer = Chunks(m) /\ Write(buffer, Leak(sent), Leak(sent))
    BY <1>3 DEF OnTimer, BudgetIsLevel, InOrder
  <2>2. /\ wire' \in Seq(Nat) /\ buffer' \in Seq(Nat)
        /\ wire' = Chunks(Len(wire')) /\ Len(wire') \in Len(wire) .. m
        /\ wire' \o buffer' = Chunks(m)
        /\ sent' \in 0 .. Rate /\ level' = sent'
    BY <1>1, <2>1, WriteResult, Zenon DEF Streams
  <2> QED
    BY <1>1, <2>2, Zenon DEF Streams, BudgetIsLevel
<1>4. CASE ~(buffer # <<>> /\ conn # "none")
  <2>1. sent' = Leak(sent) /\ level' = Leak(sent) /\ buffer' = buffer /\ wire' = wire
    BY <1>4 DEF OnTimer, BudgetIsLevel
  <2> QED
    BY <1>1, <1>2, <2>1, Zenon DEF Streams, BudgetIsLevel, InOrder
<1> QED
  BY <1>3, <1>4
-----------------------------------------------------------------------------
(* The invariant holds of the initial states.                              *)
LEMMA IInvInit == Init => IInv
<1> SUFFICES ASSUME Init PROVE IInv
  OBVIOUS
<1>1. TypeOK
  <2>1. buffer \in Seq(Nat) /\ wire \in Seq(Nat) /\ log \in Seq(Given)
    BY DEF Init
  <2>2. /\ pc \in [Threads -> Steps] /\ kind \in [Threads -> Kinds]
        /\ reg \in [Threads -> Int]
    BY DEF Init, Threads, Kinds, Steps
  <2>3. sent \in 0 .. Rate /\ level \in Nat
    BY OutgoingAssumption DEF Init
  <2> QED
    BY <2>1, <2>2, <2>3 DEF Init, TypeOK
<1>2. InOrder
  BY OutgoingAssumption DEF Init, InOrder, Chunks
<1>3. BudgetIsLevel /\ IdsOn /\ IdsRead
  BY DEF Init, BudgetIsLevel, IdsOn, IdsRead, Busy, Threads
<1>4. IdsWhereWanted
  BY DEF Init, IdsWhereWanted
<1> QED
  BY <1>1, <1>2, <1>3, <1>4 DEF IInv

StreamPart == Streams /\ InOrder /\ BudgetIsLevel /\ IdsWhereWanted

ThreadsPart ==
  /\ pc \in [Threads -> Steps]
  /\ kind \in [Threads -> Kinds]
  /\ reg \in [Threads -> Int]
  /\ leaving \in BOOLEAN /\ idOn \in BOOLEAN /\ lastId \in Nat

LinkPart ==
  /\ conn \in {"none", "connecting", "open", "lost", "dead"}
  /\ connected \in BOOLEAN /\ online \in BOOLEAN /\ session \in Nat

(* The invariant by the state it is about.                                 *)
LEMMA Parts == IInv <=> StreamPart /\ ThreadsPart /\ LinkPart /\ IdsOn /\ IdsRead
<1>1. ASSUME IInv
      PROVE  StreamPart /\ ThreadsPart /\ LinkPart /\ IdsOn /\ IdsRead
  BY <1>1 DEF IInv, TypeOK, StreamPart, Streams, ThreadsPart, LinkPart
<1>2. ASSUME StreamPart, ThreadsPart, LinkPart, IdsOn, IdsRead
      PROVE  IInv
  <2>1. level \in Nat
    BY <1>2, OutgoingAssumption DEF StreamPart, Streams, BudgetIsLevel
  <2> QED
    BY <1>2, <2>1
    DEF IInv, TypeOK, StreamPart, Streams, ThreadsPart, LinkPart
<1> QED
  BY <1>1, <1>2

(* A step that leaves the stream alone, and makes no socket.               *)
LEMMA QuietStream ==
  ASSUME StreamPart, UNCHANGED stream, conn' # "none" => conn # "none"
  PROVE  StreamPart'
  BY DEF StreamPart, Streams, stream, InOrder, BudgetIsLevel, IdsWhereWanted

(* A thread sends its command.                                             *)
LEMMA SendStream ==
  ASSUME IInv, NEW t \in Threads, SendStep(t)
  PROVE  StreamPart'
<1>1. StreamPart /\ ThreadsPart /\ IdsOn /\ IdsRead
  BY Parts
<1> DEFINE command == [kind |-> kind[t], id |-> reg[t]]
<1>2. command \in Given
  BY <1>1 DEF ThreadsPart, Given
<1>3. conn' = conn /\ pc[t] = "send"
  BY DEF SendStep, link, At
<1>4. CASE conn = "none"
  <2>1. UNCHANGED stream
    BY <1>4 DEF SendStep, Send
  <2> QED
    BY <1>1, <1>3, <2>1, QuietStream
<1>5. CASE conn # "none"
  <2>1. /\ command.kind = "plain" => command.id = NoId
        /\ command.kind = "say" => command.id >= 1
    BY <1>1, <1>3 DEF IdsOn, IdsRead, Threads
  <2>2. Send(command)
    BY DEF SendStep
  <2> HIDE DEF command
  <2>3. /\ Streams' /\ BudgetIsLevel'
        /\ log' = Append(log, command) /\ Len(log') = Len(log) + 1
        /\ wire' = Chunks(Len(wire'))
        /\ Len(wire') \in Len(wire) .. Len(log') * Size
        /\ wire' \o buffer' = Chunks(Len(log') * Size)
    BY <1>1, <1>2, <1>5, <2>2, SendResult, Zenon DEF StreamPart
  <2>4. InOrder'
    <3>1. Len(log') * Size \in Nat /\ Len(wire) \in Nat
      BY <1>1, <2>3, GivenChunks, OutgoingAssumption DEF StreamPart, Streams
    <3>2. Len(wire') <= Len(log') * Size
      BY <2>3, <3>1
    <3> QED
      BY <2>3, <3>2, Zenon DEF InOrder
  <2>5. IdsWhereWanted'
    <3>1. log \in Seq(Given) /\ Len(log) \in Nat
      BY <1>1 DEF StreamPart, Streams
    <3>2. /\ DOMAIN log' = 1 .. Len(log) + 1
          /\ \A n \in 1 .. Len(log) : log'[n] = log[n]
          /\ log'[Len(log) + 1] = command
      BY <1>2, <2>3, <3>1
    <3>3. SUFFICES ASSUME NEW n \in DOMAIN log'
                   PROVE  /\ log'[n].kind = "plain" => log'[n].id = NoId
                          /\ log'[n].kind = "say" => log'[n].id >= 1
      BY DEF IdsWhereWanted
    <3>4. CASE n = Len(log) + 1
      BY <2>1, <3>2, <3>4
    <3>5. CASE n # Len(log) + 1
      <4>1. n \in DOMAIN log /\ log'[n] = log[n]
        BY <3>1, <3>2, <3>5
      <4> QED
        BY <1>1, <4>1 DEF StreamPart, IdsWhereWanted
    <3> QED
      BY <3>4, <3>5
  <2> QED
    BY <2>3, <2>4, <2>5 DEF StreamPart
<1> QED
  BY <1>4, <1>5

(* The timer.                                                              *)
LEMMA TimerStream ==
  ASSUME IInv, OnTimer
  PROVE  StreamPart'
<1>1. StreamPart
  BY Parts
<1>2. /\ Streams' /\ BudgetIsLevel' /\ log' = log /\ conn' = conn
      /\ wire' = Chunks(Len(wire'))
      /\ Len(wire') \in Len(wire) .. Len(log) * Size
      /\ conn # "none" => wire' \o buffer' = Chunks(Len(log) * Size)
  BY <1>1, TimerResult DEF StreamPart, OnTimer, link
<1>3. Len(wire') <= Len(log) * Size
  BY <1>1, <1>2, GivenChunks, OutgoingAssumption DEF StreamPart, Streams
<1>4. InOrder'
  BY <1>2, <1>3, Zenon DEF InOrder
<1>5. IdsWhereWanted'
  BY <1>1, <1>2 DEF StreamPart, IdsWhereWanted
<1> QED
  BY <1>2, <1>4, <1>5 DEF StreamPart

(* A connection starts with nothing sent and nothing waiting.              *)
LEMMA ConnectStream ==
  ASSUME StreamPart, Connect
  PROVE  StreamPart'
<1>1. buffer' = <<>> /\ wire' = <<>> /\ log' = <<>>
      /\ sent' = sent /\ level' = level
  BY DEF Connect
<1>2. Streams' /\ BudgetIsLevel'
  BY <1>1 DEF StreamPart, Streams, BudgetIsLevel
<1>3. InOrder'
  <2>1. Len(<<>>) = 0 /\ 0 * Size = 0 /\ <<>> \o <<>> = <<>> /\ Chunks(0) = <<>>
    BY OutgoingAssumption DEF Chunks
  <2> QED
    BY <1>1, <2>1 DEF InOrder
<1>4. IdsWhereWanted'
  BY <1>1 DEF IdsWhereWanted
<1> QED
  BY <1>2, <1>3, <1>4 DEF StreamPart

(* The socket of the GUI thread's own disconnect is gone.                  *)
LEMMA JoinedStream ==
  ASSUME StreamPart, Joined
  PROVE  StreamPart'
<1>1. /\ sent' = sent /\ wire' = wire /\ log' = log /\ level' = level
      /\ \/ conn' = "none" /\ buffer' = <<>>
         \/ conn' = conn /\ buffer' = buffer
  BY DEF Joined
<1>2. Streams' /\ BudgetIsLevel' /\ IdsWhereWanted'
  <2>1. buffer' \in Seq(Nat)
    <3>1. buffer \in Seq(Nat) /\ <<>> \in Seq(Nat)
      BY DEF StreamPart, Streams
    <3> QED
      BY <1>1, <3>1, Zenon
  <2> QED
    BY <1>1, <2>1 DEF StreamPart, Streams, BudgetIsLevel, IdsWhereWanted
<1>3. InOrder'
  BY <1>1, Zenon DEF StreamPart, InOrder
<1> QED
  BY <1>2, <1>3 DEF StreamPart

(* The threads.  Every action leaves the values in range, keeps the ids on *)
(* outside the plain commands, and what a thread read of the last id.      *)
ThreadsInv == ThreadsPart /\ IdsOn /\ IdsRead

(* A call of SendCmd begins, or the ping thread ends.                      *)
LEMMA CallThreads ==
  ASSUME ThreadsInv,
         \/ \E k \in Kinds : Command(k)
         \/ PingAgain \/ PingEnds \/ Disconnect
  PROVE  ThreadsInv'
<1>1. ASSUME NEW k \in Kinds, Command(k) PROVE ThreadsInv'
  BY <1>1 DEF ThreadsInv, ThreadsPart, IdsOn, IdsRead, Command, Start, Go, Idle,
              Threads, Kinds, Steps, Busy
<1>2. ASSUME PingAgain PROVE ThreadsInv'
  BY <1>2 DEF ThreadsInv, ThreadsPart, IdsOn, IdsRead, PingAgain, Start, Go, At,
              Threads, Kinds, Steps, Busy, ids
<1>3. ASSUME PingEnds PROVE ThreadsInv'
  BY <1>3 DEF ThreadsInv, ThreadsPart, IdsOn, IdsRead, PingEnds, Go, At,
              Threads, Kinds, Steps, Busy, ids
<1>4. ASSUME Disconnect PROVE ThreadsInv'
  BY <1>4 DEF ThreadsInv, ThreadsPart, IdsOn, IdsRead, Disconnect, Start, Go, Idle,
              Threads, Kinds, Steps, Busy, ids
<1> QED
  BY <1>1, <1>2, <1>3, <1>4

(* A step of SendCmd, of either thread.                                    *)
LEMMA SendCmdThreads ==
  ASSUME ThreadsInv, NEW t \in Threads, ThreadStep(t)
  PROVE  ThreadsInv'
<1>1. ASSUME Test(t) PROVE ThreadsInv'
  <2>1. ThreadsPart'
    BY <1>1 DEF ThreadsInv, ThreadsPart, Test, Go, At, Steps, ids, NoId
  <2>2. IdsOn'
    BY <1>1 DEF ThreadsInv, ThreadsPart, IdsOn, Test, Go, At, Threads, Busy, ids
  <2>3. IdsRead'
    BY <1>1 DEF ThreadsInv, ThreadsPart, IdsOn, IdsRead, Test, Go, At, Threads,
                Steps, Busy, ids
  <2> QED
    BY <2>1, <2>2, <2>3 DEF ThreadsInv
<1>2. ASSUME Load(t) PROVE ThreadsInv'
  BY <1>2 DEF ThreadsInv, ThreadsPart, IdsOn, IdsRead, Load, Go, At,
              Threads, Kinds, Steps, Busy, ids
<1>3. ASSUME Store(t) PROVE ThreadsInv'
  BY <1>3 DEF ThreadsInv, ThreadsPart, IdsOn, IdsRead, Store, Go, At,
              Threads, Kinds, Steps, Busy
<1>4. ASSUME Read(t) PROVE ThreadsInv'
  BY <1>4 DEF ThreadsInv, ThreadsPart, IdsOn, IdsRead, Read, Go, At,
              Threads, Kinds, Steps, Busy, ids
<1>5. ASSUME SendStep(t) PROVE ThreadsInv'
  <2> DEFINE next == AfterSend(t)
  <2>1. /\ next \in {"sleep", "reset", "idle"}
        /\ pc[t] = "send" /\ pc' = [pc EXCEPT ![t] = next]
        /\ idOn' = (idOn \/ kind[t] = "plain") /\ lastId' = lastId
        /\ kind' = [kind EXCEPT ![t] = "ping"]
        /\ reg' = [reg EXCEPT ![t] = 0] /\ leaving' = leaving
    BY <1>5 DEF SendStep, AfterSend, Go, At, Forget, IdsAfter
  <2> HIDE DEF next
  <2>2. ThreadsPart'
    BY <2>1 DEF ThreadsInv, ThreadsPart, Kinds, Steps
  <2>3. IdsOn'
    BY <2>1 DEF ThreadsInv, ThreadsPart, IdsOn, Threads, Busy
  <2>4. IdsRead'
    BY <2>1 DEF ThreadsInv, ThreadsPart, IdsOn, IdsRead, Threads
  <2> QED
    BY <2>2, <2>3, <2>4 DEF ThreadsInv
<1> QED
  BY <1>1, <1>2, <1>3, <1>4, <1>5 DEF ThreadStep

(* The events of the connection, and steps that leave the threads alone.   *)
LEMMA LinkThreads ==
  ASSUME ThreadsInv,
         \/ OnConnected \/ OnAccepted \/ OnLost \/ Reset \/ Joined
         \/ UNCHANGED <<ids, threads>>
  PROVE  ThreadsInv'
<1>1. ASSUME OnConnected PROVE ThreadsInv'
  BY <1>1 DEF ThreadsInv, ThreadsPart, IdsOn, IdsRead, OnConnected, Idle,
              Threads, Kinds, Steps, Busy, threads
<1>2. ASSUME OnAccepted PROVE ThreadsInv'
  BY <1>2 DEF ThreadsInv, ThreadsPart, IdsOn, IdsRead, OnAccepted, Go, Idle,
              Threads, Kinds, Steps, Busy, ids
<1>3. ASSUME OnLost PROVE ThreadsInv'
  BY <1>3 DEF ThreadsInv, ThreadsPart, IdsOn, IdsRead, OnLost, Go, Idle,
              Threads, Kinds, Steps, Busy, ids
<1>4. ASSUME Reset PROVE ThreadsInv'
  BY <1>4 DEF ThreadsInv, ThreadsPart, IdsOn, IdsRead, Reset, Go, At,
              Threads, Kinds, Steps, Busy
<1>5. ASSUME Joined PROVE ThreadsInv'
  BY <1>5 DEF ThreadsInv, ThreadsPart, IdsOn, IdsRead, Joined, Go, At,
              Threads, Kinds, Steps, Busy, ids
<1>6. ASSUME UNCHANGED <<ids, threads>> PROVE ThreadsInv'
  BY <1>6 DEF ThreadsInv, ThreadsPart, IdsOn, IdsRead, ids, threads
<1> QED
  BY <1>1, <1>2, <1>3, <1>4, <1>5, <1>6
-----------------------------------------------------------------------------
(* Every step keeps the invariant.                                         *)
LEMMA IInvStep ==
  ASSUME IInv, [Next]_vars
  PROVE  IInv'
<1>1. StreamPart /\ ThreadsInv /\ LinkPart
  BY Parts DEF ThreadsInv
<1>2. SUFFICES StreamPart' /\ ThreadsInv' /\ LinkPart'
  <2>1. IInv' <=> StreamPart' /\ ThreadsPart' /\ LinkPart' /\ IdsOn' /\ IdsRead'
    BY Parts, PTL
  <2> QED
    BY <2>1 DEF ThreadsInv
<1>3. ASSUME NEW k \in Kinds, Command(k)
      PROVE  StreamPart' /\ ThreadsInv' /\ LinkPart'
  <2>1. StreamPart'
    BY <1>1, <1>3, QuietStream DEF Command, link
  <2>2. ThreadsInv' /\ LinkPart'
    BY <1>1, <1>3, CallThreads DEF Command, link, LinkPart
  <2> QED
    BY <2>1, <2>2
<1>4. ASSUME NEW t \in Threads, ThreadStep(t)
      PROVE  StreamPart' /\ ThreadsInv' /\ LinkPart'
  <2>1. CASE SendStep(t)
    BY <1>1, <1>4, <2>1, SendStream, SendCmdThreads DEF SendStep, link, LinkPart
  <2>2. CASE Test(t) \/ Load(t) \/ Store(t) \/ Read(t)
    <3>1. UNCHANGED stream /\ UNCHANGED link
      BY <2>2 DEF Test, Load, Store, Read
    <3>2. StreamPart'
      BY <1>1, <3>1, QuietStream DEF link
    <3> QED
      BY <1>1, <1>4, <3>1, <3>2, SendCmdThreads DEF link, LinkPart
  <2> QED
    BY <1>4, <2>1, <2>2 DEF ThreadStep
<1>5. ASSUME PingAgain \/ PingEnds \/ Disconnect
      PROVE  StreamPart' /\ ThreadsInv' /\ LinkPart'
  <2>1. UNCHANGED stream /\ UNCHANGED link
    BY <1>5 DEF PingAgain, PingEnds, Disconnect
  <2>2. StreamPart'
    BY <1>1, <2>1, QuietStream DEF link
  <2> QED
    BY <1>1, <1>5, <2>1, <2>2, CallThreads DEF link, LinkPart
<1>6. ASSUME OnTimer
      PROVE  StreamPart' /\ ThreadsInv' /\ LinkPart'
  <2>1. UNCHANGED <<ids, threads>> /\ UNCHANGED link
    BY <1>6 DEF OnTimer
  <2> QED
    BY <1>1, <1>6, <2>1, TimerStream, LinkThreads DEF link, LinkPart
<1>7. ASSUME Connect
      PROVE  StreamPart' /\ ThreadsInv' /\ LinkPart'
  <2>1. UNCHANGED <<ids, threads>>
    BY <1>7 DEF Connect
  <2>2. LinkPart'
    <3>1. /\ conn' = "connecting" /\ connected' = connected
          /\ online' = FALSE /\ session' = session + 1
      BY <1>7 DEF Connect
    <3>2. session' \in Nat
      BY <1>1, <3>1 DEF LinkPart
    <3> QED
      BY <1>1, <3>1, <3>2, Zenon DEF LinkPart
  <2> QED
    BY <1>1, <1>7, <2>1, <2>2, ConnectStream, LinkThreads
<1>8. ASSUME SocketOpens \/ SocketLost \/ OnConnected \/ OnAccepted \/ OnLost \/ Reset
      PROVE  StreamPart' /\ ThreadsInv' /\ LinkPart'
  <2>1. UNCHANGED stream /\ (conn' # "none" => conn # "none")
    BY <1>8 DEF SocketOpens, SocketLost, OnConnected, OnAccepted, OnLost, Reset
  <2>2. StreamPart'
    BY <1>1, <2>1, QuietStream
  <2>3. ThreadsInv'
    BY <1>1, <1>8, LinkThreads DEF SocketOpens, SocketLost
  <2>4. LinkPart'
    <3>1. /\ conn' \in {conn, "open", "lost", "dead"}
          /\ connected' \in {connected, TRUE, FALSE}
          /\ online' \in {online, TRUE, FALSE}
          /\ session' = session
      BY <1>8 DEF SocketOpens, SocketLost, OnConnected, OnAccepted, OnLost, Reset
    <3> QED
      BY <1>1, <3>1 DEF LinkPart
  <2> QED
    BY <2>2, <2>3, <2>4
<1>9. ASSUME Joined
      PROVE  StreamPart' /\ ThreadsInv' /\ LinkPart'
  <2>1. LinkPart'
    BY <1>1, <1>9 DEF Joined, LinkPart
  <2> QED
    BY <1>1, <1>9, <2>1, JoinedStream, LinkThreads
<1>10. ASSUME UNCHANGED vars
       PROVE  StreamPart' /\ ThreadsInv' /\ LinkPart'
  <2>1. UNCHANGED stream /\ UNCHANGED link /\ UNCHANGED <<ids, threads>>
    BY <1>10 DEF vars
  <2>2. StreamPart'
    BY <1>1, <2>1, QuietStream DEF link
  <2> QED
    BY <1>1, <2>1, <2>2, LinkThreads DEF link, LinkPart
<1> QED
  BY <1>3, <1>4, <1>5, <1>6, <1>7, <1>8, <1>9, <1>10
  DEF Next, GuiStep, PingStep, Threads

(* The invariant of every behaviour.                                       *)
THEOREM Invariance == Spec => []IInv
  BY IInvInit, IInvStep, PTL DEF Spec

(* What the server got and what waits are, in order, the commands given to *)
(* the connection, and the rate is kept over all connections (socket.cpp   *)
(* 160-199, 346-361).                                                      *)
THEOREM StreamCorrect == Spec => []StreamSound
<1>1. IInv => StreamSound
  BY OutgoingAssumption
  DEF IInv, StreamSound, TypeOK, BudgetIsLevel, RateKept
<1> QED
  BY <1>1, Invariance, PTL

(* LOGIN and JOIN carry no id and the GUI thread's other commands do, with *)
(* the ping thread counting in between (tasserver.cpp:443-446, 1213-1215). *)
THEOREM IdsCorrect == Spec => []IdsWhereWanted
<1>1. IInv => IdsWhereWanted
  BY DEF IInv
<1> QED
  BY <1>1, Invariance, PTL
-----------------------------------------------------------------------------
(* The initial states are initial states of the pipe.                      *)
LEMMA PipeInit == Init => Stream!Init
  BY DEF Init, Stream!Init

(* Every step is a step of the pipe or leaves it as it is.                 *)
LEMMA PipeStep ==
  ASSUME IInv, IInv', [Next]_vars
  PROVE  [Stream!Next]_Stream!vars
<1>1. StreamPart /\ Streams /\ InOrder /\ BudgetIsLevel
  BY Parts DEF StreamPart
<1>2. ASSUME UNCHANGED <<log, wire>>
      PROVE  UNCHANGED Stream!vars
  BY <1>2 DEF Stream!vars
<1>3. ASSUME NEW t \in Threads, SendStep(t)
      PROVE  [Stream!Next]_Stream!vars
  <2> DEFINE command == [kind |-> kind[t], id |-> reg[t]]
  <2>1. command \in Given /\ Send(command)
    BY <1>3, Parts DEF ThreadsPart, Given, SendStep
  <2>2. CASE conn = "none"
    BY <1>2, <2>1, <2>2 DEF Send, stream
  <2>3. CASE conn # "none"
    <3> HIDE DEF command
    <3>1. /\ Len(log') = Len(log) + 1 /\ wire' = Chunks(Len(wire'))
          /\ Len(wire') \in Len(wire) .. Len(log') * Size
      BY <1>1, <2>1, <2>3, SendResult, Zenon
    <3>2. Stream!GiveAndDeliver
      BY <3>1, Zenon DEF Stream!GiveAndDeliver, Chunks
    <3> QED
      BY <3>2 DEF Stream!Next
  <2> QED
    BY <2>2, <2>3
<1>4. ASSUME OnTimer
      PROVE  [Stream!Next]_Stream!vars
  <2>1. /\ log' = log /\ wire' = Chunks(Len(wire'))
        /\ Len(wire') \in Len(wire) .. Len(log) * Size
    BY <1>1, <1>4, TimerResult
  <2>2. Stream!Deliver
    BY <2>1, Zenon DEF Stream!Deliver, Chunks
  <2> QED
    BY <2>2 DEF Stream!Next
<1>5. ASSUME Connect
      PROVE  [Stream!Next]_Stream!vars
  <2>1. log' = <<>> /\ wire' = <<>>
    BY <1>5 DEF Connect
  <2>2. Stream!Renew
    BY <2>1 DEF Stream!Renew
  <2> QED
    BY <2>2 DEF Stream!Next
<1>6. ASSUME \/ \E k \in Kinds : Command(k)
             \/ \E t \in Threads : Test(t) \/ Load(t) \/ Store(t) \/ Read(t)
             \/ PingAgain \/ PingEnds \/ Disconnect
             \/ SocketOpens \/ SocketLost \/ OnConnected \/ OnAccepted
             \/ OnLost \/ Reset \/ Joined \/ UNCHANGED vars
      PROVE  [Stream!Next]_Stream!vars
  <2>1. UNCHANGED <<log, wire>>
    BY <1>6 DEF Command, Test, Load, Store, Read, PingAgain, PingEnds, Disconnect,
                SocketOpens, SocketLost, OnConnected, OnAccepted, OnLost, Reset,
                Joined, vars, stream
  <2> QED
    BY <1>2, <2>1
<1> QED
  BY <1>3, <1>4, <1>5, <1>6
  DEF Next, GuiStep, PingStep, ThreadStep, Threads

(* The connection implements the pipe: in order, nothing left out, sent    *)
(* twice or mixed, and nothing of an earlier connection (socket.cpp:117-   *)
(* 199).                                                                   *)
THEOREM PipeCorrect == Spec => ImplementsPipe
<1>1. [][Next]_vars /\ []IInv => [][Stream!Next]_Stream!vars
  BY PipeStep, PTL
<1> QED
  BY <1>1, PipeInit, Invariance, PTL DEF Spec, ImplementsPipe, Stream!Spec
=============================================================================
