--------------------------- MODULE HostInfo_proofs ---------------------------
(***************************************************************************)
(* The safety properties of HostInfo for any maps, places, numbers of      *)
(* boxes and of edits.                                                     *)
(***************************************************************************)
EXTENDS HostInfo, TLAPS

Rects == [Allies -> Box]

(* The message says something of the box at i.                             *)
IsAbout(message, i) == message.is = "boxes" /\ message.of[i] # <<>>

(* The last message on its way about a box leaves it where the server has  *)
(* it; without such a message it is there already unless it is marked.     *)
BoxAgrees(r, boxes, q, i) ==
  /\ \A n \in DOMAIN q :
       IsAbout(q[n], i) /\ (\A k \in DOMAIN q : k > n => ~ IsAbout(q[k], i))
         => boxes[i] = q[n].of[i][Len(q[n].of[i])]
  /\ r[i].mark = "" /\ (\A n \in DOMAIN q : ~ IsAbout(q[n], i)) =>
       boxes[i] = r[i].at

(* The host's boxes, the server's, and the messages on their way.          *)
BoxLink(r, boxes, q) ==
  /\ r \in Rects /\ boxes \in Layouts /\ q \in Seq(Message)
  /\ ~ proxy => \A n \in DOMAIN q : q[n].is = "info"
  /\ \A i \in Allies : BoxAgrees(r, boxes, q, i)

(* The last map and lock on their way are the server's, without one the    *)
(* host has them already; and if all maps on their way are the one that    *)
(* the host heard of last, that is the one that it shows.                  *)
InfoLink(q, map, lock, heardMap, heardLock) ==
  /\ \A n \in DOMAIN q :
       q[n].is = "info" /\ (\A k \in DOMAIN q : k > n => q[k].is # "info")
         => map = q[n].map /\ lock = q[n].lock
  /\ (\A n \in DOMAIN q : q[n].is # "info") => map = heardMap /\ lock = heardLock

MapLink(q, map, heard) ==
  (\A n \in DOMAIN q : q[n].is = "info" => q[n].map = heard) => map = heard

Links ==
  /\ BoxLink(rects, srv.boxes, in)
  /\ InfoLink(in, srv.map, srv.lock, hostMap, locked)
  /\ MapLink(in, localMap, hostMap)

(* The rest of the types.                                                  *)
RestOK ==
  /\ proxy \in BOOLEAN /\ running \in BOOLEAN
  /\ localMap \in Maps /\ hostMap \in Maps /\ locked \in BOOLEAN
  /\ saved \in [Maps -> Layouts]
  /\ dragged \in Allies \cup {None}
  /\ srv \in [map : Maps, lock : BOOLEAN, boxes : Layouts]
  /\ edits \in 0 .. MaxEdits

IInv == RestOK /\ OnlyDragsWait /\ Links
-----------------------------------------------------------------------------
(* What SendHostInfo makes of a box b: the mark is gone; if something was  *)
(* sent, the last of it is where the box is now, and if nothing was sent,  *)
(* there was nothing to send.                                              *)
BoxSent(b, sent, commands) ==
  /\ sent \in Box /\ sent.mark = ""
  /\ commands \in Seq(Places \cup {Nowhere})
  /\ commands # <<>> => commands[Len(commands)] = sent.at
  /\ commands = <<>> => b.mark = "" /\ sent.at = b.at

(* Short sequences and their last elements.                                *)
LEMMA ShortSeqs ==
  ASSUME NEW S, NEW a \in S, NEW b \in S
  PROVE  /\ <<>> \in Seq(S)
         /\ <<a>> \in Seq(S) /\ <<a>> # <<>> /\ <<a>>[Len(<<a>>)] = a
         /\ <<a, b>> \in Seq(S) /\ <<a, b>> # <<>> /\ <<a, b>>[Len(<<a, b>>)] = b
  OBVIOUS

(* The three things that are sent of a box.                                *)
LEMMA OneCommand ==
  ASSUME NEW b \in Box, NEW sent \in Box, sent.mark = ""
  PROVE  /\ BoxSent(b, sent, <<sent.at>>)
         /\ BoxSent(b, sent, <<Nowhere, sent.at>>)
         /\ b.mark = "" /\ sent.at = b.at => BoxSent(b, sent, <<>>)
<1>1. sent.at \in Places \cup {Nowhere}
  BY DEF Box
<1>2. Nowhere \in Places \cup {Nowhere}
  OBVIOUS
<1> QED
  BY <1>1, <1>2, ShortSeqs, Zenon DEF BoxSent

(* SendHostInfo comes by all the boxes there are.                          *)
LEMMA SendBox ==
  ASSUME NEW r \in Rects, NEW i \in Allies
  PROVE  BoxSent(r[i], Sent(r)[i], Commands(r)[i])
<1>1. r[i] \in Box /\ i <= i
  BY HostInfoAssumption DEF Rects, Allies
<1>2. NoBox \in Box /\ NoBox.mark = "" /\ NoBox.at = Nowhere
  BY DEF NoBox, Box
<1>3. r[i] # NoBox => i \in LookedAt(r)
  BY <1>1 DEF LookedAt
<1>4. CASE i \notin LookedAt(r)
  <2>1. r[i] = NoBox /\ Sent(r)[i] = NoBox /\ Commands(r)[i] = <<>>
    BY <1>3, <1>4 DEF Sent, Commands
  <2> QED
    BY <1>2, <2>1, OneCommand
<1>5. CASE i \in LookedAt(r)
  <2>1. Sent(r)[i] = Unmarked(r, i) /\ Commands(r)[i] = CommandsFor(r, i)
    BY <1>5 DEF Sent, Commands
  <2>2. CASE r[i].mark = "delete"
    <3>1. CommandsFor(r, i) = <<NoBox.at>> /\ Unmarked(r, i) = NoBox
      BY <1>2, <2>2 DEF CommandsFor, Unmarked, IsOk
    <3> QED
      BY <1>1, <1>2, <2>1, <3>1, OneCommand
  <2>3. CASE r[i] = NoBox
    <3>1. CommandsFor(r, i) = <<>> /\ Unmarked(r, i) = NoBox
      BY <1>2, <2>3 DEF CommandsFor, Unmarked, IsOk
    <3> QED
      BY <1>2, <2>1, <2>3, <3>1, OneCommand
  <2>4. CASE r[i] # NoBox /\ r[i].mark # "delete"
    <3> DEFINE sent == [r[i] EXCEPT !.mark = ""]
    <3>1. Unmarked(r, i) = sent
      BY <2>4 DEF Unmarked, IsOk
    <3>2. sent \in Box /\ sent.mark = "" /\ sent.at = r[i].at
      BY <1>1 DEF Box
    <3>3. r[i].mark \in {"", "add", "resize"}
      BY <1>1, <2>4 DEF Box
    <3>4. CommandsFor(r, i) =
            CASE r[i].mark = "add" -> <<sent.at>>
              [] r[i].mark = "resize" -> <<Nowhere, sent.at>>
              [] OTHER -> <<>>
      BY <2>4, <3>2, <3>3 DEF CommandsFor
    <3> HIDE DEF sent
    <3> QED
      BY <1>1, <2>1, <3>1, <3>2, <3>3, <3>4, OneCommand
  <2> QED
    BY <2>2, <2>3, <2>4
<1> QED
  BY <1>4, <1>5

(* The same for all boxes.                                                 *)
LEMMA SendType ==
  ASSUME NEW r \in Rects
  PROVE  Sent(r) \in Rects /\ Commands(r) \in Batch
<1>1. \A i \in Allies : Sent(r)[i] \in Box
  BY SendBox DEF BoxSent
<1>2. \A i \in Allies : Commands(r)[i] \in Seq(Places \cup {Nowhere})
  BY SendBox DEF BoxSent
<1>3. Sent(r) = [i \in Allies |-> Sent(r)[i]] /\ Commands(r) = [i \in Allies |-> Commands(r)[i]]
  BY Zenon DEF Sent, Commands
<1> QED
  BY <1>1, <1>2, <1>3, Zenon DEF Rects, Batch

(* The server's boxes after a batch.                                       *)
LEMMA ObeyType ==
  ASSUME NEW boxes \in Layouts, NEW batch \in Batch
  PROVE  Obey(boxes, batch) \in Layouts
<1>1. \A i \in Allies : batch[i] # <<>> =>
        batch[i][Len(batch[i])] \in Places \cup {Nowhere}
  <2> SUFFICES ASSUME NEW i \in Allies, batch[i] # <<>>
               PROVE  batch[i][Len(batch[i])] \in Places \cup {Nowhere}
    OBVIOUS
  <2>1. batch[i] \in Seq(Places \cup {Nowhere})
    BY DEF Batch
  <2> QED
    BY <2>1
<1> QED
  BY <1>1 DEF Obey, Layouts

(* The messages on their way after a batch.                                *)
LEMMA ToldType ==
  ASSUME NEW q \in Seq(Message), NEW batch \in Batch
  PROVE  /\ Told(q, batch) \in Seq(Message)
         /\ \/ Told(q, batch) = q /\ (~ proxy \/ batch = Nothing)
            \/ /\ Told(q, batch) = Append(q, [is |-> "boxes", of |-> batch])
               /\ proxy
<1>1. [is |-> "boxes", of |-> batch] \in Message
  BY DEF Message
<1> QED
  BY <1>1 DEF Told

(* Marking boxes changes nothing about the others.                         *)
LEMMA MarkLink ==
  ASSUME NEW r, NEW boxes, NEW q, BoxLink(r, boxes, q), NEW s \in Rects,
         \A i \in Allies : s[i].mark = "" => s[i] = r[i]
  PROVE  BoxLink(s, boxes, q)
  BY DEF BoxLink, BoxAgrees

(* SendHostInfo leaves no box unsent.                                      *)
LEMMA SendLink ==
  ASSUME NEW r, NEW boxes, NEW q, BoxLink(r, boxes, q)
  PROVE  BoxLink(Sent(r), Obey(boxes, Commands(r)), Told(q, Commands(r)))
<1> DEFINE batch == Commands(r)
<1>1. r \in Rects /\ boxes \in Layouts /\ q \in Seq(Message)
  BY DEF BoxLink
<1>2. Sent(r) \in Rects /\ batch \in Batch
  BY <1>1, SendType
<1>3. Obey(boxes, batch) \in Layouts
  BY <1>1, <1>2, ObeyType
<1>4. /\ Told(q, batch) \in Seq(Message)
      /\ \/ Told(q, batch) = q /\ (~ proxy \/ batch = Nothing)
         \/ Told(q, batch) = Append(q, [is |-> "boxes", of |-> batch]) /\ proxy
  BY <1>1, <1>2, ToldType
<1>5. ASSUME NEW i \in Allies
      PROVE  BoxAgrees(Sent(r), Obey(boxes, batch), Told(q, batch), i)
  <2>1. BoxAgrees(r, boxes, q, i)
    BY DEF BoxLink
  <2>2. CASE batch[i] = <<>>
    <3>1. Obey(boxes, batch)[i] = boxes[i]
      BY <2>2 DEF Obey
    <3>2. r[i].mark = "" /\ Sent(r)[i].at = r[i].at
      BY <1>1, <2>2, SendBox DEF BoxSent
    <3>3. CASE Told(q, batch) = q
      BY <2>1, <3>1, <3>2, <3>3 DEF BoxAgrees
    <3>4. CASE Told(q, batch) = Append(q, [is |-> "boxes", of |-> batch])
      <4> DEFINE t == Told(q, batch)
      <4>1. \A n \in DOMAIN q : n \in DOMAIN t /\ t[n] = q[n]
        BY <1>1, <3>4
      <4>2. \A n \in DOMAIN t : IsAbout(t[n], i) => n \in DOMAIN q
        BY <1>1, <2>2, <3>4 DEF IsAbout
      <4> HIDE DEF t
      <4> QED
        BY <2>1, <3>1, <3>2, <4>1, <4>2 DEF BoxAgrees, t
    <3> QED
      BY <1>4, <3>3, <3>4
  <2>3. CASE batch[i] # <<>>
    <3>1. Obey(boxes, batch)[i] = batch[i][Len(batch[i])]
      BY <2>3 DEF Obey
    <3>2. Obey(boxes, batch)[i] = Sent(r)[i].at
      BY <1>1, <2>3, <3>1, SendBox DEF BoxSent
    <3>3. CASE ~ proxy
      <4>1. Told(q, batch) = q /\ \A n \in DOMAIN q : q[n].is = "info"
        BY <3>3 DEF BoxLink, Told
      <4> QED
        BY <3>2, <4>1 DEF BoxAgrees, IsAbout
    <3>4. CASE Told(q, batch) = Append(q, [is |-> "boxes", of |-> batch])
      <4> DEFINE t == Told(q, batch)
      <4>1. /\ Len(q) + 1 \in DOMAIN t
            /\ t[Len(q) + 1] = [is |-> "boxes", of |-> batch]
            /\ \A n \in DOMAIN t : n = Len(q) + 1 \/ Len(q) + 1 > n
        BY <1>1, <3>4
      <4> HIDE DEF t, batch
      <4>2. IsAbout(t[Len(q) + 1], i) /\ t[Len(q) + 1].of[i] = batch[i]
        BY <2>3, <4>1 DEF IsAbout
      <4> DEFINE boxes2 == Obey(boxes, batch)
      <4>3. boxes2[i] = batch[i][Len(batch[i])] /\ boxes2[i] = Sent(r)[i].at
        BY <3>1, <3>2
      <4> HIDE DEF boxes2
      <4>4. BoxAgrees(Sent(r), boxes2, t, i)
        BY <4>1, <4>2, <4>3 DEF BoxAgrees
      <4> QED
        BY <4>4 DEF t, boxes2
    <3>5. batch # Nothing
      BY <2>3 DEF Nothing
    <3> QED
      BY <1>4, <3>3, <3>4, <3>5
  <2> QED
    BY <2>2, <2>3
<1>6. ~ proxy => \A n \in DOMAIN Told(q, batch) : Told(q, batch)[n].is = "info"
  BY DEF BoxLink, Told
<1> HIDE DEF batch
<1> QED
  BY <1>2, <1>3, <1>4, <1>5, <1>6 DEF BoxLink, batch

(* The map and the lock are sent after the boxes.                          *)
LEMMA InfoBoxes ==
  ASSUME NEW r, NEW boxes, NEW q, BoxLink(r, boxes, q),
         NEW map \in Maps, NEW lock \in BOOLEAN
  PROVE  BoxLink(r, boxes, Append(q, Info(map, lock)))
<1> DEFINE t == Append(q, Info(map, lock))
<1>1. q \in Seq(Message) /\ Info(map, lock) \in Message /\ Info(map, lock).is = "info"
  BY DEF BoxLink, Info, Message
<1>2. /\ t \in Seq(Message)
      /\ \A n \in DOMAIN q : n \in DOMAIN t /\ t[n] = q[n]
      /\ \A n \in DOMAIN t : n \in DOMAIN q \/ t[n].is = "info"
  BY <1>1
<1> HIDE DEF t
<1>3. ASSUME NEW i \in Allies
      PROVE  BoxAgrees(r, boxes, t, i)
  <2>1. BoxAgrees(r, boxes, q, i)
    BY DEF BoxLink
  <2>2. \A n \in DOMAIN t : IsAbout(t[n], i) => n \in DOMAIN q
    BY <1>2 DEF IsAbout
  <2> QED
    BY <1>2, <2>1, <2>2 DEF BoxAgrees
<1>4. ~ proxy => \A n \in DOMAIN t : t[n].is = "info"
  BY <1>2 DEF BoxLink
<1> QED
  BY <1>2, <1>3, <1>4 DEF BoxLink, t

(* A layout takes the place of the boxes.                                  *)
LEMMA ReplaceLink ==
  ASSUME NEW r, NEW boxes, NEW q, BoxLink(r, boxes, q), NEW layout \in Layouts
  PROVE  /\ BoxLink(Replaced(r, layout), ObeyReplaced(boxes, r, layout),
                    ToldReplaced(q, r, layout))
         /\ \A i \in Allies : Replaced(r, layout)[i].mark = ""
<1>1. r \in Rects
  BY DEF BoxLink
<1>2. RemoveAll(r) \in Rects /\ \A i \in Allies : RemoveAll(r)[i].mark = "" => RemoveAll(r)[i] = r[i]
  BY <1>1 DEF RemoveAll, Rects, Box, NoBox
<1>3. BoxLink(RemoveAll(r), boxes, q)
  BY <1>2, MarkLink
<1> DEFINE sent == Sent(RemoveAll(r))
           obeyed == Obey(boxes, Commands(RemoveAll(r)))
           told == Told(q, Commands(RemoveAll(r)))
<1>4. BoxLink(sent, obeyed, told)
  BY <1>3, SendLink
<1>5. sent \in Rects
  BY <1>4 DEF BoxLink
<1> HIDE DEF sent, obeyed, told
<1>6. AddAll(sent, layout) \in Rects
  BY <1>5 DEF AddAll, Rects, Box, Layouts
<1>7. \A i \in Allies : AddAll(sent, layout)[i].mark = "" => AddAll(sent, layout)[i] = sent[i]
  BY DEF AddAll
<1>8. BoxLink(AddAll(sent, layout), obeyed, told)
  BY <1>4, <1>6, <1>7, MarkLink
<1>9. Refilled(r, layout) = AddAll(sent, layout)
  BY DEF Refilled, sent
<1>10. BoxLink(Sent(Refilled(r, layout)), Obey(obeyed, Commands(Refilled(r, layout))),
               Told(told, Commands(Refilled(r, layout))))
  BY <1>8, <1>9, SendLink
<1>11. \A i \in Allies : Sent(Refilled(r, layout))[i].mark = ""
  BY <1>6, <1>9, SendBox DEF BoxSent
<1> QED
  BY <1>10, <1>11 DEF Replaced, ObeyReplaced, ToldReplaced, obeyed, told
-----------------------------------------------------------------------------
(* Boxes say nothing about the map.                                        *)
LEMMA ToldInfo ==
  ASSUME NEW q \in Seq(Message), NEW batch \in Batch, NEW map, NEW lock, NEW heard,
         NEW heardLock
  PROVE  /\ Told(q, batch) \in Seq(Message)
         /\ InfoLink(q, map, lock, heard, heardLock) =>
              InfoLink(Told(q, batch), map, lock, heard, heardLock)
         /\ MapLink(q, map, heard) => MapLink(Told(q, batch), map, heard)
<1> DEFINE t == Told(q, batch)
<1>1. t \in Seq(Message)
  BY ToldType
<1>2. /\ \A n \in DOMAIN q : n \in DOMAIN t /\ t[n] = q[n]
      /\ \A n \in DOMAIN t : t[n].is = "info" => n \in DOMAIN q
  <2>1. CASE t = q
    BY <2>1
  <2>2. CASE t = Append(q, [is |-> "boxes", of |-> batch])
    BY <2>2
  <2> QED
    BY <2>1, <2>2, ToldType
<1> HIDE DEF t
<1>3. InfoLink(q, map, lock, heard, heardLock) => InfoLink(t, map, lock, heard, heardLock)
  BY <1>2 DEF InfoLink
<1>4. MapLink(q, map, heard) => MapLink(t, map, heard)
  BY <1>2 DEF MapLink
<1> QED
  BY <1>1, <1>3, <1>4 DEF t

(* What is sent last is what the server has.                               *)
LEMMA AppendInfo ==
  ASSUME NEW q \in Seq(Message), NEW map \in Maps, NEW lock \in BOOLEAN, NEW heard,
         NEW heardLock
  PROVE  /\ Append(q, Info(map, lock)) \in Seq(Message)
         /\ InfoLink(Append(q, Info(map, lock)), map, lock, heard, heardLock)
         /\ MapLink(Append(q, Info(map, lock)), map, heard)
<1> DEFINE t == Append(q, Info(map, lock))
<1>1. /\ Info(map, lock) \in Message /\ Info(map, lock).is = "info"
      /\ Info(map, lock).map = map /\ Info(map, lock).lock = lock
  BY DEF Info, Message
<1>2. /\ t \in Seq(Message)
      /\ Len(q) + 1 \in DOMAIN t /\ t[Len(q) + 1] = Info(map, lock)
      /\ \A n \in DOMAIN t : n = Len(q) + 1 \/ Len(q) + 1 > n
  BY <1>1
<1> HIDE DEF t
<1>3. InfoLink(t, map, lock, heard, heardLock)
  BY <1>1, <1>2 DEF InfoLink
<1>4. MapLink(t, map, heard)
  BY <1>1, <1>2 DEF MapLink
<1> QED
  BY <1>2, <1>3, <1>4 DEF t

(* A replacement sends boxes only.                                         *)
LEMMA ReplacedInfo ==
  ASSUME NEW r, NEW boxes, NEW q, BoxLink(r, boxes, q), NEW layout \in Layouts,
         NEW map, NEW lock, NEW heard, NEW heardLock
  PROVE  /\ InfoLink(q, map, lock, heard, heardLock) =>
              InfoLink(ToldReplaced(q, r, layout), map, lock, heard, heardLock)
         /\ MapLink(q, map, heard) => MapLink(ToldReplaced(q, r, layout), map, heard)
<1>1. r \in Rects /\ q \in Seq(Message)
  BY DEF BoxLink
<1>2. RemoveAll(r) \in Rects
  BY <1>1 DEF RemoveAll, Rects, Box, NoBox
<1>3. Sent(RemoveAll(r)) \in Rects /\ Commands(RemoveAll(r)) \in Batch
  BY <1>2, SendType
<1>4. Refilled(r, layout) \in Rects
  BY <1>3 DEF Refilled, AddAll, Rects, Box, Layouts
<1>5. Commands(Refilled(r, layout)) \in Batch
  BY <1>4, SendType
<1>6. Told(q, Commands(RemoveAll(r))) \in Seq(Message)
  BY <1>1, <1>3, ToldType
<1> QED
  BY <1>1, <1>3, <1>5, <1>6, ToldInfo DEF ToldReplaced
-----------------------------------------------------------------------------
(* Each link, for the next state.                                          *)
LEMMA NextLinks ==
  ASSUME proxy' = proxy,
         BoxLink(rects', srv'.boxes, in'),
         InfoLink(in', srv'.map, srv'.lock, hostMap', locked'),
         MapLink(in', localMap', hostMap')
  PROVE  Links'
  BY DEF Links, BoxLink, BoxAgrees, IsAbout, Allies, InfoLink, MapLink, Rects, Box,
         Layouts, Message, Batch

(* An edit that leaves the map and the lock alone and sends the boxes r.   *)
LEMMA RectsLinks ==
  ASSUME IInv, NEW r \in Rects, SendRects(r),
         UNCHANGED <<proxy, running, local, saved>>, edits' \in 0 .. MaxEdits,
         dragged' \in Allies \cup {None},
         \A i \in Allies : r[i].mark = "" => r[i] = rects[i]
  PROVE  IInv'
<1>1. BoxLink(rects, srv.boxes, in) /\ rects \in Rects /\ in \in Seq(Message)
  BY DEF IInv, Links, BoxLink
<1>2. BoxLink(r, srv.boxes, in)
  BY <1>1, MarkLink
<1>3. Commands(r) \in Batch /\ Obey(srv.boxes, Commands(r)) \in Layouts
  BY SendType, ObeyType DEF IInv, RestOK
<1>4. /\ srv' \in [map : Maps, lock : BOOLEAN, boxes : Layouts]
      /\ srv'.boxes = Obey(srv.boxes, Commands(r))
      /\ srv'.map = srv.map /\ srv'.lock = srv.lock
  BY <1>3 DEF IInv, RestOK, SendRects
<1>5. BoxLink(rects', srv'.boxes, in')
  BY <1>2, <1>4, SendLink DEF SendRects
<1>6. /\ InfoLink(in', srv'.map, srv'.lock, hostMap', locked')
      /\ MapLink(in', localMap', hostMap')
  <2>1. InfoLink(in, srv.map, srv.lock, hostMap, locked) /\ MapLink(in, localMap, hostMap)
    BY DEF IInv, Links
  <2>2. UNCHANGED <<localMap, hostMap, locked>>
    BY DEF local
  <2> QED
    BY <1>1, <1>3, <1>4, <2>1, <2>2, ToldInfo DEF SendRects
<1>7. \A i \in Allies : rects'[i].mark = ""
  BY SendBox DEF SendRects, BoxSent
<1>8. Links'
  BY <1>5, <1>6, NextLinks
<1>9. OnlyDragsWait'
  BY <1>7 DEF OnlyDragsWait, Allies
<1>10. RestOK'
  BY <1>4 DEF IInv, RestOK, local, Allies, Layouts
<1> QED
  BY <1>8, <1>9, <1>10 DEF IInv

(* An edit that sends the map and the lock without any boxes, or nothing.  *)
LEMMA OnLockInv ==
  ASSUME IInv, NEW lock \in BOOLEAN, OnLock(lock)
  PROVE  IInv'
<1>1. /\ srv'.boxes = srv.boxes /\ srv'.map = localMap /\ srv'.lock = lock
      /\ srv' \in [map : Maps, lock : BOOLEAN, boxes : Layouts]
      /\ edits' \in 0 .. MaxEdits /\ localMap \in Maps
  <2>1. edits' \in 0 .. MaxEdits
    BY HostInfoAssumption DEF IInv, RestOK, OnLock, Edit
  <2> QED
    BY <2>1 DEF IInv, RestOK, OnLock
<1>2. BoxLink(rects, srv.boxes, in) /\ in \in Seq(Message)
  BY DEF IInv, Links, BoxLink
<1>3. BoxLink(rects', srv'.boxes, in')
  BY <1>1, <1>2, InfoBoxes DEF OnLock
<1>4. /\ InfoLink(in', srv'.map, srv'.lock, hostMap', locked')
      /\ MapLink(in', localMap', hostMap')
  BY <1>1, <1>2, AppendInfo DEF OnLock
<1>5. Links'
  BY <1>3, <1>4, NextLinks DEF OnLock
<1>6. RestOK' /\ OnlyDragsWait'
  BY <1>1 DEF IInv, RestOK, OnlyDragsWait, OnLock, Allies, Layouts
<1> QED
  BY <1>5, <1>6 DEF IInv

(* A map with its boxes.                                                   *)
LEMMA SetMapInv ==
  ASSUME IInv, NEW m \in Maps, SetMap(m)
  PROVE  IInv'
<1> USE DEF SetMap, LoadMapDefaults
<1>1. edits' \in 0 .. MaxEdits
  BY HostInfoAssumption DEF IInv, RestOK, Edit
<1>2. BoxLink(rects, srv.boxes, in) /\ saved[m] \in Layouts /\ locked \in BOOLEAN
  BY DEF IInv, Links, RestOK
<1> DEFINE q == ToldReplaced(in, rects, saved[m])
           boxes == ObeyReplaced(srv.boxes, rects, saved[m])
<1>3. BoxLink(rects', boxes, q) /\ \A i \in Allies : rects'[i].mark = ""
  BY <1>2, ReplaceLink
<1> HIDE DEF q, boxes
<1>4. /\ srv'.boxes = boxes /\ srv'.map = m /\ srv'.lock = locked
      /\ in' = Append(q, Info(m, locked))
  BY DEF boxes, q
<1>5. BoxLink(rects', srv'.boxes, in')
  BY <1>2, <1>3, <1>4, InfoBoxes
<1>6. q \in Seq(Message) /\ boxes \in Layouts
  BY <1>3 DEF BoxLink
<1>7. /\ InfoLink(in', srv'.map, srv'.lock, hostMap', locked')
      /\ MapLink(in', localMap', hostMap')
  BY <1>2, <1>4, <1>6, AppendInfo
<1>8. Links'
  BY <1>5, <1>7, NextLinks
<1>9. OnlyDragsWait'
  BY <1>3 DEF OnlyDragsWait, Allies
<1>10. srv' \in [map : Maps, lock : BOOLEAN, boxes : Layouts]
  BY <1>2, <1>6 DEF boxes
<1>11. RestOK'
  BY <1>1, <1>10 DEF IInv, RestOK, Allies, Layouts
<1> QED
  BY <1>8, <1>9, <1>11 DEF IInv

(* A profile: a map with its boxes, and other boxes.                       *)
LEMMA LoadPresetInv ==
  ASSUME IInv, NEW m \in Maps, NEW layout \in Layouts, LoadOptionsPreset(m, layout)
  PROVE  IInv'
<1> USE DEF LoadOptionsPreset
<1>1. edits' \in 0 .. MaxEdits
  BY HostInfoAssumption DEF IInv, RestOK, Edit
<1>2. BoxLink(rects, srv.boxes, in) /\ saved[m] \in Layouts /\ locked \in BOOLEAN
  BY DEF IInv, Links, RestOK
<1> DEFINE mapped == Replaced(rects, saved[m])
           boxes == ObeyReplaced(srv.boxes, rects, saved[m])
           q == ToldReplaced(in, rects, saved[m])
           t == Append(q, Info(m, locked))
<1>3. BoxLink(mapped, boxes, q)
  BY <1>2, ReplaceLink
<1>4. rects' = Replaced(mapped, layout)
      /\ srv' = [map |-> m, lock |-> locked,
                 boxes |-> ObeyReplaced(boxes, mapped, layout)]
      /\ in' = ToldReplaced(t, mapped, layout)
  OBVIOUS
<1>5. q \in Seq(Message)
  BY <1>3 DEF BoxLink
<1> HIDE DEF mapped, boxes, q
<1>6. BoxLink(mapped, boxes, t)
  BY <1>2, <1>3, InfoBoxes
<1>7. InfoLink(t, m, locked, hostMap, locked) /\ MapLink(t, m, hostMap)
  BY <1>2, <1>5, AppendInfo
<1> HIDE DEF t
<1>8. /\ BoxLink(rects', srv'.boxes, in')
      /\ \A i \in Allies : rects'[i].mark = ""
  <2>1. srv'.boxes = ObeyReplaced(boxes, mapped, layout)
    BY <1>4
  <2> QED
    BY <1>4, <1>6, <2>1, ReplaceLink
<1>9. /\ InfoLink(in', srv'.map, srv'.lock, hostMap', locked')
      /\ MapLink(in', localMap', hostMap')
  BY <1>4, <1>6, <1>7, ReplacedInfo
<1>10. Links'
  BY <1>8, <1>9, NextLinks
<1>11. OnlyDragsWait'
  BY <1>8 DEF OnlyDragsWait, Allies
<1>12. srv' \in [map : Maps, lock : BOOLEAN, boxes : Layouts]
  <2>1. srv'.boxes \in Layouts
    BY <1>8 DEF BoxLink
  <2> QED
    BY <1>2, <1>4, <2>1
<1>13. RestOK'
  BY <1>1, <1>12 DEF IInv, RestOK, Allies, Layouts
<1> QED
  BY <1>10, <1>11, <1>13 DEF IInv

(* The edits that mark one box and send it.                                *)
LEMMA MarkType ==
  ASSUME NEW r \in Rects, NEW i \in Allies, NEW mark \in {"resize", "delete"}
  PROVE  /\ Mark(r, i, mark) \in Rects
         /\ \A j \in Allies : Mark(r, i, mark)[j].mark = "" => Mark(r, i, mark)[j] = r[j]
<1>1. CASE r[i] = NoBox
  BY <1>1 DEF Mark
<1>2. CASE r[i] # NoBox
  BY <1>2 DEF Mark, Rects, Box
<1> QED
  BY <1>1, <1>2

(* A box that is added changes no other that is not marked.                *)
LEMMA AddType ==
  ASSUME NEW r \in Rects, NEW i \in Allies, NEW place \in Places
  PROVE  /\ AddStartRect(r, i, place) \in Rects
         /\ \A j \in Allies : AddStartRect(r, i, place)[j].mark = "" =>
              AddStartRect(r, i, place)[j] = r[j]
  BY DEF AddStartRect, Rects, Box

(* The host's edits of boxes.                                              *)
LEMMA BoxEdits ==
  ASSUME IInv,
         \/ \E place \in Places : AddBox(place) \/ AddBoxCommand(place)
         \/ \E i \in Allies : RemoveBox(i)
         \/ OnLeftUp
  PROVE  IInv'
<1>1. rects \in Rects /\ dragged \in Allies \cup {None}
  BY DEF IInv, Links, BoxLink, RestOK
<1>2. ASSUME Edit
      PROVE  edits' \in 0 .. MaxEdits
  BY <1>2, HostInfoAssumption DEF IInv, RestOK, Edit
<1>3. ASSUME NEW place \in Places, AddBox(place)
      PROVE  IInv'
  <2>1. PICK free \in Allies : SendRects(AddStartRect(rects, free, place))
    BY <1>3 DEF AddBox
  <2> QED
    BY <1>1, <1>2, <1>3, <2>1, AddType, RectsLinks DEF AddBox
<1>4. ASSUME NEW place \in Places, AddBoxCommand(place)
      PROVE  IInv'
  <2>1. CASE UNCHANGED <<rects, srv, in>>
    BY <1>2, <1>4, <2>1, NextLinks
    DEF AddBoxCommand, IInv, RestOK, OnlyDragsWait, Links, Allies, Layouts, local
  <2>2. CASE \E ally \in Allies : SendRects(AddStartRect(rects, ally, place)) /\ UNCHANGED running
    <3>1. PICK ally \in Allies :
            SendRects(AddStartRect(rects, ally, place)) /\ UNCHANGED running
      BY <2>2
    <3> QED
      BY <1>1, <1>2, <1>4, <3>1, AddType, RectsLinks DEF AddBoxCommand
  <2> QED
    BY <1>4, <2>1, <2>2 DEF AddBoxCommand
<1>5. ASSUME NEW i \in Allies, RemoveBox(i)
      PROVE  IInv'
  <2>1. SendRects(Mark(rects, i, "delete"))
    BY <1>5 DEF RemoveBox, RemoveStartRect
  <2> QED
    BY <1>1, <1>2, <1>5, <2>1, MarkType, RectsLinks DEF RemoveBox
<1>6. CASE OnLeftUp
  <2>1. dragged \in Allies /\ dragged' = None
    BY <1>1, <1>6 DEF OnLeftUp
  <2>2. PICK r \in {rects, Mark(rects, dragged, "resize")} : SendRects(r)
    BY <1>6 DEF OnLeftUp, ResizeStartRect
  <2>3. r \in Rects /\ \A i \in Allies : r[i].mark = "" => r[i] = rects[i]
    <3>1. CASE r = rects
      BY <1>1, <3>1
    <3>2. CASE r = Mark(rects, dragged, "resize")
      BY <1>1, <2>1, <3>2, MarkType
    <3> QED
      BY <2>2, <3>1, <3>2
  <2> QED
    BY <1>2, <1>6, <2>1, <2>2, <2>3, RectsLinks DEF OnLeftUp
<1> QED
  BY <1>3, <1>4, <1>5, <1>6

(* What the host does without sending anything.  A drag leaves a mark.     *)
LEMMA QuietEdits ==
  ASSUME IInv,
         \/ SaveMapDefaults
         \/ \E i \in Allies : OnLeftDown(i)
         \/ \E place \in Places : OnMouseMove(place)
  PROVE  IInv'
<1>1. rects \in Rects
  BY DEF IInv, Links, BoxLink
<1>2. ASSUME Edit
      PROVE  edits' \in 0 .. MaxEdits
  BY <1>2, HostInfoAssumption DEF IInv, RestOK, Edit
<1>3. CASE SaveMapDefaults
  <2>1. Layout(rects) \in Layouts
    BY <1>1 DEF Layout, Layouts, Rects, Box
  <2>2. saved' \in [Maps -> Layouts]
    BY <1>3, <2>1 DEF SaveMapDefaults, IInv, RestOK
  <2> QED
    BY <1>2, <1>3, <2>2, NextLinks
    DEF SaveMapDefaults, IInv, RestOK, OnlyDragsWait, Links, Allies, Layouts, local
<1>4. ASSUME NEW i \in Allies, OnLeftDown(i)
      PROVE  IInv'
  BY <1>4, NextLinks
  DEF OnLeftDown, IInv, RestOK, OnlyDragsWait, Links, Allies, Layouts, local
<1>5. ASSUME NEW place \in Places, OnMouseMove(place)
      PROVE  IInv'
  <2>1. dragged \in Allies
    BY <1>5 DEF OnMouseMove, IInv, RestOK
  <2>2. rects' \in Rects /\ \A i \in Allies : rects'[i].mark = "" => rects'[i] = rects[i]
    BY <1>1, <1>5, <2>1 DEF OnMouseMove, Rects, Box
  <2>3. BoxLink(rects', srv.boxes, in)
    BY <2>2, MarkLink DEF IInv, Links
  <2>4. Links'
    BY <1>5, <2>3, NextLinks DEF OnMouseMove, IInv, Links, local
  <2>5. OnlyDragsWait'
    BY <1>1, <1>5, <2>1 DEF OnMouseMove, IInv, OnlyDragsWait, Rects, Allies
  <2> QED
    BY <1>2, <1>5, <2>4, <2>5 DEF OnMouseMove, IInv, RestOK, Allies, Layouts, local
<1> QED
  BY <1>3, <1>4, <1>5
-----------------------------------------------------------------------------
(* The messages after the first.                                           *)
LEMMA TailMessages ==
  ASSUME NEW q \in Seq(Message), q # <<>>
  PROVE  /\ Tail(q) \in Seq(Message) /\ Head(q) = q[1] /\ Head(q) \in Message
         /\ 1 \in DOMAIN q
         /\ \A n \in DOMAIN Tail(q) : n + 1 \in DOMAIN q /\ Tail(q)[n] = q[n + 1]
         /\ \A n \in DOMAIN q : n # 1 => n - 1 \in DOMAIN Tail(q) /\ q[n] = Tail(q)[n - 1]
         /\ \A n, k \in DOMAIN Tail(q) : k > n <=> k + 1 > n + 1
         /\ \A n \in DOMAIN q : n = 1 \/ n > 1
  OBVIOUS

(* A message that says nothing about a box is taken off.                   *)
LEMMA TailOther ==
  ASSUME NEW r, NEW boxes, NEW q \in Seq(Message), q # <<>>, NEW i \in Allies,
         BoxAgrees(r, boxes, q, i), ~ IsAbout(Head(q), i),
         NEW s, s[i] = r[i]
  PROVE  BoxAgrees(s, boxes, Tail(q), i)
<1> DEFINE t == Tail(q)
<1>1. /\ \A n \in DOMAIN t : n + 1 \in DOMAIN q /\ t[n] = q[n + 1]
      /\ \A n \in DOMAIN q : IsAbout(q[n], i) => n - 1 \in DOMAIN t /\ q[n] = t[n - 1]
      /\ \A n \in DOMAIN q, k \in DOMAIN t : n > k + 1 <=> n - 1 > k
  <2>1. \A n \in DOMAIN q, k \in DOMAIN t : n > k + 1 <=> n - 1 > k
    OBVIOUS
  <2> QED
    BY <2>1, TailMessages
<1> HIDE DEF t
<1>2. ASSUME NEW n \in DOMAIN t, IsAbout(t[n], i),
             \A k \in DOMAIN t : k > n => ~ IsAbout(t[k], i)
      PROVE  boxes[i] = t[n].of[i][Len(t[n].of[i])]
  <2>1. n + 1 \in DOMAIN q /\ q[n + 1] = t[n]
    BY <1>1
  <2>2. \A k \in DOMAIN q : k > n + 1 => ~ IsAbout(q[k], i)
    BY <1>1, <1>2
  <2> QED
    BY <1>2, <2>1, <2>2 DEF BoxAgrees
<1>3. ASSUME s[i].mark = "", \A n \in DOMAIN t : ~ IsAbout(t[n], i)
      PROVE  boxes[i] = s[i].at
  <2>1. \A n \in DOMAIN q : ~ IsAbout(q[n], i)
    BY <1>1, <1>3
  <2> QED
    BY <1>3, <2>1 DEF BoxAgrees
<1> QED
  BY <1>2, <1>3 DEF BoxAgrees, t

(* The first message about the box at i is taken from the first batch.     *)
Left(q, i) == [Head(q).of EXCEPT ![i] = Tail(@)]
Taken(q, i) == [q EXCEPT ![1].of = Left(q, i)]

(* They are messages again.                                                *)
LEMMA TakenType ==
  ASSUME NEW q \in Seq(Message), q # <<>>, Head(q).is = "boxes", NEW i \in Allies,
         Head(q).of[i] # <<>>
  PROVE  /\ Left(q, i) \in Batch
         /\ Left(q, i)[i] = Tail(Head(q).of[i])
         /\ \A j \in Allies : j # i => Left(q, i)[j] = Head(q).of[j]
         /\ Taken(q, i) \in Seq(Message) /\ Taken(q, i) # <<>>
         /\ DOMAIN Taken(q, i) = DOMAIN q
         /\ Head(Taken(q, i)).is = "boxes" /\ Head(Taken(q, i)).of = Left(q, i)
         /\ Taken(q, i)[1] = Head(Taken(q, i))
         /\ \A n \in DOMAIN q : n # 1 => Taken(q, i)[n] = q[n]
         /\ Tail(Taken(q, i)) = Tail(q)
<1>1. q[1] = Head(q) /\ 1 \in DOMAIN q /\ q[1] \in Message
  BY TailMessages
<1>2. q[1] \in [is : {"boxes"}, of : Batch]
  BY <1>1 DEF Message
<1>3. Head(q).of \in Batch /\ Head(q).of[i] \in Seq(Places \cup {Nowhere})
  BY <1>1, <1>2 DEF Batch
<1>4. Tail(Head(q).of[i]) \in Seq(Places \cup {Nowhere})
  BY <1>3
<1>5. /\ Left(q, i) \in Batch
      /\ Left(q, i)[i] = Tail(Head(q).of[i])
      /\ \A j \in Allies : j # i => Left(q, i)[j] = Head(q).of[j]
  BY <1>3, <1>4 DEF Left, Batch
<1> DEFINE c == [q[1] EXCEPT !.of = Left(q, i)]
<1>6. c \in Message /\ c.is = "boxes" /\ c.of = Left(q, i)
  BY <1>1, <1>2, <1>5 DEF Message
<1>7. Taken(q, i) = [q EXCEPT ![1] = c]
  BY DEF Taken
<1> HIDE DEF c
<1>8. /\ [q EXCEPT ![1] = c] \in Seq(Message) /\ [q EXCEPT ![1] = c] # <<>>
      /\ DOMAIN [q EXCEPT ![1] = c] = DOMAIN q
      /\ [q EXCEPT ![1] = c][1] = c /\ Head([q EXCEPT ![1] = c]) = c
      /\ \A n \in DOMAIN q : n # 1 => [q EXCEPT ![1] = c][n] = q[n]
  BY <1>1, <1>6
<1>9. Tail([q EXCEPT ![1] = c]) = Tail(q)
  <2> DEFINE t == [q EXCEPT ![1] = c]
  <2>1. t \in Seq(Message) /\ Len(t) = Len(q) /\ t # <<>>
    BY <1>1, <1>6
  <2>2. \A n \in DOMAIN Tail(q) : n + 1 \in DOMAIN q /\ n + 1 # 1 /\ Tail(q)[n] = q[n + 1]
    OBVIOUS
  <2> HIDE DEF t
  <2>3. DOMAIN Tail(t) = DOMAIN Tail(q) /\ \A n \in DOMAIN Tail(q) : Tail(t)[n] = t[n + 1]
    BY <2>1
  <2>4. \A n \in DOMAIN Tail(q) : Tail(t)[n] = Tail(q)[n]
    BY <1>8, <2>2, <2>3 DEF t
  <2>5. Tail(t) \in Seq(Message) /\ Tail(q) \in Seq(Message)
    BY <2>1
  <2> QED
    BY <2>3, <2>4, <2>5 DEF t
<1> QED
  BY <1>5, <1>6, <1>7, <1>8, <1>9

(* The last element of what is left of a sequence.                         *)
LEMMA TailLast ==
  ASSUME NEW S, NEW c \in Seq(S), c # <<>>
  PROVE  /\ Tail(c) # <<>> => Tail(c)[Len(Tail(c))] = c[Len(c)]
         /\ Tail(c) = <<>> => c[Len(c)] = Head(c)
<1>1. Len(c) \in Nat /\ Len(c) >= 1 /\ Len(Tail(c)) = Len(c) - 1
  OBVIOUS
<1>2. CASE Tail(c) # <<>>
  <2>1. Len(Tail(c)) \in 1 .. Len(Tail(c))
    BY <1>1, <1>2
  <2> QED
    BY <1>1, <1>2, <2>1
<1>3. CASE Tail(c) = <<>>
  <2>1. Len(c) = 1
    BY <1>1, <1>3
  <2> QED
    BY <1>3, <2>1
<1> QED
  BY <1>2, <1>3

(* With the first message about a box the host has what it says.           *)
LEMMA TakenAgrees ==
  ASSUME NEW r, NEW boxes, NEW q \in Seq(Message), q # <<>>, NEW i \in Allies,
         Head(q).is = "boxes", Head(q).of[i] # <<>>,
         NEW s, s[i].at = Head(Head(q).of[i]),
         NEW j \in Allies, j # i => s[j] = r[j], BoxAgrees(r, boxes, q, j)
  PROVE  BoxAgrees(s, boxes, Taken(q, i), j)
<1> DEFINE t == Taken(q, i)
           b == Head(q).of
           left == Left(q, i)
<1>1. /\ left[i] = Tail(b[i]) /\ \A k \in Allies : k # i => left[k] = b[k]
      /\ DOMAIN t = DOMAIN q
      /\ t[1].is = "boxes" /\ t[1].of = left
      /\ \A n \in DOMAIN q : n # 1 => t[n] = q[n]
  BY TakenType
<1>2. q[1] = Head(q) /\ 1 \in DOMAIN q /\ \A n \in DOMAIN q : n = 1 \/ n > 1
  BY TailMessages
<1>3. b[i] \in Seq(Places \cup {Nowhere}) /\ b[i] # <<>>
  BY <1>2, TailMessages DEF Message, Batch
<1> HIDE DEF t, left
<1>4. /\ left[i] # <<>> => left[i][Len(left[i])] = b[i][Len(b[i])]
      /\ left[i] = <<>> => b[i][Len(b[i])] = Head(b[i])
  <2> HIDE DEF b
  <2> QED
    BY <1>1, <1>3, TailLast
<1>5. IsAbout(q[1], i) /\ q[1].of = b
  BY <1>2 DEF IsAbout
<1>6. IsAbout(t[1], j) <=> left[j] # <<>>
  BY <1>1 DEF IsAbout
<1>7. IsAbout(q[1], j) <=> b[j] # <<>>
  BY <1>2 DEF IsAbout
<1>8. s[i].at = Head(b[i])
  OBVIOUS
<1> HIDE DEF b
<1>9. CASE j # i
  <2>1. \A n \in DOMAIN q : IsAbout(t[n], j) <=> IsAbout(q[n], j)
    BY <1>1, <1>6, <1>7, <1>9
  <2>2. \A n \in DOMAIN q : t[n].of[j] = q[n].of[j]
    BY <1>1, <1>5, <1>9
  <2>3. s[j] = r[j]
    BY <1>9
  <2>4. ASSUME NEW n \in DOMAIN t, IsAbout(t[n], j),
               \A k \in DOMAIN t : k > n => ~ IsAbout(t[k], j)
        PROVE  boxes[j] = t[n].of[j][Len(t[n].of[j])]
    <3>1. boxes[j] = q[n].of[j][Len(q[n].of[j])]
      BY <1>1, <2>1, <2>4 DEF BoxAgrees
    <3> QED
      BY <1>1, <2>2, <2>4, <3>1
  <2>5. (\A n \in DOMAIN t : ~ IsAbout(t[n], j)) =>
          \A n \in DOMAIN q : ~ IsAbout(q[n], j)
    BY <1>1, <2>1
  <2>6. BoxAgrees(s, boxes, t, j)
    BY <2>3, <2>4, <2>5 DEF BoxAgrees
  <2> QED
    BY <2>6 DEF t
<1>10. CASE j = i /\ left[i] # <<>>
  <2>1. \A n \in DOMAIN q : IsAbout(t[n], i) <=> IsAbout(q[n], i)
    BY <1>1, <1>5, <1>6, <1>10
  <2>2. \A n \in DOMAIN q :
          t[n].of[i][Len(t[n].of[i])] = q[n].of[i][Len(q[n].of[i])]
    BY <1>1, <1>4, <1>5, <1>10
  <2>3. IsAbout(t[1], i) /\ 1 \in DOMAIN t
    BY <1>1, <1>2, <1>6, <1>10
  <2>4. BoxAgrees(s, boxes, t, i)
    BY <1>1, <1>10, <2>1, <2>2, <2>3 DEF BoxAgrees
  <2> QED
    BY <1>10, <2>4 DEF t
<1>11. CASE j = i /\ left[i] = <<>>
  <2>1. \A n \in DOMAIN q : IsAbout(t[n], i) <=> n # 1 /\ IsAbout(q[n], i)
    BY <1>1, <1>6, <1>11
  <2>2. s[i].at = b[i][Len(b[i])]
    BY <1>4, <1>8, <1>11
  <2>3. (\A n \in DOMAIN q : n > 1 => ~ IsAbout(q[n], i)) => boxes[i] = b[i][Len(b[i])]
    BY <1>2, <1>5, <1>11 DEF BoxAgrees
  <2>4. \A n \in DOMAIN q : n > 1 => n # 1
    BY <1>2
  <2>5. (\A n \in DOMAIN t : ~ IsAbout(t[n], i)) => boxes[i] = s[i].at
    <3>1. (\A n \in DOMAIN t : ~ IsAbout(t[n], i)) =>
            \A n \in DOMAIN q : n > 1 => ~ IsAbout(q[n], i)
      BY <1>1, <2>1, <2>4
    <3> QED
      BY <2>2, <2>3, <3>1
  <2>6. ASSUME NEW n \in DOMAIN t, IsAbout(t[n], i),
               \A k \in DOMAIN t : k > n => ~ IsAbout(t[k], i)
        PROVE  boxes[i] = t[n].of[i][Len(t[n].of[i])]
    <3>1. n \in DOMAIN q /\ n > 1 /\ t[n] = q[n] /\ IsAbout(q[n], i)
      BY <1>1, <1>2, <2>1, <2>6
    <3>2. \A k \in DOMAIN q : k > n => k # 1
      <4>1. \A k \in DOMAIN q : k > n => k > 1
        BY <1>2, <3>1
      <4> QED
        BY <2>4, <4>1
    <3>3. \A k \in DOMAIN q : k > n => ~ IsAbout(q[k], i)
      BY <1>1, <2>1, <2>6, <3>2
    <3>4. boxes[i] = q[n].of[i][Len(q[n].of[i])]
      BY <1>11, <3>1, <3>3 DEF BoxAgrees
    <3> QED
      BY <3>1, <3>4
  <2>7. BoxAgrees(s, boxes, t, i)
    BY <2>5, <2>6 DEF BoxAgrees
  <2> QED
    BY <1>11, <2>7 DEF t
<1> QED
  BY <1>9, <1>10, <1>11

(* A message that says nothing of the map is taken off, or one that does   *)
(* and is heard.                                                           *)
LEMMA TailInfo ==
  ASSUME NEW q \in Seq(Message), q # <<>>, NEW map, NEW lock, NEW heard, NEW heardLock,
         InfoLink(q, map, lock, heard, heardLock), NEW m, NEW l,
         IF Head(q).is = "info" THEN m = Head(q).map /\ l = Head(q).lock
                                ELSE m = heard /\ l = heardLock
  PROVE  InfoLink(Tail(q), map, lock, m, l)
<1> DEFINE t == Tail(q)
<1>1. /\ \A n \in DOMAIN t : n + 1 \in DOMAIN q /\ t[n] = q[n + 1]
      /\ \A n \in DOMAIN q : n # 1 => n - 1 \in DOMAIN t /\ q[n] = t[n - 1]
      /\ 1 \in DOMAIN q /\ q[1] = Head(q)
  BY TailMessages
<1>2. /\ \A n \in DOMAIN q, k \in DOMAIN t : n > k + 1 <=> n - 1 > k
      /\ \A k \in DOMAIN t : ~ 1 > k + 1
      /\ \A n \in DOMAIN q : n > 1 => n # 1
  OBVIOUS
<1> HIDE DEF t
<1>3. ASSUME NEW n \in DOMAIN t, t[n].is = "info",
             \A k \in DOMAIN t : k > n => t[k].is # "info"
      PROVE  map = t[n].map /\ lock = t[n].lock
  <2>1. \A k \in DOMAIN q : k > n + 1 => k # 1
    BY <1>2
  <2>2. \A k \in DOMAIN q : k > n + 1 => q[k].is # "info"
    BY <1>1, <1>2, <1>3, <2>1
  <2>3. map = q[n + 1].map /\ lock = q[n + 1].lock
    BY <1>1, <1>3, <2>2 DEF InfoLink
  <2> QED
    BY <1>1, <2>3
<1>4. ASSUME \A n \in DOMAIN t : t[n].is # "info"
      PROVE  map = m /\ lock = l
  <2>1. \A n \in DOMAIN q : n # 1 => q[n].is # "info"
    BY <1>1, <1>4
  <2>2. CASE Head(q).is = "info"
    <3>1. map = q[1].map /\ lock = q[1].lock
      BY <1>1, <1>2, <2>1, <2>2 DEF InfoLink
    <3> QED
      BY <1>1, <2>2, <3>1
  <2>3. CASE Head(q).is # "info"
    <3>1. \A n \in DOMAIN q : q[n].is # "info"
      BY <1>1, <2>1, <2>3
    <3> QED
      BY <2>3, <3>1 DEF InfoLink
  <2> QED
    BY <2>2, <2>3
<1> QED
  BY <1>3, <1>4 DEF InfoLink, t

(* The same about the map that the host shows.                             *)
LEMMA TailMap ==
  ASSUME NEW q \in Seq(Message), q # <<>>, NEW map, NEW heard, MapLink(q, map, heard),
         Head(q).is = "info" => Head(q).map = heard
  PROVE  MapLink(Tail(q), map, heard)
<1> DEFINE t == Tail(q)
<1>1. /\ \A n \in DOMAIN q : n # 1 => n - 1 \in DOMAIN t /\ q[n] = t[n - 1]
      /\ 1 \in DOMAIN q /\ q[1] = Head(q)
  BY TailMessages
<1> HIDE DEF t
<1> QED
  BY <1>1 DEF MapLink, t

(* A message about a box is heard.                                         *)
LEMMA ReceiveBoxInv ==
  ASSUME IInv, NEW i \in Allies, OnBattleStartRectAdd(i) \/ OnBattleStartRectRemove(i)
  PROVE  IInv'
<1>1. ReceiveBox(i)
  BY DEF OnBattleStartRectAdd, OnBattleStartRectRemove
<1>2. /\ in # <<>> /\ Head(in).is = "boxes" /\ Head(in).of[i] # <<>>
      /\ UNCHANGED <<proxy, running, local, saved, dragged, srv, edits>>
      /\ in' = IF Left(in, i) = Nothing THEN Tail(in) ELSE Taken(in, i)
  BY <1>1 DEF ReceiveBox, Receive, Left, Taken
<1>3. /\ in \in Seq(Message) /\ rects \in Rects /\ srv.boxes \in Layouts
      /\ ~ proxy => \A n \in DOMAIN in : in[n].is = "info"
      /\ \A j \in Allies : BoxAgrees(rects, srv.boxes, in, j)
  BY DEF IInv, Links, BoxLink
<1>4. 1 \in DOMAIN in /\ in[1] = Head(in) /\ Head(in) \in Message
  BY <1>2, <1>3, TailMessages
<1>5. proxy
  BY <1>2, <1>3, <1>4
<1>6. Head(Head(in).of[i]) \in Places \cup {Nowhere}
  <2>1. Head(in).of[i] \in Seq(Places \cup {Nowhere})
    BY <1>2, <1>4 DEF Message, Batch
  <2> QED
    BY <1>2, <2>1
<1>7. /\ rects' \in Rects
      /\ rects'[i].at = Head(Head(in).of[i]) /\ rects'[i].mark = ""
      /\ \A j \in Allies : j # i => rects'[j] = rects[j]
  <2> DEFINE place == Head(Head(in).of[i])
  <2>1. place \in Places \cup {Nowhere}
    BY <1>6
  <2>2. rects' = [rects EXCEPT ![i] = [at |-> place, mark |-> ""]]
    BY DEF OnBattleStartRectAdd, OnBattleStartRectRemove, NoBox
  <2> HIDE DEF place
  <2>3. /\ rects' \in Rects
        /\ rects'[i].at = place /\ rects'[i].mark = ""
        /\ \A j \in Allies : j # i => rects'[j] = rects[j]
    BY <1>3, <2>1, <2>2 DEF Rects, Box
  <2> QED
    BY <2>3 DEF place
<1> DEFINE t == Taken(in, i)
<1>8. /\ t \in Seq(Message) /\ t # <<>> /\ DOMAIN t = DOMAIN in
      /\ Head(t).is = "boxes" /\ Head(t).of = Left(in, i) /\ t[1] = Head(t)
      /\ \A n \in DOMAIN in : n # 1 => t[n] = in[n]
      /\ Tail(t) = Tail(in)
  BY <1>2, <1>3, TakenType
<1>9. \A j \in Allies : BoxAgrees(rects', srv.boxes, t, j)
  BY <1>2, <1>3, <1>7, TakenAgrees
<1>10. /\ InfoLink(t, srv.map, srv.lock, hostMap, locked)
       /\ MapLink(t, localMap, hostMap)
  <2> HIDE DEF t
  <2>1. \A n \in DOMAIN t : t[n].is = "info" <=> in[n].is = "info"
    BY <1>2, <1>4, <1>8
  <2>2. \A n \in DOMAIN t : in[n].is = "info" => t[n] = in[n]
    BY <1>2, <1>4, <1>8
  <2>3. InfoLink(in, srv.map, srv.lock, hostMap, locked) /\ MapLink(in, localMap, hostMap)
    BY DEF IInv, Links
  <2>4. InfoLink(t, srv.map, srv.lock, hostMap, locked)
    BY <1>8, <2>1, <2>2, <2>3 DEF InfoLink
  <2>5. MapLink(t, localMap, hostMap)
    BY <1>8, <2>1, <2>2, <2>3 DEF MapLink
  <2> QED
    BY <2>4, <2>5
<1> HIDE DEF t
<1>11. /\ in' \in Seq(Message)
       /\ \A j \in Allies : BoxAgrees(rects', srv.boxes, in', j)
       /\ InfoLink(in', srv.map, srv.lock, hostMap, locked)
       /\ MapLink(in', localMap, hostMap)
  <2>1. CASE Left(in, i) = Nothing
    <3>1. in' = Tail(t)
      BY <1>2, <1>8, <2>1
    <3>2. Tail(t) \in Seq(Message)
      BY <1>8, TailMessages
    <3>3. \A j \in Allies : ~ IsAbout(Head(t), j)
      BY <1>8, <2>1 DEF IsAbout, Nothing
    <3>4. \A j \in Allies : BoxAgrees(rects', srv.boxes, Tail(t), j)
      BY <1>8, <1>9, <3>3, TailOther
    <3>5. Head(t).is # "info"
      BY <1>8
    <3>6. InfoLink(Tail(t), srv.map, srv.lock, hostMap, locked)
      BY <1>8, <1>10, <3>5, TailInfo
    <3>7. MapLink(Tail(t), localMap, hostMap)
      BY <1>8, <1>10, <3>5, TailMap
    <3> QED
      BY <3>1, <3>2, <3>4, <3>6, <3>7
  <2>2. CASE Left(in, i) # Nothing
    BY <1>2, <1>8, <1>9, <1>10, <2>2 DEF t
  <2> QED
    BY <2>1, <2>2
<1>12. BoxLink(rects', srv.boxes, in')
  BY <1>3, <1>5, <1>7, <1>11 DEF BoxLink
<1>13. Links'
  BY <1>2, <1>11, <1>12, NextLinks DEF local
<1>14. OnlyDragsWait'
  BY <1>7 DEF IInv, OnlyDragsWait, Allies
<1>15. RestOK'
  BY <1>2 DEF IInv, RestOK, local, Allies, Layouts
<1> QED
  BY <1>13, <1>14, <1>15 DEF IInv

(* The map and the lock are heard.                                         *)
LEMMA OnInfoInv ==
  ASSUME IInv, OnBattleInfoUpdated
  PROVE  IInv'
<1>1. /\ in # <<>> /\ Head(in).is = "info" /\ in' = Tail(in)
      /\ locked' = Head(in).lock /\ hostMap' = Head(in).map
      /\ localMap' = IF hostMap' # hostMap THEN hostMap' ELSE localMap
      /\ UNCHANGED <<proxy, running, rects, saved, dragged, srv, edits>>
  BY DEF OnBattleInfoUpdated, Receive
<1>2. /\ in \in Seq(Message) /\ rects \in Rects /\ srv.boxes \in Layouts
      /\ ~ proxy => \A n \in DOMAIN in : in[n].is = "info"
      /\ \A j \in Allies : BoxAgrees(rects, srv.boxes, in, j)
      /\ InfoLink(in, srv.map, srv.lock, hostMap, locked)
      /\ MapLink(in, localMap, hostMap)
  BY DEF IInv, Links, BoxLink
<1>3. Tail(in) \in Seq(Message) /\ Head(in) \in Message
      /\ \A n \in DOMAIN Tail(in) : n + 1 \in DOMAIN in /\ Tail(in)[n] = in[n + 1]
  BY <1>1, <1>2, TailMessages
<1>4. hostMap' \in Maps /\ locked' \in BOOLEAN
  BY <1>1, <1>3 DEF Message
<1>5. \A j \in Allies : BoxAgrees(rects, srv.boxes, Tail(in), j)
  <2>1. \A j \in Allies : ~ IsAbout(Head(in), j)
    BY <1>1 DEF IsAbout
  <2> QED
    BY <1>1, <1>2, <2>1, TailOther
<1>6. ~ proxy => \A n \in DOMAIN Tail(in) : Tail(in)[n].is = "info"
  BY <1>2, <1>3
<1>7. BoxLink(rects, srv.boxes, Tail(in))
  BY <1>2, <1>3, <1>5, <1>6 DEF BoxLink
<1>8. InfoLink(Tail(in), srv.map, srv.lock, hostMap', locked')
  BY <1>1, <1>2, TailInfo
<1>9. MapLink(Tail(in), localMap', hostMap')
  <2>1. CASE hostMap' = hostMap
    <3>1. MapLink(Tail(in), localMap, hostMap)
      BY <1>1, <1>2, <2>1, TailMap
    <3> QED
      BY <1>1, <2>1, <3>1
  <2>2. CASE hostMap' # hostMap
    BY <1>1, <2>2 DEF MapLink
  <2> QED
    BY <2>1, <2>2
<1>10. Links'
  BY <1>1, <1>7, <1>8, <1>9, NextLinks
<1>11. RestOK' /\ OnlyDragsWait'
  BY <1>1, <1>4 DEF IInv, RestOK, OnlyDragsWait, Allies, Layouts
<1> QED
  BY <1>10, <1>11 DEF IInv
-----------------------------------------------------------------------------
(* Nothing is on its way.                                                  *)
LEMMA NoMessages ==
  ASSUME NEW q \in Seq(Message), q = <<>>
  PROVE  DOMAIN q = {}
<1>1. Len(q) = 0 /\ DOMAIN q = 1 .. Len(q)
  OBVIOUS
<1> QED
  BY <1>1

(* A new battle has no boxes, and nothing is on its way.                   *)
LEMMA InvInit == Init => IInv
<1> SUFFICES ASSUME Init PROVE IInv
  OBVIOUS
<1>1. Empty \in Layouts
  BY DEF Empty, Layouts
<1>2. RestOK
  <2>1. saved \in [Maps -> Layouts]
    BY <1>1, Zenon DEF Init
  <2>2. srv \in [map : Maps, lock : BOOLEAN, boxes : Layouts]
    BY <1>1 DEF Init
  <2>3. /\ proxy \in BOOLEAN /\ running \in BOOLEAN /\ locked \in BOOLEAN
        /\ localMap \in Maps /\ hostMap \in Maps
        /\ dragged \in Allies \cup {None}
    BY DEF Init
  <2>4. edits \in 0 .. MaxEdits
    BY HostInfoAssumption DEF Init
  <2> QED
    BY <2>1, <2>2, <2>3, <2>4, Zenon DEF RestOK
<1>3. OnlyDragsWait
  BY DEF Init, OnlyDragsWait, NoBox
<1>4. in = <<>> /\ in \in Seq(Message) /\ DOMAIN in = {}
  BY DEF Init
<1>5. rects \in Rects
  BY DEF Init, Rects, Box, NoBox
<1>6. \A i \in Allies : BoxAgrees(rects, srv.boxes, in, i)
  <2>1. \A i \in Allies : srv.boxes[i] = rects[i].at
    BY DEF Init, Empty, NoBox
  <2> QED
    BY <1>4, <2>1 DEF BoxAgrees
<1>7. BoxLink(rects, srv.boxes, in)
  BY <1>1, <1>4, <1>5, <1>6 DEF Init, BoxLink
<1>8. InfoLink(in, srv.map, srv.lock, hostMap, locked) /\ MapLink(in, localMap, hostMap)
  BY <1>4 DEF Init, InfoLink, MapLink
<1> QED
  BY <1>2, <1>3, <1>7, <1>8 DEF IInv, Links

(* The next state keeps the links, whatever is done.                       *)
LEMMA InvNext == IInv /\ [Next]_vars => IInv'
<1> SUFFICES ASSUME IInv, [Next]_vars PROVE IInv'
  OBVIOUS
<1>1. CASE \E lock \in BOOLEAN : OnLock(lock)
  BY <1>1, OnLockInv
<1>2. CASE \E m \in Maps : SetMap(m)
  BY <1>2, SetMapInv
<1>3. CASE \E m \in Maps, place \in Places :
             LoadOptionsPreset(m, [Empty EXCEPT ![LastAlly] = place])
  <2>1. \A place \in Places : [Empty EXCEPT ![LastAlly] = place] \in Layouts
    BY DEF Empty, Layouts
  <2> QED
    BY <1>3, <2>1, LoadPresetInv
<1>4. CASE \/ SaveMapDefaults
           \/ \E i \in Allies : OnLeftDown(i)
           \/ \E place \in Places : OnMouseMove(place)
  BY <1>4, QuietEdits
<1>5. CASE \/ \E place \in Places : AddBox(place) \/ AddBoxCommand(place)
           \/ \E i \in Allies : RemoveBox(i)
           \/ OnLeftUp
  BY <1>5, BoxEdits
<1>6. CASE OnBattleInfoUpdated
  BY <1>6, OnInfoInv
<1>7. CASE \E i \in Allies : OnBattleStartRectAdd(i) \/ OnBattleStartRectRemove(i)
  BY <1>7, ReceiveBoxInv
<1>8. CASE UNCHANGED vars
  <2>1. Links'
    BY <1>8, NextLinks DEF IInv, Links, vars, local
  <2> QED
    BY <1>8, <2>1 DEF IInv, RestOK, OnlyDragsWait, vars, local, Allies, Layouts
<1> QED
  BY <1>1, <1>2, <1>3, <1>4, <1>5, <1>6, <1>7, <1>8 DEF Next

(* At any time the messages on their way make up for what the host does    *)
(* not know yet, or wants no longer.                                       *)
THEOREM Invariance == Spec => []IInv
<1> QED
  BY InvInit, InvNext, PTL DEF Spec

(* When nothing is on its way, the host and the server agree on the map    *)
(* and the lock (serverevents.cpp:400, tasserver.cpp:1524).                *)
THEOREM InfoCorrect == Spec => []InfoAgrees
<1>1. IInv => InfoAgrees
  BY DEF IInv, Links, InfoLink, MapLink, InfoAgrees, Settled
<1> QED
  BY <1>1, Invariance, PTL

(* And on every box without a mark (tasserver.cpp:1584); in a battle of    *)
(* one's own at any time.                                                  *)
THEOREM BoxesCorrect == Spec => []BoxesAgree
<1>1. IInv => BoxesAgree
  <2> SUFFICES ASSUME IInv, Settled \/ ~ proxy, NEW i \in Allies, rects[i].mark = ""
               PROVE  srv.boxes[i] = rects[i].at
    BY DEF BoxesAgree
  <2>1. \A n \in DOMAIN in : ~ IsAbout(in[n], i)
    <3>1. CASE in = <<>>
      <4>1. in \in Seq(Message)
        BY DEF IInv, Links, BoxLink
      <4> QED
        BY <3>1, <4>1, NoMessages, Zenon
    <3>2. CASE ~ proxy
      <4>1. \A n \in DOMAIN in : in[n].is = "info"
        BY <3>2, Zenon DEF IInv, Links, BoxLink
      <4> QED
        BY <4>1 DEF IsAbout
    <3> QED
      BY <3>1, <3>2 DEF Settled
  <2> QED
    BY <2>1 DEF IInv, Links, BoxLink, BoxAgrees
<1> QED
  BY <1>1, Invariance, PTL

(* Only a drag of the mouse leaves a mark (mapctrl.cpp:299).              *)
THEOREM MarksCorrect == Spec => []MarksSound
<1>1. IInv => MarksSound
  BY DEF IInv, RestOK, Links, BoxLink, Rects, MarksSound, TypeOK
<1> QED
  BY <1>1, Invariance, PTL
==============================================================================
