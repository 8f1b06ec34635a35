------------------------------ MODULE HostInfo ------------------------------
(***************************************************************************)
(* What the founder of a battle tells the server about it: the map, the    *)
(* lock and the start boxes.  Every edit ends in TASServer::SendHostInfo   *)
(* (tasserver.cpp:1524), which sends the map and the lock together, and of *)
(* the boxes those that are marked.  The server tells everybody of the map *)
(* and the lock, the founder included, and ServerEvents takes that as it   *)
(* comes (serverevents.cpp:400): the echo of an old change may arrive      *)
(* after a newer one.  When a relay bot is the founder in name, the boxes  *)
(* come back too.                                                          *)
(*                                                                         *)
(* The boxes are edited with the mouse on the map (mapctrl.cpp), by the    *)
(* commands of the autohost (autohost.cpp), and by choosing a map or a     *)
(* profile, which bring their own.  A drag of the mouse is several steps.  *)
(***************************************************************************)
EXTENDS Integers, Sequences

CONSTANTS
  Maps,       \* the maps, all of them installed
  Places,     \* where a box may be
  LastAlly,   \* bound on the index of a box
  MaxEdits    \* bound on what the host does

Allies == 0 .. LastAlly
None == -1
Nowhere == "nowhere"

ASSUME HostInfoAssumption ==
  LastAlly \in Nat /\ MaxEdits \in Nat /\ Nowhere \notin Places

NoBox == [at |-> Nowhere, mark |-> ""]

VARIABLES
  proxy,      \* m_opts.isproxy: a relay bot founded the battle for us
  running,    \* the GUI thread is not caught in an endless loop
  localMap,   \* m_local_map
  hostMap,    \* m_host_map
  locked,     \* m_opts.islocked
  rects,      \* m_rects
  saved,      \* the boxes that the settings keep for a map
  dragged,    \* m_mdown_rect while m_maction is a resize
  srv,        \* what the server knows: map, lock and boxes
  in,         \* its messages on their way to the host
  edits       \* counter of the host's edits

local == <<localMap, hostMap, locked>>
vars == <<proxy, running, local, rects, saved, dragged, srv, in, edits>>

Box == [at : Places \cup {Nowhere}, mark : {"", "add", "resize", "delete"}]
Layouts == [Allies -> Places \cup {Nowhere}]

(* What one loop over the boxes sends: of each box the places it is to     *)
(* have, one after the other.  The boxes come in the order of their        *)
(* indices.                                                                *)
Batch == [Allies -> Seq(Places \cup {Nowhere})]
Nothing == [i \in Allies |-> <<>>]

Message ==
  [is : {"info"}, map : Maps, lock : BOOLEAN] \cup [is : {"boxes"}, of : Batch]

TypeOK ==
  /\ proxy \in BOOLEAN /\ running \in BOOLEAN
  /\ localMap \in Maps /\ hostMap \in Maps /\ locked \in BOOLEAN
  /\ rects \in [Allies -> Box]
  /\ saved \in [Maps -> Layouts]
  /\ dragged \in Allies \cup {None}
  /\ srv \in [map : Maps, lock : BOOLEAN, boxes : Layouts]
  /\ in \in Seq(Message)
  /\ edits \in 0 .. MaxEdits

Empty == [i \in Allies |-> Nowhere]

Init ==
  /\ proxy \in BOOLEAN /\ running = TRUE
  /\ localMap \in Maps /\ hostMap = localMap /\ locked = FALSE
  /\ rects = [i \in Allies |-> NoBox]
  /\ saved = [m \in Maps |-> Empty]
  /\ dragged = None
  /\ srv = [map |-> localMap, lock |-> FALSE, boxes |-> Empty]
  /\ in = <<>> /\ edits = 0

-----------------------------------------------------------------------------
(* The boxes.  A box has one mark at most: the first that SendHostInfo     *)
(* would look at.                                                          *)
IsOk(r, i) == r[i] # NoBox /\ r[i].mark # "delete"

(* The lowest index without a box.                                         *)
IsNextFreeRectIdx(r, free) ==
  /\ free \in Allies => ~IsOk(r, free)
  /\ \A i \in Allies : i < free => IsOk(r, i)

AddStartRect(r, i, place) == [r EXCEPT ![i] = [at |-> place, mark |-> "add"]]

Mark(r, i, mark) ==
  IF r[i] = NoBox THEN r ELSE [r EXCEPT ![i].mark = mark]

RemoveStartRect(r, i) == Mark(r, i, "delete")

(* Sets toresize, which counts only if there is no other mark.             *)
ResizeStartRect(r, i) ==
  IF r[i] # NoBox /\ r[i].mark = "" THEN Mark(r, i, "resize") ELSE r

RemoveAll(r) ==
  [i \in Allies |-> IF r[i] = NoBox THEN NoBox
                    ELSE [at |-> r[i].at, mark |-> "delete"]]

AddAll(r, layout) ==
  [i \in Allies |-> IF layout[i] = Nowhere THEN r[i]
                    ELSE [at |-> layout[i], mark |-> "add"]]

Layout(r) ==
  [i \in Allies |-> IF IsOk(r, i) THEN r[i].at ELSE Nowhere]

(* SendHostInfo, HI_StartRects: the commands for a marked box, and what is *)
(* left of it.  REMOVESTARTRECT puts it nowhere.                           *)

(* Mutant: boxes that were only resized are not sent.                      *)
CommandsForNew(r, i) ==
  CASE r[i].mark = "delete" -> <<Nowhere>>
    [] r[i].mark = "add" -> <<r[i].at>>
    [] OTHER -> <<>>

CommandsFor(r, i) ==
  CASE r[i].mark = "delete" -> <<Nowhere>>
    [] r[i].mark = "add" -> <<r[i].at>>
    [] r[i].mark = "resize" -> <<Nowhere, r[i].at>>
    [] OTHER -> <<>>

Unmarked(r, i) ==
  IF ~IsOk(r, i) THEN NoBox ELSE [r[i] EXCEPT !.mark = ""]

(* Mutant: the loop ends before the last index.                            *)
LookedAtShort(r) == {i \in Allies : \E j \in Allies : i < j /\ r[j] # NoBox}

(* The indices up to the largest that has a box.                           *)
LookedAt(r) == {i \in Allies : \E j \in Allies : i <= j /\ r[j] # NoBox}

Commands(r) ==
  LET looked == LookedAt(r) IN
  [i \in Allies |-> IF i \in looked THEN CommandsFor(r, i) ELSE <<>>]

Sent(r) ==
  LET looked == LookedAt(r) IN
  [i \in Allies |-> IF i \in looked THEN Unmarked(r, i) ELSE r[i]]

(* Remove all boxes, send, add others, send: a map's or a profile's.       *)
Refilled(r, layout) == AddAll(Sent(RemoveAll(r)), layout)
Replaced(r, layout) == Sent(Refilled(r, layout))

-----------------------------------------------------------------------------
(* The server, and the way to it.  It obeys the host and nobody sees it    *)
(* but through its messages, so the time that a command takes to get there *)
(* is counted as time of the message that comes back.  Boxes come back     *)
(* only in a battle of a relay bot.                                        *)
Obey(boxes, batch) ==
  [i \in Allies |-> IF batch[i] = <<>> THEN boxes[i] ELSE batch[i][Len(batch[i])]]

Told(messages, batch) ==
  IF proxy /\ batch # Nothing
  THEN Append(messages, [is |-> "boxes", of |-> batch]) ELSE messages

Info(map, lock) == [is |-> "info", map |-> map, lock |-> lock]

(* The same for the two batches of a replacement.                          *)
ObeyReplaced(boxes, r, layout) ==
  Obey(Obey(boxes, Commands(RemoveAll(r))), Commands(Refilled(r, layout)))

ToldReplaced(messages, r, layout) ==
  Told(Told(messages, Commands(RemoveAll(r))), Commands(Refilled(r, layout)))

-----------------------------------------------------------------------------
(* The host's edits.                                                       *)
Edit == running /\ edits < MaxEdits /\ edits' = edits + 1

SendRects(r) ==
  /\ rects' = Sent(r)
  /\ srv' = [srv EXCEPT !.boxes = Obey(@, Commands(r))]
  /\ in' = Told(in, Commands(r))

OnLock(lock) ==
  /\ Edit
  /\ locked' = lock
  /\ srv' = [srv EXCEPT !.map = localMap, !.lock = lock]
  /\ in' = Append(in, Info(localMap, lock))
  /\ UNCHANGED <<proxy, running, localMap, hostMap, rects, saved, dragged>>

(* A map's saved boxes replace the present ones; the server is told of     *)
(* the map sent after them.                                                *)
LoadMapDefaults(m, sent) ==
  /\ Edit
  /\ localMap' = m
  /\ rects' = Replaced(rects, saved[m])
  /\ srv' = [map |-> sent, lock |-> locked,
              boxes |-> ObeyReplaced(srv.boxes, rects, saved[m])]
  /\ in' = Append(ToldReplaced(in, rects, saved[m]), Info(sent, locked))
  /\ UNCHANGED <<proxy, running, hostMap, locked, saved, dragged>>

(* Mutant: the map that the server knows already is sent.                  *)
SetMapSendsHost(m) == LoadMapDefaults(m, hostMap)

(* A map is chosen in a window or with !map.                               *)
SetMap(m) == LoadMapDefaults(m, m)

(* !loadprofile: the map with its boxes, then the profile's boxes.         *)
LoadOptionsPreset(m, layout) ==
  /\ Edit
  /\ localMap' = m
  /\ LET mapped == Replaced(rects, saved[m])
         boxes == ObeyReplaced(srv.boxes, rects, saved[m])
         messages == Append(ToldReplaced(in, rects, saved[m]), Info(m, locked))
     IN /\ rects' = Replaced(mapped, layout)
        /\ srv' = [map |-> m, lock |-> locked,
                    boxes |-> ObeyReplaced(boxes, mapped, layout)]
        /\ in' = ToldReplaced(messages, mapped, layout)
  /\ UNCHANGED <<proxy, running, hostMap, locked, saved, dragged>>

(* At the start of a game the settings keep the map's boxes.               *)
SaveMapDefaults ==
  /\ Edit
  /\ saved' = [saved EXCEPT ![localMap] = Layout(rects)]
  /\ UNCHANGED <<proxy, running, local, rects, dragged, srv, in>>

(* The mouse comes up over free ground: a new box at the first free index. *)
AddBox(place) ==
  /\ Edit
  /\ \E free \in Allies :
       /\ IsNextFreeRectIdx(rects, free)
       /\ SendRects(AddStartRect(rects, free, place))
  /\ UNCHANGED <<proxy, running, local, saved, dragged>>

(* The mouse comes up over the cross of a box, or !removebox.              *)
RemoveBox(i) ==
  /\ Edit
  /\ IsOk(rects, i)
  /\ SendRects(RemoveStartRect(rects, i))
  /\ UNCHANGED <<proxy, running, local, saved, dragged>>

(* The mouse goes down on the corner of a box.  It may have gone down      *)
(* before without coming up over the map.  What other mouse actions do to  *)
(* a resize that was begun is left out: it may go on after them.           *)
OnLeftDown(i) ==
  /\ running /\ edits < MaxEdits
  /\ IsOk(rects, i)
  /\ dragged' = i
  /\ UNCHANGED <<proxy, running, local, rects, saved, srv, in, edits>>

(* The mouse drags the corner: the box is added anew and marked as         *)
(* resized, also when it was removed since the mouse went down.            *)
OnMouseMove(place) ==
  /\ Edit
  /\ dragged # None
  /\ rects' = [rects EXCEPT ![dragged] = [at |-> place, mark |-> "resize"]]
  /\ UNCHANGED <<proxy, running, local, saved, dragged, srv, in>>

OnLeftUp ==
  /\ Edit
  /\ dragged # None
  /\ SendRects(ResizeStartRect(rects, dragged))
  /\ dragged' = None
  /\ UNCHANGED <<proxy, running, local, saved>>

(* !addbox with four coordinates.  The index of the first free box is      *)
(* reduced by one like one that a user wrote.  If that leaves -1, the      *)
(* index is the largest unsigned number, and the loop up to the last index *)
(* (tasserver.cpp:1587) never ends.                                        *)
AddBoxCommand(place) ==
  /\ Edit
  /\ \/ /\ IsNextFreeRectIdx(rects, 0)
        /\ running' = FALSE
        /\ UNCHANGED <<rects, srv, in>>
     \/ /\ \E ally \in Allies :
             /\ IsNextFreeRectIdx(rects, ally + 1)
             /\ IF IsOk(rects, ally) THEN UNCHANGED <<rects, srv, in>>
                ELSE SendRects(AddStartRect(rects, ally, place))
        /\ UNCHANGED running
  /\ UNCHANGED <<proxy, local, saved, dragged>>

-----------------------------------------------------------------------------
(* What the server tells the host.                                         *)
Receive == running /\ in # <<>>

(* Another map than the last one the server spoke of is loaded by the      *)
(* windows that are told of it, and takes the place of the local one.      *)
OnBattleInfoUpdated ==
  /\ Receive /\ Head(in).is = "info"
  /\ in' = Tail(in)
  /\ locked' = Head(in).lock
  /\ hostMap' = Head(in).map
  /\ localMap' = IF hostMap' # hostMap THEN hostMap' ELSE localMap
  /\ UNCHANGED <<proxy, running, rects, saved, dragged, srv, edits>>

(* The next message about a box: the first of the lowest index in the      *)
(* first batch.                                                            *)
ReceiveBox(i) ==
  /\ Receive /\ Head(in).is = "boxes"
  /\ Head(in).of[i] # <<>>
  /\ \A j \in Allies : j < i => Head(in).of[j] = <<>>
  /\ LET left == [Head(in).of EXCEPT ![i] = Tail(@)] IN
       in' = IF left = Nothing THEN Tail(in) ELSE [in EXCEPT ![1].of = left]
  /\ UNCHANGED <<proxy, running, local, saved, dragged, srv, edits>>

OnBattleStartRectAdd(i) ==
  /\ ReceiveBox(i)
  /\ Head(Head(in).of[i]) # Nowhere
  /\ rects' = [rects EXCEPT ![i] = [at |-> Head(Head(in).of[i]), mark |-> ""]]

OnBattleStartRectRemove(i) ==
  /\ ReceiveBox(i)
  /\ Head(Head(in).of[i]) = Nowhere
  /\ rects' = [rects EXCEPT ![i] = NoBox]

Next ==
  \/ \E lock \in BOOLEAN : OnLock(lock)
  \/ \E m \in Maps : SetMap(m)
  \/ \E m \in Maps, place \in Places :
       LoadOptionsPreset(m, [Empty EXCEPT ![LastAlly] = place])
  \/ SaveMapDefaults
  \/ \E i \in Allies : RemoveBox(i) \/ OnLeftDown(i)
  \/ \E place \in Places :
       AddBox(place) \/ OnMouseMove(place) \/ AddBoxCommand(place)
  \/ OnLeftUp
  \/ OnBattleInfoUpdated
  \/ \E i \in Allies : OnBattleStartRectAdd(i) \/ OnBattleStartRectRemove(i)

Spec == Init /\ [][Next]_vars

-----------------------------------------------------------------------------
Settled == running /\ in = <<>>

(* When nothing is on its way, the host sees the map and the lock that the *)
(* server tells everybody, whatever overwrote what in between              *)
(* (serverevents.cpp:407-412, ibattle.cpp:698, 738).                       *)
InfoAgrees ==
  Settled => srv.map = localMap /\ localMap = hostMap /\ srv.lock = locked

(* And every box without a mark is the server's box, none missing and none *)
(* too many (tasserver.cpp:1584-1616, serverevents.cpp:713-735).  In a     *)
(* battle of one's own that is so at any time: a mark is cleared for no    *)
(* box that was not sent.                                                  *)
BoxesAgree ==
  Settled \/ ~proxy => \A i \in Allies :
    rects[i].mark = "" => srv.boxes[i] = rects[i].at

(* A box that is marked is one that the mouse drags, or dragged until it   *)
(* left the map: no other edit leaves anything unsent.                     *)
OnlyDragsWait ==
  \A i \in Allies : rects[i].mark \in {"", "resize"}

(* The marks are what the code sets, and they do not stay.                 *)
MarksSound == TypeOK /\ OnlyDragsWait
=============================================================================
