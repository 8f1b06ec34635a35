------------------------------- MODULE MapGrid -------------------------------
(***************************************************************************)
(* The grid of maps of the map selection dialog (src/src/mapgridctrl.cpp,  *)
(* mapselectdialog.cpp).  The dialog gives it lists of map names; what it  *)
(* does not know yet it fetches from unitsync's worker thread: first the   *)
(* information about the maps, a few at a time, then their pictures.  The  *)
(* results come back as events, in any order, while the user changes the   *)
(* list, types into the text filter, scrolls and selects.                  *)
(*                                                                         *)
(* A fetch is in flight from the call until the handler of its event; the  *)
(* job and the event are not told apart.  The order of the maps and the    *)
(* position in the grid are left out: where the code takes the first map,  *)
(* the model takes any, and any of the grid's maps may be those on screen. *)
(***************************************************************************)
EXTENDS Integers, FiniteSets, Sequences, SequencesExt

CONSTANTS
  Maps,         \* the names of maps
  Missing,      \* those that are not installed: unitsync knows nothing of them
  Lists,        \* the lists the dialog gives: sequences of names
  Texts,        \* what the text filter lets through: sets of names
  Cursor,       \* the maps the mouse pointer goes over
  FollowMouse,  \* m_selection_follows_mouse
  MAX_MAPINFO_FETCHES,
  MAX_MINIMAP_FETCHES,
  Tiles,        \* how many maps fit on the screen, by m_size
  NULL

ASSUME MapGridAssumption ==
  /\ IsFiniteSet(Maps)
  /\ Missing \subseteq Maps /\ Cursor \subseteq Maps
  /\ Lists \subseteq Seq(Maps)
  /\ Texts \subseteq SUBSET Maps
  /\ FollowMouse \in BOOLEAN
  /\ MAX_MAPINFO_FETCHES \in Nat \ {0}
  /\ MAX_MINIMAP_FETCHES \in Nat \ {0}
  /\ Tiles \in Nat \ {0}
  /\ NULL \notin Maps

VARIABLES
  grid,       \* the control's members
  text,       \* what the text filter lets through
  completed,  \* a LoadingCompletedEvt is queued
  visible,    \* the maps that are on screen, by m_grid, m_size and m_pos
  refresh,    \* a paint event is due
  asked       \* history: the names of the last list

screen == <<visible, refresh>>
vars == <<grid, text, completed, screen, asked>>

(* A MapMap: the state of each map it holds.                               *)
MapStates == {"NoMinimap", "GetMinimap", "GotMinimap"}
MapMap == [Maps -> MapStates \cup {"absent"}]

Control == [
  maps: MapMap, unused: MapMap, filtered: MapMap,
  pending: Seq(Maps),                        \* m_pending_maps
  infos: Seq(Maps), images: Seq(Maps),       \* the fetches in flight
  mapinfo_fetches: Nat, minimap_fetches: Nat,
  mouseover: Maps \cup {NULL}, selected: Maps \cup {NULL}]

In(c) == {m \in Maps : c[m] # "absent"}
Nothing == [m \in Maps |-> "absent"]
Only(c, S) == [m \in Maps |-> IF m \in S THEN c[m] ELSE "absent"]
Without(c, S) == [m \in Maps |-> IF m \in S THEN "absent" ELSE c[m]]

(* c.insert( d.begin(), d.end() ): what c holds already stays.             *)
Insert(c, d) == [m \in Maps |-> IF c[m] = "absent" THEN d[m] ELSE c[m]]

Smaller(a, b) == IF a < b THEN a ELSE b

(* The elements of the sequence s that are in S, in their order.           *)
Those(s, S) ==
  LET at == {i \in DOMAIN s : s[i] \in S}
      Before(i) == {j \in at : j <= i}
  IN [n \in 1 .. Cardinality(at) |-> s[CHOOSE i \in at : Cardinality(Before(i)) = n]]

TypeOK ==
  /\ grid \in Control
  /\ text \subseteq Maps
  /\ completed \in BOOLEAN
  /\ visible \subseteq Maps
  /\ refresh \in BOOLEAN
  /\ asked \subseteq Maps

-----------------------------------------------------------------------------
(* The control's methods, as functions of its members g.                   *)

(* Mutants of Clear: one that forgets the names that wait, one that        *)
(* forgets the selection.                                                  *)
ClearNotPending(g) ==
  [g EXCEPT !.unused = Insert(Insert(@, g.maps), g.filtered),
            !.maps = Nothing, !.filtered = Nothing,
            !.mouseover = NULL, !.selected = NULL]

ClearNotSelected(g) ==
  [g EXCEPT !.unused = Insert(Insert(@, g.maps), g.filtered),
            !.pending = <<>>, !.maps = Nothing, !.filtered = Nothing,
            !.mouseover = NULL]

Clear(g) ==
  [g EXCEPT !.unused = Insert(Insert(@, g.maps), g.filtered),
            !.pending = <<>>, !.maps = Nothing, !.filtered = Nothing,
            !.mouseover = NULL, !.selected = NULL]

(* Mutant of FetchMapInfo: what is too much is lost.                       *)
FetchMapInfoNoWait(g, names) ==
  LET room == Smaller(MAX_MAPINFO_FETCHES - g.mapinfo_fetches, Len(names))
  IN [g EXCEPT !.infos = @ \o SubSeq(names, 1, room), !.mapinfo_fetches = @ + room]

(* FetchMapInfo for each of the names: what is too much waits.             *)
FetchMapInfo(g, names) ==
  LET room == Smaller(MAX_MAPINFO_FETCHES - g.mapinfo_fetches, Len(names))
  IN [g EXCEPT !.infos = @ \o SubSeq(names, 1, room),
               !.mapinfo_fetches = @ + room,
               !.pending = @ \o SubSeq(names, room + 1, Len(names))]

(* AddMap for each of the names: nothing for a map that is there, else     *)
(* from the unused ones, else from unitsync.                               *)
AddMaps(g, names) ==
  LET known == {m \in ToSet(names) : g.maps[m] = "absent"} \cap In(g.unused)
      unknown == Those(names, Maps \ (In(g.maps) \cup In(g.unused)))
  IN FetchMapInfo([g EXCEPT !.maps = Insert(@, Only(g.unused, known)),
                            !.unused = Without(@, known)], unknown)

(* AddMap of a map unitsync has told about.                                *)
AddMap(g, m) ==
  IF g.maps[m] # "absent" THEN g
  ELSE [g EXCEPT !.unused = Without(@, {m}), !.maps = [@ EXCEPT ![m] = "NoMinimap"]]

Filter(g, pred) ==
  LET all == Insert(g.filtered, g.maps)
      found == pred \cap In(all)
      emptied == [g EXCEPT !.unused = Insert(@, g.maps), !.maps = Nothing,
                           !.mouseover = NULL, !.selected = NULL]
  IN [AddMaps(emptied, SetToSeq(found)) EXCEPT !.filtered = Without(all, found)]

NoMinimap(g) == {m \in Maps : g.maps[m] = "NoMinimap"}

(* FetchMinimap, for a few maps one after the other.                       *)
FetchMinimap(g, names) ==
  [g EXCEPT !.images = @ \o names,
            !.minimap_fetches = @ + Len(names),
            !.maps = [m \in Maps |-> IF m \in ToSet(names) THEN "GetMinimap" ELSE @[m]]]

(* The possible outcomes, by the order of the maps on the screen.          *)
UpdateAsyncFetches(g) ==
  LET n == Smaller(MAX_MAPINFO_FETCHES - g.mapinfo_fetches, Len(g.pending))
      left == Len(g.pending) - n
      h == [g EXCEPT !.infos = @ \o SubSeq(g.pending, left + 1, Len(g.pending)),
                     !.mapinfo_fetches = @ + n,
                     !.pending = SubSeq(@, 1, left)]
  IN IF h.mapinfo_fetches = 0 /\ h.minimap_fetches = 0 /\ NoMinimap(h) # {}
     THEN {FetchMinimap(h, <<m>>) : m \in NoMinimap(h)}
     ELSE {h}

(* Mutant of SetMinimap: only the maps shown get theirs.                   *)
SetMinimapShown(g, m) ==
  [g EXCEPT !.maps = [@ EXCEPT ![m] = IF @ = "absent" THEN @ ELSE "GotMinimap"]]

(* SetMinimap in each of the three maps of maps.                           *)
SetMinimap(g, m) ==
  LET Got(c) == [c EXCEPT ![m] = IF @ = "absent" THEN @ ELSE "GotMinimap"]
  IN [g EXCEPT !.maps = Got(@), !.unused = Got(@), !.filtered = Got(@)]

(* CheckInBounds: some of the grid is always on screen.                    *)
InBounds(g) ==
  {S \in SUBSET In(g.maps) : /\ Cardinality(S) <= Tiles
                             /\ S = {} => In(g.maps) = {}}

-----------------------------------------------------------------------------
Init ==
  /\ grid = [maps |-> Nothing, unused |-> Nothing, filtered |-> Nothing,
             pending |-> <<>>, infos |-> <<>>, images |-> <<>>,
             mapinfo_fetches |-> 0, minimap_fetches |-> 0,
             mouseover |-> NULL, selected |-> NULL]
  /\ text = Maps
  /\ completed = FALSE
  /\ visible = {} /\ refresh = FALSE
  /\ asked = {}

(* The list or the order of the maps is another one: UpdateGridSize or     *)
(* Sort, and Refresh.                                                      *)
Rearrange == visible' \in InBounds(grid') /\ refresh' = TRUE

(* The dialog is opened, or unitsync was reloaded.                         *)
OnInit(list) ==
  /\ UNCHANGED <<text, completed>>
  /\ asked' = ToSet(list)
  /\ grid' = Filter(AddMaps(Clear(grid), list), text)
  /\ Rearrange

(* All, popular or recent maps: this does not apply the text filter.       *)
OnFilterSelect(list) ==
  /\ UNCHANGED <<text, completed>>
  /\ asked' = ToSet(list)
  /\ grid' = AddMaps(Clear(grid), list)
  /\ Rearrange

(* Also a choice of the sort keys, which applies the same text again.      *)
OnFilterTextChanged(pred) ==
  /\ UNCHANGED <<completed, asked>>
  /\ text' = pred
  /\ grid' = Filter(grid, pred)
  /\ Rearrange

OnMapLoadingCompleted ==
  /\ completed
  /\ completed' = FALSE
  /\ UNCHANGED <<text, asked>>
  /\ grid' = Filter(grid, text)
  /\ Rearrange

(* The information about a map arrived, or the news that there is none,    *)
(* of which nothing is drawn.                                              *)
OnGetMapExAsyncCompleted(i) ==
  LET m == grid.infos[i]
      added == IF m \in Missing THEN grid ELSE AddMap(grid, m)
  IN /\ UNCHANGED <<text, asked>>
     /\ grid' \in UpdateAsyncFetches(
                    [added EXCEPT !.infos = RemoveAt(@, i), !.mapinfo_fetches = @ - 1])
     /\ IF added # grid THEN Rearrange
        ELSE UNCHANGED visible /\ refresh' = (refresh \/ m \notin Missing)
     /\ completed' = (completed \/ grid'.mapinfo_fetches = 0)

(* A minimap arrived.  When a map has none, unitsync gives an empty one.   *)
OnGetMapImageAsyncCompleted(i) ==
  /\ UNCHANGED <<text, completed, visible, asked>> /\ refresh' = TRUE
  /\ grid' \in UpdateAsyncFetches(
                 [SetMinimap(grid, grid.images[i]) EXCEPT
                    !.images = RemoveAt(@, i), !.minimap_fetches = @ - 1])

(* Mutant of Painted: the maps are drawn as they are.                      *)
PaintedOnly == {<<>>}

(* DrawMap for the maps on screen, in some order, fetches the pictures     *)
(* that are missing, as far as the limit allows.                           *)
Painted ==
  LET bare == visible \cap NoMinimap(grid)
      n == IF grid.mapinfo_fetches # 0 THEN 0
           ELSE Smaller(MAX_MINIMAP_FETCHES - grid.minimap_fetches, Cardinality(bare))
  IN {names \in [1..n -> bare] : \A i, j \in 1..n : i # j => names[i] # names[j]}

OnPaint ==
  /\ refresh /\ refresh' = FALSE
  /\ \E names \in Painted : grid' = FetchMinimap(grid, names)
  /\ UNCHANGED <<text, completed, visible, asked>>

(* The window system wants the window drawn.                               *)
Expose ==
  /\ refresh' = TRUE
  /\ UNCHANGED <<grid, text, completed, visible, asked>>

OnMouseMove(m) ==
  LET follows == FollowMouse /\ m # NULL /\ m # grid.mouseover IN
  /\ grid' = [grid EXCEPT !.mouseover = m, !.selected = IF follows THEN m ELSE @]
  /\ refresh' = (refresh \/ follows)
  /\ UNCHANGED <<text, completed, visible, asked>>

(* OnMouseMove with the button down, and OnResize: the grid is moved.      *)
Scroll ==
  /\ UNCHANGED <<grid, text, completed, asked>>
  /\ Rearrange

OnLeftUp ==
  /\ grid' = [grid EXCEPT !.selected = grid.mouseover]
  /\ refresh' = TRUE
  /\ UNCHANGED <<text, completed, visible, asked>>

-----------------------------------------------------------------------------
User ==
  \/ Scroll
  \/ OnLeftUp
  \/ \E m \in (Cursor \cap In(grid.maps)) \cup {NULL} : OnMouseMove(m)
  \/ \E pred \in Texts : OnFilterTextChanged(pred)
  \/ \E list \in Lists : OnInit(list) \/ OnFilterSelect(list)

Results ==
  \/ \E i \in DOMAIN grid.infos : OnGetMapExAsyncCompleted(i)
  \/ \E i \in DOMAIN grid.images : OnGetMapImageAsyncCompleted(i)
  \/ OnMapLoadingCompleted

Next ==
  \/ User
  \/ Results
  \/ OnPaint
  \/ Expose

Spec == Init /\ [][Next]_vars

(* Results are to come while a fetch is in flight or an event is queued:   *)
(* what enables Results, and much cheaper to evaluate.                     *)
ResultsToCome == grid.infos # <<>> \/ grid.images # <<>> \/ completed

(* Results arrive, queued events are handled, and what Refresh asks for is *)
(* drawn: the maps that are on screen.  The user need not do anything, and *)
(* the window system need not want anything drawn.  The first of the two   *)
(* is the weak fairness of Results.                                        *)
FairSpec ==
  /\ Spec
  /\ []<>~ResultsToCome \/ []<><<Results>>_vars
  /\ WF_vars(OnPaint)

-----------------------------------------------------------------------------
(* The counters say how many fetches are in flight and stay within their   *)
(* limits ("we just need symmetry between number of initiated async jobs   *)
(* and number of finished/failed async jobs", springunitsync.cpp:1057).    *)
CountersSymmetric ==
  /\ grid.mapinfo_fetches = Len(grid.infos)
  /\ grid.minimap_fetches = Len(grid.images)
  /\ grid.mapinfo_fetches <= MAX_MAPINFO_FETCHES
  /\ grid.minimap_fetches <= MAX_MINIMAP_FETCHES

(* A name waits only while the fetches are at their limit: else nothing    *)
(* would come back to take it off the list (mapgridctrl.cpp:285).          *)
NoneForgotten ==
  grid.pending # <<>> => grid.mapinfo_fetches = MAX_MAPINFO_FETCHES

(* Every installed map the dialog asked for is in the grid, hidden by the  *)
(* text filter, being fetched or waiting to be.                            *)
AskedForArrives ==
  asked \ Missing \subseteq In(grid.maps) \cup In(grid.filtered)
                              \cup ToSet(grid.infos) \cup ToSet(grid.pending)

(* No map is both shown and unused (mapgridctrl.cpp:239), and one that is  *)
(* hidden can be shown again without asking unitsync.                      *)
MapsApart ==
  /\ In(grid.maps) \cap In(grid.unused) = {}
  /\ In(grid.filtered) \subseteq In(grid.maps) \cup In(grid.unused)

(* The maps under the pointer and selected are maps of the grid: the code  *)
(* keeps pointers into it (mapgridctrl.cpp:210, mapgridctrl.h:56).         *)
PointersValid ==
  {grid.mouseover, grid.selected} \subseteq In(grid.maps) \cup {NULL}

(* A map that shows the picture for "loading" has a fetch in flight,       *)
(* however often it was hidden, shown or listed again meanwhile            *)
(* (mapgridctrl.cpp:337).                                                  *)
LoadingIsLoading ==
  \A m \in Maps :
    "GetMinimap" \in {grid.maps[m], grid.unused[m], grid.filtered[m]}
      => m \in ToSet(grid.images)

(* Of the maps of an earlier list at most as many turn up in the present   *)
(* one as fetches can be in flight (mapgridctrl.cpp:26).                   *)
StaleBounded ==
  Cardinality((In(grid.maps) \cup In(grid.filtered)) \ asked) <= MAX_MAPINFO_FETCHES

(* Once the user leaves the dialog alone, all information is there, and    *)
(* what is on screen has its picture (mapgridctrl.cpp:283, 387;            *)
(* mapgridctrl.h:174).  A map beyond the edge may have to wait until the   *)
(* user scrolls to it.                                                     *)
AllLoaded ==
  \/ []<><<User>>_vars
  \/ <>[](/\ grid.pending = <<>> /\ grid.infos = <<>> /\ grid.images = <<>>
          /\ \A m \in visible : grid.maps[m] = "GotMinimap")

(* What the control counts and points to is what there is.                 *)
ControlSound == TypeOK /\ CountersSymmetric /\ PointersValid

(* Whatever the user chose while results were on their way, no map that    *)
(* was asked for is lost.                                                  *)
NothingLost == NoneForgotten /\ AskedForArrives

(* Each map is where it belongs, and its picture says what becomes of it.  *)
MapsSound == MapsApart /\ LoadingIsLoading
=============================================================================
