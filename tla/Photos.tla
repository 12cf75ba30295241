-------------------------------- MODULE Photos --------------------------------
(* A photo of a post, its full size and the viewer: ManagedImage, BoardImage and         *)
(* LightboxViewer of ui/Media.jsx.                                                      *)
(*                                                                                *)
(* Every image is shown through an object URL, which keeps the image in memory until it   *)
(* is revoked. Images arrive after the tile was given another photo, after the viewer     *)
(* moved on, or after it was closed; each URL has one place that revokes it.              *)
EXTENDS Integers, Sequences, FiniteSets

CONSTANTS
  None,
  MaxEffects,  \* bound on the photos a tile shows one after the other
  MaxTaps,     \* bound on the full sizes asked for
  MaxItems     \* bound on the gallery's images asked for

(* What can be shown, and what the viewer is: neither is ever none. *)
Urls == {"poster", "original", "full", "item"} \X Nat
Boxes == [url : Urls, owns : BOOLEAN, item : Urls \cup {None}, wants : Nat]

PhotosAssumption ==
  /\ MaxEffects \in Nat \ {0} /\ {MaxTaps, MaxItems} \subseteq Nat
  /\ None \notin Urls \cup Boxes

VARIABLES
  live,     \* the object URLs not revoked
  tile,     \* the tile's effect: its number, its URLs, and the one it shows
  loads,    \* the effects, also past ones, whose image is on its way: number |-> stage
  fulls,    \* the full sizes on their way
  taps,
  box,      \* lightbox: its URL, whether it has a cleanup, and the gallery image over it
  items,    \* the gallery's images on their way
  asked     \* how many of these were asked for

vars == <<live, tile, loads, fulls, taps, box, items, asked>>

Poster(e) == <<"poster", e>>
Original(e) == <<"original", e>>
Full(k) == <<"full", k>>
Item(k) == <<"item", k>>

Init ==
  /\ live = {} /\ tile = [on |-> TRUE, e |-> 1, urls |-> {}, shows |-> None]
  /\ loads = {<<1, "image">>} /\ fulls = {} /\ taps = 0
  /\ box = None /\ items = {} /\ asked = 0

---------------------------------------------------------------------------
(* The tile: ManagedImage *)

(* The effect's cleanup, and the next effect if the tile goes on.                       *)
Change(on) ==
  /\ tile.on /\ (on => tile.e < MaxEffects)
  /\ live' = live \ tile.urls
  /\ tile' = [on |-> on, e |-> tile.e + 1, urls |-> {}, shows |-> None]
  /\ loads' = IF on THEN loads \cup {<<tile.e + 1, "image">>} ELSE loads
  /\ UNCHANGED <<fulls, taps, box, items, asked>>

Active(e) == tile.on /\ tile.e = e

\* Mutant: after the poster is drawn, the effect is not asked again whether it is active.
Shows_Always(e, urls) == live' = live \cup urls /\ tile' = [tile EXCEPT !.urls = @ \cup (IF Active(e) THEN urls ELSE {}), !.shows = Poster(e)]
(* The URLs are made, and remembered for the cleanup, by an active effect only.            *)
Shows(e, urls) ==
  IF Active(e) THEN live' = live \cup urls /\ tile' = [tile EXCEPT !.urls = @ \cup urls, !.shows = Poster(e)]
  ELSE UNCHANGED <<live, tile>>

(* The image arrives, or does not; a still frame is drawn of an animation before it is      *)
(* shown, which is one more wait.                                                       *)
Arrives(e) ==
  /\ <<e, "image">> \in loads
  /\ \/ Shows(e, {Poster(e)}) /\ loads' = loads \ {<<e, "image">>}
     \/ /\ Active(e) /\ UNCHANGED <<live, tile>>
        /\ loads' = (loads \ {<<e, "image">>}) \cup {<<e, "still">>}
  /\ UNCHANGED <<fulls, taps, box, items, asked>>
Draws(e) ==
  /\ <<e, "still">> \in loads /\ loads' = loads \ {<<e, "still">>}
  /\ Shows(e, {Poster(e), Original(e)})
  /\ UNCHANGED <<fulls, taps, box, items, asked>>
Fails(e) ==
  /\ \E l \in loads : l[1] = e /\ loads' = loads \ {l}
  /\ UNCHANGED <<live, tile, fulls, taps, box, items, asked>>

---------------------------------------------------------------------------
(* The viewer *)

Owned(b) == IF b = None THEN {} ELSE (IF b.owns THEN {b.url} ELSE {}) \cup (IF b.item = None THEN {} ELSE {b.item})

(* openLightbox: a viewer that is open already is unmounted, with its cleanups.            *)
Opens(url, owns) ==
  /\ box' = [url |-> url, owns |-> owns, item |-> None, wants |-> 0]
  /\ live' = (live \ Owned(box)) \cup (IF owns THEN {url} ELSE {})

(* The owner opens the tile: a private photo is shown by the tile's own URLs ...            *)
OpenOwn ==
  /\ tile.on /\ tile.shows # None /\ taps < MaxTaps /\ taps' = taps + 1
  /\ Opens(tile.shows, FALSE)
  /\ UNCHANGED <<tile, loads, fulls, items, asked>>
(* ... and a board photo by its full size, or by the tile's URL when that does not come.     *)
AskFull ==
  /\ tile.on /\ tile.shows # None /\ taps < MaxTaps /\ taps' = taps + 1
  /\ fulls' = fulls \cup {<<taps', tile.shows>>}
  /\ UNCHANGED <<live, tile, loads, box, items, asked>>
FullArrives(f) ==
  /\ f \in fulls /\ fulls' = fulls \ {f}
  /\ \/ Opens(Full(f[1]), TRUE)
     \/ Opens(f[2], FALSE)
     \/ UNCHANGED <<live, box>>                              \* an animation
  /\ UNCHANGED <<tile, loads, taps, items, asked>>

(* moveGallery: back to the first image, or to another, that is loaded.                    *)
Move(n) ==
  /\ box # None /\ (n # 0 => asked < MaxItems)
  /\ asked' = IF n # 0 THEN asked + 1 ELSE asked
  /\ live' = live \ (Owned(box) \ {box.url})
  /\ box' = [box EXCEPT !.item = None, !.wants = IF n # 0 THEN asked' ELSE 0]
  /\ items' = IF n # 0 THEN items \cup {asked'} ELSE items
  /\ UNCHANGED <<tile, loads, fulls, taps>>

\* Mutant: an image that comes too late is put aside as it is.
TooLate_Kept(k) == live' = live \cup {Item(k)} /\ UNCHANGED box
(* The load makes a URL, and when it comes too late, revokes it at once.                  *)
TooLate(k) == UNCHANGED <<live, box>>
ItemArrives(k) ==
  /\ k \in items /\ items' = items \ {k}
  /\ \/ IF box # None /\ box.wants = k
        THEN live' = live \cup {Item(k)} /\ box' = [box EXCEPT !.item = Item(k)]
        ELSE TooLate(k)
     \/ UNCHANGED <<live, box>>                              \* loadError
  /\ UNCHANGED <<tile, loads, fulls, taps, asked>>

Close ==
  /\ box # None /\ box' = None /\ live' = live \ Owned(box)
  /\ UNCHANGED <<tile, loads, fulls, taps, items, asked>>

Next ==
  \/ \E on \in BOOLEAN : Change(on)
  \/ \E e \in 1..MaxEffects : Arrives(e) \/ Draws(e) \/ Fails(e)
  \/ OpenOwn \/ AskFull \/ (\E f \in fulls : FullArrives(f))
  \/ (\E n \in 0..1 : Move(n)) \/ (\E k \in items : ItemArrives(k)) \/ Close
Spec == Init /\ [][Next]_vars

---------------------------------------------------------------------------
TypeOK ==
  /\ live \subseteq Urls /\ box \in Boxes \cup {None}
  /\ taps \in 0..MaxTaps /\ asked \in 0..MaxItems /\ items \subseteq 1..MaxItems
  /\ loads \subseteq (1..MaxEffects) \X {"image", "still"}
  /\ tile.shows # None => Active(tile.shows[2])

(* Every object URL that is not revoked is one that the tile or the viewer revokes when it   *)
(* goes, and every image shown is shown by one of them; only a viewer that was lent the      *)
(* tile's own URL may outlive it.                                                      *)
UrlsAreOwned ==
  /\ live = tile.urls \cup Owned(box)
  /\ tile.shows # None => tile.shows \in live
  /\ box # None => (box.url \in live \/ ~box.owns)
=============================================================================
