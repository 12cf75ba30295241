----------------------------- MODULE Thumbnails -----------------------------
(* The board thumbnails kept on the device: boardMediaCache.js.                       *)
(*                                                                                *)
(* The list of what is kept lives in memory for as long as the frame does, and is      *)
(* written a second after its last change. The files are stored and removed one by       *)
(* one, so that list, files and saved list differ whenever the frame is closed.          *)
EXTENDS Integers, Sequences, FiniteSets, Lists

CONSTANTS
  Paths,     \* thumbnailPath of the photos there are
  None,
  Limit,     \* THUMBNAIL_LIMIT
  MaxSaves,  \* bound on the thumbnails being stored at a time
  Asks       \* bound on the thumbnails asked of the service

ThumbnailsAssumption ==
  Limit \in Nat \ {0} /\ {MaxSaves, Asks} \subseteq Nat /\ None \notin Seq(Paths)

VARIABLES
  blobs,     \* the thumbnails on the device
  saved,     \* index.json on the device
  list,      \* loadIndex in this frame, None before it answered
  saves,     \* the thumbnails being stored: <<path, whether it is on the device>>
  removes,   \* the paths being removed
  timer,     \* indexWrite
  asks,
  orphans    \* history: on the device when their list was lost, or a removal failed

vars == <<blobs, saved, list, saves, removes, timer, asks, orphans>>

Init ==
  /\ saved \in {s \in UNION {[1..n -> Paths] : n \in 0..Limit} : IsInjective(s)}
  /\ blobs = ToSet(saved) /\ list = None /\ saves = <<>> /\ removes = {} /\ timer = FALSE
  /\ asks = 0 /\ orphans = {}

---------------------------------------------------------------------------
(* loadIndex: a list that cannot be read is taken as empty.                           *)
LoadIndex ==
  /\ list = None
  /\ \/ list' = saved /\ orphans' = orphans \cup (blobs \ ToSet(saved))
     \/ list' = <<>> /\ orphans' = orphans \cup blobs
  /\ UNCHANGED <<blobs, saved, saves, removes, timer, asks>>

(* boardThumbnail: only what is listed is looked for on the device, and what is not      *)
(* found there is asked of the service and stored.                                    *)
Ask(p) ==
  /\ list # None /\ (p \in ToSet(list) => p \notin blobs)
  /\ asks < Asks /\ asks' = asks + 1 /\ Len(saves) < MaxSaves
  /\ saves' = Append(saves, <<p, FALSE>>)
  /\ UNCHANGED <<blobs, saved, list, removes, timer, orphans>>

(* rememberThumbnail: setBlob, that may throw with the blob stored or not ...           *)
Store(i) ==
  /\ ~saves[i][2] /\ blobs' = blobs \cup {saves[i][1]}
  /\ saves' = [saves EXCEPT ![i] = <<saves[i][1], TRUE>>]
  /\ UNCHANGED <<saved, list, removes, timer, asks, orphans>>
StoreFails(i) ==
  /\ orphans' = IF saves[i][2] THEN orphans \cup {saves[i][1]} ELSE orphans
  /\ saves' = RemoveAt(saves, i)
  /\ UNCHANGED <<blobs, saved, list, removes, timer, asks>>

\* Mutant: a path that is listed already is listed again.
Listed_Twice(p) == Append(list, p)
(* ... then the path goes to the end of the list ...                                 *)
Listed(p) == Append(RemoveFirst(list, p), p)
(* ... and what the limit leaves no room for is removed.                              *)
Excess(s) == IF Len(s) > Limit THEN Len(s) - Limit ELSE 0
Remember(i) ==
  LET p == saves[i][1]
      l == Listed(p)
      n == Excess(l)
  IN
  /\ saves[i][2] /\ saves' = RemoveAt(saves, i)
  /\ list' = SubSeq(l, n + 1, Len(l))
  /\ removes' = removes \cup ToSet(SubSeq(l, 1, n)) /\ timer' = TRUE
  /\ orphans' = orphans \ {p}
  /\ UNCHANGED <<blobs, saved, asks>>

Removed(p) ==
  /\ p \in removes /\ removes' = removes \ {p}
  /\ \/ blobs' = blobs \ {p} /\ orphans' = orphans \ {p}
     \/ UNCHANGED blobs /\ orphans' = IF p \in blobs THEN orphans \cup {p} ELSE orphans
  /\ UNCHANGED <<saved, list, saves, timer, asks>>

(* The timer: the whole list is written, or is not.                                   *)
WriteIndex ==
  /\ timer /\ timer' = FALSE /\ saved' \in {saved, list}
  /\ UNCHANGED <<blobs, list, saves, removes, asks, orphans>>

(* The frame is closed with whatever it was about to do.                              *)
Close ==
  /\ list # None /\ list' = None /\ saves' = <<>> /\ removes' = {} /\ timer' = FALSE
  /\ UNCHANGED <<blobs, saved, asks, orphans>>

Next ==
  \/ LoadIndex \/ WriteIndex \/ Close
  \/ \E p \in Paths : Ask(p) \/ Removed(p)
  \/ \E i \in 1..Len(saves) : Store(i) \/ StoreFails(i) \/ Remember(i)
Spec == Init /\ [][Next]_vars

---------------------------------------------------------------------------
(* The saved list is never longer than the limit, and names no path twice: of a path      *)
(* that it named twice, the first removal would take the file of the second.             *)
TypeOK ==
  /\ blobs \subseteq Paths /\ orphans \subseteq blobs \cup Paths /\ timer \in BOOLEAN /\ asks \in 0..Asks
  /\ Len(saved) <= Limit /\ IsInjective(saved) /\ ToSet(saved) \subseteq Paths

(* A thumbnail on the device is listed, or on its way in or out: nothing is kept for       *)
(* good without being counted, but what a closed frame or a failing removal left.         *)
NothingIsForgotten ==
  list # None =>
    /\ Len(list) <= Limit /\ IsInjective(list)
    /\ blobs \subseteq ToSet(list) \cup removes \cup orphans \cup {saves[i][1] : i \in 1..Len(saves)}
=============================================================================
