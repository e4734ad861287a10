----------------------------- MODULE BtreeLoad -----------------------------
(***************************************************************************)
(* The B-tree build that pg_bulkload carries (pg_bulkload_fn.cpp): heap    *)
(* tuples go to one or two spools, come back sorted, and are written from  *)
(* left to right to leaf pages; a page that is finished gives its parent a *)
(* downlink, and the last page of each level is closed at the end, before  *)
(* the metapage.  A key is <<k, t>>: a value and a heap TID, t = 0 for the *)
(* lowest; the sizes of items count their line pointers.                   *)
(***************************************************************************)
EXTENDS Integers, Sequences, FiniteSets, SequencesExt

CONSTANTS
  Builds,         \* the table and the index of each build: <<heap, kind>>, where
                  \* heap is a sequence of [k: a key value, alive: BOOLEAN] and kind
                  \* is [unique, dedup, full] (full: the free space wanted on leaves)
  KeySize,        \* the size of a tuple for each key value
  TidSize,        \* the size of a heap TID in a high key or a posting list
  LowestSize,     \* the size of a minus infinity item
  PageSize,       \* the space for items on a page
  UpperFull,      \* the free space wanted on internal pages
  MaxPosting      \* the largest posting list tuple

\* The three largest tuples of a leaf with the TID of a high key fit on a page.
MaxItem == PageSize \div 3 - TidSize

ASSUME LoadAssumption ==
  /\ \A b \in Builds : /\ \A i \in DOMAIN b[1] : b[1][i].k \in DOMAIN KeySize
                       /\ {b[2].unique, b[2].dedup} \subseteq BOOLEAN
                       /\ b[2].full \in 0..PageSize
  /\ \A k \in DOMAIN KeySize : k > 0 /\ KeySize[k] >= LowestSize
  /\ TidSize > 0 /\ LowestSize > 0 /\ UpperFull \in 0..PageSize /\ MaxPosting <= MaxItem

VARIABLES
  heap,     \* the table; a tuple's place is its TID
  kind,     \* the index
  spool,    \* sorted tuples still to load, <<k, t>>
  spool2,   \* sorted dead tuples of a unique index still to load
  pending,  \* the tuples of the pending posting list
  write,    \* BTWriteState and BTPageStates: alloced, written, levels, file, failure
  closing,  \* the level that _bt_uppershutdown closes next
  phase     \* "scan", "load", "shutdown", "done" or "failed"

vars == <<heap, kind, spool, spool2, pending, write, closing, phase>>

Metapage == 0
None == 0            \* P_NONE
ZeroPage == [zero |-> TRUE]

Before(a, b) == a[1] < b[1] \/ (a[1] = b[1] /\ a[2] < b[2])
Lowest == <<0, 0>>

\* An item: its key, the heap TIDs of a leaf item, the downlink of a pivot.
LeafItem(tuples) == [key |-> Head(tuples), tids |-> [i \in DOMAIN tuples |-> tuples[i][2]],
                     down |-> None]
Pivot(key, blk) == [key |-> key, tids |-> <<>>, down |-> blk]

PostingSize(item) == IF Len(item.tids) > 1 THEN Len(item.tids) * TidSize ELSE 0
SizeOf(item) ==
  CASE item.key = Lowest -> LowestSize
    [] item.key # Lowest /\ item.tids = <<>> ->
         KeySize[item.key[1]] + (IF item.key[2] = 0 THEN 0 ELSE TidSize)
    [] OTHER -> KeySize[item.key[1]] + PostingSize(item)

RECURSIVE Space(_)
Space(items) == IF items = <<>> THEN 0 ELSE SizeOf(Head(items)) + Space(Tail(items))
Free(page) == PageSize - Space(page.items)

NewPage(level) == [level |-> level, items |-> <<>>, high |-> <<>>, prev |-> None,
                   next |-> None, root |-> FALSE]

(***************************************************************************)
(* Writing pages: blocks that are skipped are filled with zeroes.          *)
(***************************************************************************)
Extended(file, blk) == file \o [i \in 1..(blk - Len(file)) |-> ZeroPage]

WritePage(w, page, blk) ==
  [w EXCEPT !.file = [Extended(@, blk + 1) EXCEPT ![blk + 1] = page]]

\* A level's first page gets its block when the level is made.
AddLevel(w) ==
  [w EXCEPT !.levels = Append(@, [page |-> NewPage(Len(@)), blk |-> w.alloced,
                                  low |-> Lowest, extra |-> 0]),
            !.alloced = @ + 1]

(***************************************************************************)
(* _bt_buildadd.                                                           *)
(***************************************************************************)
FullAt(page) == IF page.level = 0 THEN kind.full ELSE UpperFull
TooLarge(page, item) ==
  SizeOf(item) > (IF page.level = 0 THEN MaxItem ELSE MaxItem + TidSize)

\* The page has no room for the item and a TID in its high key, or it is as full
\* as the fill factor asks, with two items at least.
MustFinish(here, item) ==
  \/ Free(here.page) < SizeOf(item) + (IF here.page.level = 0 THEN TidSize ELSE 0)
  \/ Free(here.page) + here.extra < FullAt(here.page) /\ Len(here.page.items) > 1

\* Mutant: a high key never has a TID.
TruncatedToKey(left, right) == <<right.key[1], 0>>

\* _bt_truncate: the first key to the right, with the last TID to the left when
\* the values are equal.
Truncated(left, right) ==
  <<right.key[1], IF left.key[1] = right.key[1] THEN Last(left.tids) ELSE 0>>

\* The last item becomes the old page's high key and the new page's first item;
\* an internal page stores no key in its first item.
HighKey(page) == IF page.level = 0
                   THEN Truncated(page.items[Len(page.items) - 1], Last(page.items))
                   ELSE Last(page.items).key
FirstOf(page, item) == IF page.level = 0 THEN item ELSE [item EXCEPT !.key = Lowest]

Put(w, l, item, extra) ==
  LET items == w.levels[l].page.items
      new == IF items = <<>> THEN FirstOf(w.levels[l].page, item) ELSE item
  IN  [w EXCEPT !.levels[l].page.items = Append(items, new),
                !.levels[l].extra = extra]

OldPage(here, next) ==
  [here.page EXCEPT !.items = Front(@), !.high = <<HighKey(here.page)>>, !.next = next]
NextPage(here) ==
  [NewPage(here.page.level) EXCEPT !.items = <<FirstOf(here.page, Last(here.page.items))>>,
                                   !.prev = here.blk]

RECURSIVE BuildAdd(_, _, _, _)

\* The new page's block is allocated before a block for a parent level.
FinishPage(w, l) ==
  LET here == w.levels[l]
      alloced == [w EXCEPT !.alloced = @ + 1]
      parented == IF l = Len(w.levels) THEN AddLevel(alloced) ELSE alloced
      linked == BuildAdd(parented, l + 1, Pivot(here.low, here.blk), 0)
  IN  WritePage([linked EXCEPT !.levels[l] = [page |-> NextPage(here), blk |-> w.alloced,
                                              low |-> HighKey(here.page), extra |-> 0]],
                OldPage(here, w.alloced), here.blk)

BuildAdd(w, l, item, extra) ==
  CASE w.failure # "none" -> w
    [] w.failure = "none" /\ TooLarge(w.levels[l].page, item) ->
         [w EXCEPT !.failure = "index row size exceeds maximum"]
    [] w.failure = "none" /\ ~TooLarge(w.levels[l].page, item)
                          /\ MustFinish(w.levels[l], item) ->
         Put(FinishPage(w, l), l, item, extra)
    [] OTHER -> Put(w, l, item, extra)

\* A leaf tuple is added; the first one makes the first page.
Load(w, tuples) ==
  LET item == LeafItem(tuples)
  IN  BuildAdd(IF w.levels = <<>> THEN AddLevel(w) ELSE w, 1, item, PostingSize(item))

(***************************************************************************)
(* btbuild: the scan puts each tuple into its spool, and the spools sort.  *)
(***************************************************************************)
Place(h) == [t \in DOMAIN h |-> <<h[t].k, t>>]
Spooled(h, first) ==
  SortSeq(SelectSeq(Place(h), LAMBDA x : (h[x[2]].alive \/ ~kind.unique) = first), Before)

Init == /\ \E b \in Builds : heap = b[1] /\ kind = b[2]
        /\ spool = <<>> /\ spool2 = <<>> /\ pending = <<>>
        /\ write = [alloced |-> Metapage + 1, levels |-> <<>>, file |-> <<>>,
                    failure |-> "none"]
        /\ closing = 1 /\ phase = "scan"

\* Dead tuples of a unique index go to a spool of their own, out of the way of
\* the sort that reports equal keys.
Spool ==
  /\ phase = "scan"
  /\ spool' = Spooled(heap, TRUE)
  /\ spool2' = Spooled(heap, FALSE)
  /\ phase' = IF kind.unique /\ \E i \in 2..Len(spool') : spool'[i - 1][1] = spool'[i][1]
                THEN "failed" ELSE "load"
  /\ UNCHANGED <<heap, kind, pending, write, closing>>

Merging == kind.unique /\ \E t \in DOMAIN heap : ~heap[t].alive
Deduplicating == kind.dedup /\ ~kind.unique

Leave(w) == /\ write' = w
            /\ phase' = IF w.failure = "none" THEN phase ELSE "failed"

LoadMerging ==
  /\ phase = "load" /\ Merging
  /\ \/ /\ spool # <<>> /\ (spool2 # <<>> => Before(Head(spool), Head(spool2)))
        /\ Leave(Load(write, <<Head(spool)>>))
        /\ spool' = Tail(spool) /\ UNCHANGED spool2
     \/ /\ spool2 # <<>> /\ (spool # <<>> => Before(Head(spool2), Head(spool)))
        /\ Leave(Load(write, <<Head(spool2)>>))
        /\ spool2' = Tail(spool2) /\ UNCHANGED spool
  /\ UNCHANGED <<heap, kind, pending, closing>>

\* A tuple joins the pending posting list when its key is equal and it fits.
Joins(tuple) == /\ pending # <<>> /\ tuple[1] = Head(pending)[1]
                /\ KeySize[tuple[1]] + (Len(pending) + 1) * TidSize <= MaxPosting

LoadDeduplicating ==
  /\ phase = "load" /\ ~Merging /\ Deduplicating /\ spool # <<>>
  /\ spool' = Tail(spool)
  /\ IF Joins(Head(spool))
       THEN pending' = Append(pending, Head(spool)) /\ UNCHANGED <<write, phase>>
       ELSE /\ pending' = <<Head(spool)>>
            /\ Leave(IF pending = <<>> THEN AddLevel(write) ELSE Load(write, pending))
  /\ UNCHANGED <<heap, kind, spool2, closing>>

FinishPending ==
  /\ phase = "load" /\ spool = <<>> /\ pending # <<>>
  /\ Leave(Load(write, pending))
  /\ pending' = <<>>
  /\ UNCHANGED <<heap, kind, spool, spool2, closing>>

LoadPlain ==
  /\ phase = "load" /\ ~Merging /\ ~Deduplicating /\ spool # <<>>
  /\ Leave(Load(write, <<Head(spool)>>))
  /\ spool' = Tail(spool)
  /\ UNCHANGED <<heap, kind, spool2, pending, closing>>

(***************************************************************************)
(* _bt_uppershutdown.                                                      *)
(***************************************************************************)
StartShutdown ==
  /\ phase = "load" /\ spool = <<>> /\ spool2 = <<>> /\ pending = <<>>
  /\ phase' = "shutdown"
  /\ UNCHANGED <<heap, kind, spool, spool2, pending, write, closing>>

\* The last page of a level gets its downlink, or is the root.
CloseLevel ==
  /\ phase = "shutdown" /\ closing <= Len(write.levels)
  /\ LET here == write.levels[closing]
         top == closing = Len(write.levels)
         linked == IF top THEN write
                   ELSE BuildAdd(write, closing + 1, Pivot(here.low, here.blk), 0)
     IN  Leave(WritePage(linked, [here.page EXCEPT !.root = top], here.blk))
  /\ closing' = closing + 1
  /\ UNCHANGED <<heap, kind, spool, spool2, pending>>

WriteMetapage ==
  /\ phase = "shutdown" /\ closing > Len(write.levels)
  /\ LET top == Len(write.levels)
     IN  write' = WritePage(write, [root |-> IF top = 0 THEN None ELSE write.levels[top].blk,
                                    level |-> IF top = 0 THEN 0 ELSE top - 1], Metapage)
  /\ phase' = "done"
  /\ UNCHANGED <<heap, kind, spool, spool2, pending, closing>>

Next == \/ Spool \/ LoadMerging \/ LoadDeduplicating \/ FinishPending \/ LoadPlain
        \/ StartShutdown \/ CloseLevel \/ WriteMetapage

Spec == Init /\ [][Next]_vars

-----------------------------------------------------------------------------
Written == {b \in 1..(Len(write.file) - 1) : write.file[b + 1] # ZeroPage}
PageAt(blk) == write.file[blk + 1]
Leaves == {b \in Written : PageAt(b).level = 0}

\* What a reader of the finished index sees first.
Meta == PageAt(Metapage)

\* The tuples of a leaf, and the bounds of a page: above low, up to high.
TuplesOf(page) ==
  FlattenSeq([i \in DOMAIN page.items |->
    [j \in DOMAIN page.items[i].tids |-> <<page.items[i].key[1], page.items[i].tids[j]>>]])
LowOf(page) == IF page.prev = None THEN Lowest ELSE PageAt(page.prev).high[1]

Chain[b \in Nat] == IF b = None THEN <<>> ELSE TuplesOf(PageAt(b)) \o Chain[PageAt(b).next]
FirstLeaf == CHOOSE b \in Leaves : PageAt(b).prev = None
InOrder == SortSeq(Place(heap), Before)

\* A finished index holds every tuple of the table, dead ones too, once and in the
\* order of key and TID along the leaves, whichever way it was loaded (_bt_load,
\* _bt_sort_dedup_finish_pending, _bt_buildadd).
TuplesInOrder ==
  phase = "done" =>
    IF heap = <<>> THEN Meta.root = None /\ Written = {}
                   ELSE Chain[FirstLeaf] = InOrder

\* The child to search for a key: the last item that is before it.
Descend(page, key) ==
  LET below == {i \in DOMAIN page.items : Before(page.items[i].key, key)}
  IN  page.items[CHOOSE i \in below : \A j \in below : j <= i].down
LeafFor(key) ==
  LET at[l \in 0..Meta.level] ==
        IF l = Meta.level THEN Meta.root ELSE Descend(PageAt(at[l + 1]), key)
  IN  at[0]

\* A search from the root comes to the one leaf that holds the tuple without a
\* step to the right: the downlinks, which are the high keys of the pages to the
\* left, divide the keys as the leaves do, on every level and for equal keys too
\* (_bt_truncate in _bt_buildadd, btps_lowkey, _bt_uppershutdown).
SearchFinds ==
  phase = "done" =>
    \A t \in DOMAIN heap : \E i \in DOMAIN TuplesOf(PageAt(LeafFor(<<heap[t].k, t>>))) :
      TuplesOf(PageAt(LeafFor(<<heap[t].k, t>>)))[i] = <<heap[t].k, t>>

\* Pages of one level are linked both ways once the right one is written, the keys
\* of a page lie above its low key and up to its high key, and only the last page
\* of a level has none (_bt_buildadd, _bt_uppershutdown).
SiblingsAndBounds ==
  \A b \in Written :
    LET page == PageAt(b)
    IN  /\ page.high = <<>> <=> page.next = None
        /\ page.next \in Written => /\ PageAt(page.next).prev = b
                                    /\ PageAt(page.next).level = page.level
        /\ page.prev # None => /\ page.prev \in Written
                               /\ PageAt(page.prev).next = b
        /\ \A i \in DOMAIN page.items :
             LET keys == IF page.level > 0 THEN {page.items[i].key}
                         ELSE {<<page.items[i].key[1], page.items[i].tids[j]>> :
                                 j \in DOMAIN page.items[i].tids}
             IN  \A k \in keys :
                   /\ page.high # <<>> => ~Before(page.high[1], k)
                   /\ page.level = 0 => Before(LowOf(page), k)
                   /\ page.level > 0 /\ i > 1 => Before(LowOf(page), k)

\* Until the metapage is written the index is not valid; when it is, every block
\* that was allocated has its page, each one but the root with one downlink, from
\* the level above it (_bt_blwritepage, _bt_uppershutdown).
ValidOnlyWhenComplete ==
  IF phase = "done"
    THEN /\ Written = 1..(write.alloced - 1) /\ Len(write.file) = write.alloced
         /\ \A b \in Written \ {Meta.root} :
              Cardinality({p \in Written \X (1..PageSize) :
                             /\ p[2] <= Len(PageAt(p[1]).items)
                             /\ PageAt(p[1]).level = PageAt(b).level + 1
                             /\ PageAt(p[1]).items[p[2]].down = b}) = 1
         /\ Meta.root # None => PageAt(Meta.root).root /\ PageAt(Meta.root).level = Meta.level
    ELSE write.file # <<>> => write.file[1] = ZeroPage

HighSize(page) == IF page.high = <<>> THEN 0 ELSE SizeOf(Pivot(page.high[1], None))

\* A page never overflows, with its high key and the TID that truncation may add to
\* it; a page that got a right sibling kept an item; and only a key too large for a
\* leaf stops a build ("This should never fail on internal pages", _bt_buildadd).
PagesFit ==
  /\ \A b \in Written : /\ Space(PageAt(b).items) + HighSize(PageAt(b)) <= PageSize
                        /\ PageAt(b).items # <<>>
  /\ \A l \in DOMAIN write.levels : Free(write.levels[l].page) >= 0
  /\ write.failure # "none" => \E t \in DOMAIN heap : KeySize[heap[t].k] > MaxItem

\* Every page the build writes is one a reader of the index can use: linked to its
\* siblings, within its bounds, and not overfull (_bt_buildadd, _bt_uppershutdown).
PagesSound == SiblingsAndBounds /\ PagesFit
=============================================================================
