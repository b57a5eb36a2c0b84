---------------------------- MODULE OffsetIndex ----------------------------
(***************************************************************************)
(* The offset index of one partition (src/log/index.rs): an immutable tree *)
(* of pages that holds the sealed segment descriptors, beside the active   *)
(* tail in the root.  PartitionLog reduces the tree to the set of its page *)
(* objects; here its exact shape is computed: how a full tail is sealed    *)
(* into the tree, how retention rebuilds it, how a bounded fetch walks it  *)
(* and what a reader checks on every page.                                 *)
(*                                                                         *)
(* A reference and the page it names are one record, because pages never   *)
(* change and have fresh names: kids are the page's segments on level 0    *)
(* and the references of its children above.  Checksums, byte lengths and  *)
(* object names are left out.                                              *)
(***************************************************************************)
EXTENDS Integers, SequencesExt

CONSTANTS
    PageEntries,    \* entries of a full tail or page (64 in the code)
    MaxLevel,       \* the highest level of a page (10 in the code)
    Untimed         \* received_at_ms or adopted_at_ms of None

ASSUME IndexAssumption ==
    /\ PageEntries \in Nat \ {0, 1}
    /\ MaxLevel \in Nat
    /\ Untimed \notin Nat

----------------------------------------------------------------------------
(* Segments and pages.                                                     *)

LastOffset(s) == s.base + s.count - 1

\* validate_segments: contiguous from start, none of them empty.
ValidSegments(segs, start) ==
    \A i \in DOMAIN segs :
        /\ segs[i].base = IF i = 1 THEN start ELSE LastOffset(segs[i - 1]) + 1
        /\ segs[i].count > 0 /\ segs[i].bytes > 0

SegmentsEnd(segs, start) ==
    IF segs = <<>> THEN start ELSE LastOffset(Last(segs)) + 1

\* Page::Leaf and Page::Branch with the reference write_page returns.
Leaf(segs) ==
    [first |-> segs[1].base, next |-> SegmentsEnd(segs, 0),
     count |-> Len(segs), level |-> 0, kids |-> segs]

Branch(children) ==
    [first |-> children[1].first, next |-> Last(children).next,
     count |-> FoldLeft(LAMBDA n, c : n + c.count, 0, children),
     level |-> children[1].level + 1, kids |-> children]

\* Option<PageRef> of None.
NoTree == [first |-> 0, next |-> 0, count |-> 0, level |-> -1, kids |-> <<>>]

Capacity(page) == PageEntries ^ (page.level + 1)

Full(page) == page.count = Capacity(page)

\* PageRef::validate
ValidRef(page) ==
    /\ page.level \in 0 .. MaxLevel
    /\ page.first >= 0 /\ page.next > page.first
    /\ page.count \in 1 .. (page.next - page.first)
    /\ page.count <= Capacity(page)

\* validate_children
ValidChildren(children) ==
    /\ Len(children) \in 1 .. PageEntries
    /\ children[1].level < MaxLevel
    /\ \A i \in DOMAIN children :
           /\ ValidRef(children[i])
           /\ children[i].level = children[1].level
           /\ children[i].first =
                  IF i = 1 THEN children[1].first ELSE children[i - 1].next
           /\ i < Len(children) => Full(children[i])

(***************************************************************************)
(* read_page on every page of the tree: a leaf is full, a branch has       *)
(* children in order of which all but the last are full, and each page is  *)
(* what its reference says.  (write_page checks the same but for the full  *)
(* leaf.)                                                                  *)
(***************************************************************************)
RECURSIVE Readable(_)
Readable(page) ==
    /\ ValidRef(page)
    /\ IF page.level = 0
       THEN /\ Len(page.kids) = PageEntries
            /\ ValidSegments(page.kids, page.first)
            /\ page = Leaf(page.kids)
       ELSE /\ ValidChildren(page.kids)
            /\ page = Branch(page.kids)
            /\ \A i \in DOMAIN page.kids : Readable(page.kids[i])

----------------------------------------------------------------------------
(* Growing the tree.                                                       *)

\* index_path: the right edge that lifts a leaf to the given level.
RECURSIVE IndexPath(_, _)
IndexPath(page, level) ==
    IF page.level < level THEN IndexPath(Branch(<<page>>), level) ELSE page

\* Mutant: the last child is popped and not put back.
InsertLeafForgets(tree, leaf) ==
    IF Full(tree)
    THEN Branch(<<tree, IndexPath(leaf, tree.level)>>)
    ELSE Branch(Front(tree.kids) \o <<IndexPath(leaf, tree.level - 1)>>)

(***************************************************************************)
(* insert_leaf: a full tree becomes the left child of a new root, in any   *)
(* other one the leaf goes to the first free place on the right edge.      *)
(***************************************************************************)
RECURSIVE InsertLeaf(_, _)
InsertLeaf(tree, leaf) ==
    IF Full(tree)
    THEN Branch(<<tree, IndexPath(leaf, tree.level)>>)
    ELSE LET last == Last(tree.kids)
         IN  Branch(Front(tree.kids) \o
                 IF Full(last) THEN <<last, IndexPath(leaf, last.level)>>
                               ELSE <<InsertLeaf(last, leaf)>>)

\* insert_leaf gives up (OffsetOverflow) on a full tree of the last level.
Exhausted(root) ==
    /\ Len(root.tail) = PageEntries
    /\ root.tree.level = MaxLevel /\ Full(root.tree)

SealTail(root) ==
    LET leaf == Leaf(root.tail)
    IN  [root EXCEPT !.tail = <<>>,
                     !.tree = IF @ = NoTree THEN leaf ELSE InsertLeaf(@, leaf)]

\* One more descriptor: a full tail is sealed first.
PushSegment(root, segment) ==
    LET open == IF Len(root.tail) = PageEntries THEN SealTail(root) ELSE root
    IN  [open EXCEPT !.tail = Append(@, segment)]

----------------------------------------------------------------------------
(* Roots.  Schema 1 is the legacy manifest, whose segments are all in the  *)
(* tail; no producers are recorded before schema 4.                        *)

DefaultRoot(noDirectory) ==
    [schema |-> 4, rev |-> 0, start |-> 0, next |-> 0, adopted |-> 0,
     tree |-> NoTree, tail |-> <<>>, dir |-> noDirectory]

\* migrate_manifest
Migrate(legacy, now) ==
    LET empty == [DefaultRoot(legacy.dir) EXCEPT !.adopted = now]
    IN  [FoldLeft(PushSegment, empty, legacy.tail)
            EXCEPT !.rev = legacy.rev, !.next = legacy.next]

Chunks(seq) ==
    [i \in 1 .. (Len(seq) + PageEntries - 1) \div PageEntries |->
        SubSeq(seq, (i - 1) * PageEntries + 1,
               IF i * PageEntries < Len(seq) THEN i * PageEntries ELSE Len(seq))]

\* The levels of a rebuilt tree, from its leaves to its one root page.
RECURSIVE Pyramid(_)
Pyramid(pages) ==
    IF Len(pages) <= 1 THEN pages
    ELSE Pyramid([i \in DOMAIN Chunks(pages) |-> Branch(Chunks(pages)[i])])

\* Mutant: an exact multiple of a page is sealed to the last entry.
SealedAll(n) == (n \div PageEntries) * PageEntries

\* How many of n retained segments a rebuild seals; the tail is never empty.
Sealed(n) == IF n = 0 THEN 0 ELSE ((n - 1) \div PageEntries) * PageEntries

Rebuild(segs, start, next, noDirectory) ==
    LET sealed == Sealed(Len(segs))
        leaves == [i \in DOMAIN Chunks(SubSeq(segs, 1, sealed)) |->
                      Leaf(Chunks(SubSeq(segs, 1, sealed))[i])]
        top    == Pyramid(leaves)
    IN  [DefaultRoot(noDirectory) EXCEPT
            !.start = start, !.next = next,
            !.tree = IF top = <<>> THEN NoTree ELSE top[1],
            !.tail = SubSeq(segs, sealed + 1, Len(segs))]

\* The pages a rebuild will write, counted level by level before it starts.
RECURSIVE LevelPages(_)
LevelPages(n) ==
    IF n <= 1 THEN n ELSE n + LevelPages((n + PageEntries - 1) \div PageEntries)

\* Mutant: only the leaves are counted.
RebuildCountLeaves(n) == n + Sealed(n) \div PageEntries

RebuildCount(n) == n + LevelPages(Sealed(n) \div PageEntries)

(***************************************************************************)
(* Root::validate and Manifest::validate, without the directory.           *)
(***************************************************************************)
ValidRoot(root) ==
    LET count == root.tree.count + Len(root.tail)
        start == IF root.tree = NoTree THEN root.start ELSE root.tree.next
    IN  /\ root.schema \in 1 .. 4
        /\ ValidSegments(root.tail, start)
        /\ SegmentsEnd(root.tail, start) = root.next
        /\ root.schema <= 2 => root.rev = count /\ root.start = 0
        /\ root.schema = 2 =>
               root.adopted = Untimed /\ \A i \in DOMAIN root.tail : root.tail[i].at = Untimed
        /\ root.schema >= 3 => root.adopted # Untimed
        /\ root.schema >= 2 =>
               /\ Len(root.tail) <= PageEntries
               /\ root.start >= 0 /\ root.next >= root.start
               /\ root.tree # NoTree => ValidRef(root.tree) /\ root.tree.first = root.start
               /\ root.tail = <<>> => root.tree = NoTree
               /\ count <= root.rev

----------------------------------------------------------------------------
(* Walking the tree.                                                       *)

\* The segments trace_index collects below a page, in offset order.
RECURSIVE PageSegments(_)
PageSegments(page) ==
    IF page.level <= 0 THEN page.kids
    ELSE FlattenSeq([i \in DOMAIN page.kids |-> PageSegments(page.kids[i])])

Segments(root) == PageSegments(root.tree) \o root.tail

\* The page objects trace_index inserts into the live graph.
RECURSIVE PageObjects(_)
PageObjects(page) ==
    IF page = NoTree THEN 0
    ELSE IF page.level = 0 THEN 1
    ELSE FoldLeft(LAMBDA n, c : n + PageObjects(c), 1, page.kids)

\* Selection::new
NewSelection(offset, maximum, oversized) ==
    [offset |-> offset, remaining |-> maximum, allow |-> oversized,
     segs |-> <<>>, oversized |-> FALSE, done |-> FALSE]

\* Mutant: a segment that does not fit is skipped and the scan goes on.
PushSkips(sel, s) ==
    IF sel.done \/ LastOffset(s) < sel.offset \/ s.bytes > sel.remaining THEN sel
    ELSE [sel EXCEPT !.segs = Append(@, s), !.remaining = @ - s.bytes]

(***************************************************************************)
(* Selection::push: the first segment that does not fit ends the response, *)
(* and is still taken when it is the first one and the caller allows it.   *)
(***************************************************************************)
Push(sel, s) ==
    IF sel.done \/ LastOffset(s) < sel.offset THEN sel
    ELSE IF s.bytes > sel.remaining
         THEN IF sel.segs = <<>> /\ sel.allow
              THEN [sel EXCEPT !.segs = <<s>>, !.oversized = TRUE, !.done = TRUE]
              ELSE [sel EXCEPT !.done = TRUE]
    ELSE [sel EXCEPT !.segs = Append(@, s), !.remaining = @ - s.bytes,
                     !.done = sel.remaining = s.bytes]

\* indexed_segments: pages that end before the offset are not read.
RECURSIVE Walk(_, _)
Walk(sel, page) ==
    IF sel.done \/ page.next <= sel.offset THEN sel
    ELSE IF page.level = 0 THEN FoldLeft(Push, sel, page.kids)
    ELSE FoldLeft(LAMBDA s, c : Walk(s, c), sel, page.kids)

\* fetch_snapshot for an offset of the retained range below the end.
Select(root, offset, maximum, oversized) ==
    LET sel == NewSelection(offset, maximum, oversized)
    IN  FoldLeft(Push, IF root.tree = NoTree THEN sel ELSE Walk(sel, root.tree), root.tail)
============================================================================
