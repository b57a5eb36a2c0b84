------------------------- MODULE ProducerDirectory -------------------------
(***************************************************************************)
(* The producer directory of one partition (src/log/producer.rs): an       *)
(* immutable B+tree from producer ID to producer state, whose changed path *)
(* is rewritten by every append.  As in OffsetIndex, a reference and the   *)
(* page it names are one record: kids are states on level 0 and references *)
(* above.  A state is its producer's ID and whatever the log remembers of  *)
(* it; that part is ProducerState's business.                              *)
(***************************************************************************)
EXTENDS Integers, SequencesExt

CONSTANTS
    DirectoryEntries,   \* entries of a directory page (64 in the code)
    MaxDirectoryLevel   \* the highest level of a page (12 in the code)

\* A split branch needs two children on each side.
ASSUME DirectoryAssumption ==
    /\ DirectoryEntries \in Nat \ {0, 1, 2}
    /\ MaxDirectoryLevel \in Nat

\* Option<ProducerRef> of None.
NoDirectory == [first |-> 0, last |-> 0, count |-> 0, level |-> -1, kids |-> <<>>]

\* ProducerPage::Leaf and ::Branch with the reference write_producer_page returns.
StatePage(states) ==
    [first |-> states[1].id, last |-> Last(states).id, count |-> Len(states),
     level |-> 0, kids |-> states]

ChildPage(children) ==
    [first |-> children[1].first, last |-> Last(children).last,
     count |-> FoldLeft(LAMBDA n, c : n + c.count, 0, children),
     level |-> children[1].level + 1, kids |-> children]

\* ProducerRef::validate
ValidProducerRef(page) ==
    /\ page.first >= 0 /\ page.last >= page.first
    /\ page.count \in 1 .. (page.last - page.first + 1)
    /\ page.level \in 0 .. MaxDirectoryLevel
    /\ page.count <= DirectoryEntries ^ (page.level + 1)

(***************************************************************************)
(* read_producer_page on every page: ProducerPage::bounds holds and equals *)
(* what the reference says.  Of ProducerState::validate, the bound of its  *)
(* batches by the next offset is kept; ProducerState models the rest.      *)
(***************************************************************************)
RECURSIVE ReadableDirectory(_, _)
ReadableDirectory(page, nextOffset) ==
    /\ ValidProducerRef(page)
    /\ IF page.level = 0
       THEN /\ Len(page.kids) \in 1 .. DirectoryEntries
            /\ \A i \in DOMAIN page.kids : page.kids[i].end <= nextOffset
            /\ \A i \in 2 .. Len(page.kids) : page.kids[i - 1].id < page.kids[i].id
            /\ page = StatePage(page.kids)
       ELSE /\ Len(page.kids) \in 2 .. DirectoryEntries
            /\ \A i \in 2 .. Len(page.kids) :
                   /\ page.kids[i].level = page.kids[1].level
                   /\ page.kids[i - 1].last < page.kids[i].first
            /\ page = ChildPage(page.kids)
            /\ \A i \in DOMAIN page.kids : ReadableDirectory(page.kids[i], nextOffset)

\* producer_state: down the one child whose range holds the ID.
RECURSIVE Lookup(_, _)
Lookup(page, id) ==
    IF page = NoDirectory \/ id < page.first \/ id > page.last THEN <<>>
    ELSE IF page.level = 0 THEN SelectSeq(page.kids, LAMBDA s : s.id = id)
    ELSE LET i == SelectInSeq(page.kids, LAMBDA c : c.first <= id /\ id <= c.last)
         IN  IF i = 0 THEN <<>> ELSE Lookup(page.kids[i], id)

----------------------------------------------------------------------------
(* update_producer.                                                        *)

\* Mutant: an ID that is the last one of a page is sent to the next page.
RouteBeyondLast(children, id) ==
    LET i == SelectInSeq(children, LAMBDA c : id < c.last)
    IN  IF i = 0 THEN Len(children) ELSE i

\* The child an ID is sent to: an ID above all ranges goes to the last one.
Route(children, id) ==
    LET i == SelectInSeq(children, LAMBDA c : id <= c.last)
    IN  IF i = 0 THEN Len(children) ELSE i

\* A page that has grown by one entry too many is split in the middle.
Halves(kids) ==
    IF Len(kids) <= DirectoryEntries THEN <<kids>>
    ELSE <<SubSeq(kids, 1, Len(kids) \div 2), SubSeq(kids, Len(kids) \div 2 + 1, Len(kids))>>

\* The leaf with the state in its place, replacing an older one.
Placed(states, state) ==
    SelectSeq(states, LAMBDA s : s.id < state.id) \o <<state>>
        \o SelectSeq(states, LAMBDA s : s.id > state.id)

\* The one or two pages that replace a page on the path.
RECURSIVE UpdatePath(_, _)
UpdatePath(page, state) ==
    IF page.level <= 0
    THEN LET parts == Halves(Placed(page.kids, state))
         IN  [i \in DOMAIN parts |-> StatePage(parts[i])]
    ELSE LET at    == Route(page.kids, state.id)
             kids  == SubSeq(page.kids, 1, at - 1) \o UpdatePath(page.kids[at], state)
                          \o SubSeq(page.kids, at + 1, Len(page.kids))
             parts == Halves(kids)
         IN  [i \in DOMAIN parts |-> ChildPage(parts[i])]

UpdateProducer(directory, state) ==
    LET pages == UpdatePath(directory, state)
    IN  IF Len(pages) = 1 THEN pages[1] ELSE ChildPage(pages)

\* The page objects trace_producers inserts into the live graph.
RECURSIVE DirectoryObjects(_)
DirectoryObjects(page) ==
    IF page = NoDirectory THEN 0
    ELSE IF page.level = 0 THEN 1
    ELSE FoldLeft(LAMBDA n, c : n + DirectoryObjects(c), 1, page.kids)
============================================================================
