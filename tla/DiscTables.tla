----------------------------- MODULE DiscTables -----------------------------
(***************************************************************************)
(* Reading a disc's tables of contents (scarletbook_open, scarletbook_close*)
(* in scarletbook_read.c): the master table, then the tables of one or two *)
(* areas, and what each way through keeps, overwrites and frees.           *)
(*                                                                         *)
(* A pointer is a tuple that names what it points to; a sector is the      *)
(* eight characters it begins with.                                        *)
(***************************************************************************)
EXTENDS Integers, SequencesExt, FiniteSets

CONSTANTS Discs          \* the discs that may be opened

AreaNumbers == {1, 2}
Blocks == {"SACDTTxt", "SACD_IGL", "SACD_ACC", "SACDTRL1", "SACDTRL2", "unknown"}

\* A disc has a master table, of whose sectors one may be wrong ("texts" and
\* "manufacturer": that sector's identifier), a number of titles, and two areas:
\* each named in the master table or not, with what is wrong with its table, its
\* kind, its number of descriptive texts and of tracks, and its blocks.
DiscsAssumption ==
    \A d \in Discs :
      /\ d.master \in {"good", "unreadable", "identifier", "version", "texts", "manufacturer"}
      /\ d.titles \in 0..16
      /\ \A a \in AreaNumbers : LET area == d.areas[a] IN
           /\ area.present \in BOOLEAN /\ area.twoch \in BOOLEAN
           /\ area.table \in {"good", "unreadable", "identifier", "version"}
           /\ area.descriptions \in 0..4 /\ area.tracks \in 0..255
           /\ area.blocks \in Seq(Blocks)

VARIABLES disc, pc,
          handle,        \* the scarletbook_handle_t
          live,          \* the memory that is allocated
          wrongFree      \* history: something was freed that was not allocated

vars == <<disc, pc, handle, live, wrongFree>>
-----------------------------------------------------------------------------
(* The packed structures that are laid over the sectors, as widths.        *)

SACD_LSN_SIZE == 2048
SumOf(widths) == FoldLeft(LAMBDA s, w : s + w, 0, widths)
GenreTable == SumOf(<<1, 2, 1>>)
LocaleTable == SumOf(<<2, 1, 1>>)
MasterToc == SumOf(<<8, 1 + 1, 6, 2, 2, 4, 16, 4 * GenreTable, 8, 4, 4, 4, 4, 1, 3, 2, 2, 16,
                     4 * GenreTable, 2, 1, 1, 4, 1, 7, 8 * LocaleTable>>)
MasterText == SumOf(<<8, 8, 16 * 2, 2000>>)
MasterMan == SumOf(<<8, 2040>>)
AreaToc == SumOf(<<8, 1 + 1, 2, 4, 4, 1, 1, 10, 1, 1, 1, 1, 12, 1, 15, 3, 1, 1, 1, 2, 4, 4, 1, 7,
                   10 * LocaleTable, 2, 2, 2, 10, 2, 2, 2, 2, 1896>>)
Isrc == SumOf(<<2, 3, 2, 5>>)
IsrcGenre == SumOf(<<8, 255 * Isrc, 4, 255 * GenreTable>>)
AccessList == SumOf(<<8, 2, 1, 5, 6550 * 5, 2, 32768>>)
TracklistOffset == SumOf(<<8, 255 * 4, 255 * 4>>)
TracklistTimeEntry == SumOf(<<1, 1, 1, 1>>)
TracklistTime == SumOf(<<8, 255 * TracklistTimeEntry, 255 * TracklistTimeEntry>>)
-----------------------------------------------------------------------------
(* The blocks of an area's table.                                          *)

\* Mutant of Step: the list of genres is taken for one sector.
StepShort(block) == CASE block = "SACD_ACC" -> 32
                      [] OTHER -> 1

\* How far the parser moves for a block, in sectors.
Step(block) == CASE block = "SACD_IGL" -> 2
                 [] block = "SACD_ACC" -> 32
                 [] OTHER -> 1

\* The sectors each structure takes.
SectorsOf(block) ==
    LET bytes == CASE block = "SACD_IGL" -> IsrcGenre [] block = "SACD_ACC" -> AccessList
                   [] block = "SACDTRL1" -> TracklistOffset [] block = "SACDTRL2" -> TracklistTime
                   [] OTHER -> SACD_LSN_SIZE
    IN (bytes + SACD_LSN_SIZE - 1) \div SACD_LSN_SIZE

\* What is in the sectors behind the table's first.
Data == "data"
Sectors(area) ==
    FoldLeft(LAMBDA s, block : s \o <<block>> \o [i \in 1..SectorsOf(block) - 1 |-> Data], <<>>, area.blocks)

NoBlock == 0
NothingFound == [text |-> NoBlock, genres |-> NoBlock, offsets |-> NoBlock, times |-> NoBlock, texts |-> 0]

\* The loop of scarletbook_read_area_toc over the sectors, from p on: of the
\* track texts the first is used, of the others the last; it stops at a sector
\* it does not know.
TakeBlock(found, p, block) ==
    CASE block = "SACDTTxt" -> [found EXCEPT !.text = IF found.texts = 0 THEN p ELSE @, !.texts = @ + 1]
      [] block = "SACD_IGL" -> [found EXCEPT !.genres = p]
      [] block = "SACDTRL1" -> [found EXCEPT !.offsets = p]
      [] block = "SACDTRL2" -> [found EXCEPT !.times = p]
      [] OTHER -> found

ParseBlocks(sectors) ==
    LET turn(a, n) == IF a.p > Len(sectors) \/ a.stopped THEN a
                      ELSE LET block == sectors[a.p] IN
                           IF block \in {"unknown", Data} THEN [a EXCEPT !.stopped = TRUE]
                           ELSE [a EXCEPT !.found = TakeBlock(@, a.p, block), !.p = @ + Step(block)]
    IN FoldLeft(turn, [p |-> 1, stopped |-> FALSE, found |-> NothingFound], [n \in 1..Len(sectors) |-> n]).found
-----------------------------------------------------------------------------
(* Opening.                                                                *)

Null == <<>>
NoSlot == [data |-> Null, area |-> 0, description |-> Null, trackTexts |-> {}, found |-> NothingFound]
NoHandle == [twoch |-> -1, mulch |-> -1, count |-> 0, master |-> Null, titles |-> {},
             slot |-> [i \in 0..2 |-> NoSlot]]

Init == /\ disc \in Discs /\ pc = "closed" /\ handle = NoHandle
        /\ live = {} /\ wrongFree = FALSE

Open == /\ pc = "closed" /\ pc' = "master"
        /\ handle' = NoHandle
        /\ live' = live \cup {<<"handle">>, <<"frame">>}
        /\ UNCHANGED <<disc, wrongFree>>

\* scarletbook_read_master_toc: the texts are converted before the sectors of
\* the other languages and the manufacturer's are looked at.
ReadMaster ==
    LET titles == IF disc.master \in {"good", "texts", "manufacturer"}
                  THEN {<<"title", i>> : i \in 1..disc.titles} ELSE {} IN
    /\ pc = "master"
    /\ handle' = [handle EXCEPT !.master = <<"master">>, !.titles = titles]
    /\ live' = live \cup {<<"master">>} \cup titles
    /\ pc' = IF disc.master = "good" THEN "area1" ELSE "failed"
    /\ UNCHANGED <<disc, wrongFree>>

\* scarletbook_read_area_toc for the area a in the slot: the four texts are all
\* converted into one field.
Descriptions(a) == {<<"description", a, i>> : i \in 1..disc.areas[a].descriptions}
TrackTexts(a, found) == IF found.text = NoBlock THEN {} ELSE {<<"text", a, t>> : t \in 1..disc.areas[a].tracks}

ReadAreaToc(a, h, slot) ==
    LET area == disc.areas[a]
        found == ParseBlocks(Sectors(area))
        withToc == [h EXCEPT !.slot[slot] = [@ EXCEPT !.area = a, !.found = NothingFound]]
        withText == IF area.descriptions = 0 THEN withToc
                    ELSE [withToc EXCEPT !.slot[slot].description = <<"description", a, area.descriptions>>]
        placed == IF area.twoch THEN [withText EXCEPT !.twoch = slot] ELSE [withText EXCEPT !.mulch = slot]
    IN IF area.table = "identifier" THEN [handle |-> withToc, taken |-> {}, good |-> FALSE]
       ELSE IF area.table = "version" THEN [handle |-> withText, taken |-> Descriptions(a), good |-> FALSE]
       ELSE [handle |-> [placed EXCEPT !.slot[slot] = [@ EXCEPT !.found = found, !.trackTexts = TrackTexts(a, found)]],
             taken |-> Descriptions(a) \cup TrackTexts(a, found), good |-> TRUE]

\* The area's table is read into the next slot, which stays the next one when
\* that fails.
ReadArea(a, next) ==
    LET slot == handle.count
        h == [handle EXCEPT !.slot[slot].data = <<"area", a>>]
        read == ReadAreaToc(a, h, slot)
    IN IF ~disc.areas[a].present
       THEN UNCHANGED <<handle, live>> /\ pc' = next
       ELSE IF disc.areas[a].table = "unreadable"
       THEN handle' = h /\ live' = live \cup {<<"area", a>>} /\ pc' = next
       ELSE /\ handle' = [read.handle EXCEPT !.count = @ + IF read.good THEN 1 ELSE 0]
            /\ live' = live \cup {<<"area", a>>} \cup read.taken
            /\ pc' = next

ReadArea1 == pc = "area1" /\ ReadArea(1, "area2") /\ UNCHANGED <<disc, wrongFree>>
ReadArea2 == pc = "area2" /\ ReadArea(2, "open") /\ UNCHANGED <<disc, wrongFree>>
-----------------------------------------------------------------------------
(* Closing.                                                                *)

\* Mutant of AreaPointers: the table itself stays.
AreaPointersWithoutData(i) ==
    IF i = -1 THEN {}
    ELSE (handle.slot[i].trackTexts \cup {handle.slot[i].description}) \ {Null}

\* free_area, and the area's table.
AreaPointers(i) ==
    IF i = -1 THEN {}
    ELSE (handle.slot[i].trackTexts \cup {handle.slot[i].description, handle.slot[i].data}) \ {Null}

\* scarletbook_close, also on the way out of a failed open. Only the two areas
\* can name the same memory.
Pointers == AreaPointers(handle.twoch) \cup AreaPointers(handle.mulch) \cup handle.titles
            \cup ({handle.master, <<"frame">>, <<"handle">>} \ {Null})
Close == /\ pc \in {"open", "failed"} /\ pc' = "closed"
         /\ live' = live \ Pointers
         /\ wrongFree' = \/ wrongFree \/ ~(Pointers \subseteq live)
                         \/ AreaPointers(handle.twoch) \cap AreaPointers(handle.mulch) # {}
         /\ handle' = NoHandle
         /\ UNCHANGED disc

Next == Open \/ ReadMaster \/ ReadArea1 \/ ReadArea2 \/ Close
Spec == Init /\ [][Next]_vars
-----------------------------------------------------------------------------
(* Properties.                                                             *)

TablesTypeOK == /\ pc \in {"closed", "master", "area1", "area2", "open", "failed"}
                /\ handle.twoch \in -1..1 /\ handle.mulch \in -1..1 /\ handle.count \in 0..2
                /\ wrongFree \in BOOLEAN /\ IsFiniteSet(live)

\* A disc whose tables are as they should be: the areas that it has can be read,
\* are of two kinds, and have one description at most.
Sound(d) == /\ d.master = "good"
            /\ \A a \in AreaNumbers : d.areas[a].present =>
                  d.areas[a].table = "good" /\ d.areas[a].descriptions <= 1
            /\ d.areas[1].present /\ d.areas[2].present => d.areas[1].twoch # d.areas[2].twoch

\* Whatever the disc, closing frees nothing twice and nothing that was not
\* allocated; and a disc that is sound, or that is refused for its master table,
\* leaves nothing allocated.
ClosingFreesWhatOpeningTook ==
    /\ ~wrongFree
    /\ pc = "closed" /\ (Sound(disc) \/ disc.master # "good") => live = {}

\* The blocks up to the first unknown one, and where they begin.
Known(a) == SelectInSeq(disc.areas[a].blocks \o <<"unknown">>, LAMBDA b : b = "unknown") - 1
StartOf(a, i) == 1 + SumOf([k \in 1..i - 1 |-> SectorsOf(disc.areas[a].blocks[k])])
StartsOf(a, block) == {StartOf(a, i) : i \in {k \in 1..Known(a) : disc.areas[a].blocks[k] = block}}
Least(S) == IF S = {} THEN NoBlock ELSE CHOOSE x \in S : \A y \in S : x <= y
Greatest(S) == IF S = {} THEN NoBlock ELSE CHOOSE x \in S : \A y \in S : y <= x

\* An open disc's two-channel and multi-channel areas are areas of that kind,
\* not the same, among those that were counted, each with its own table and
\* texts; and its tables lie where the disc has them.
AreasAreWhatTheySay ==
    pc = "open" =>
      /\ handle.twoch # -1 => handle.twoch # handle.mulch
      /\ \A i \in {handle.twoch, handle.mulch} \ {-1} :
           LET slot == handle.slot[i]
               a == slot.area IN
           /\ i < handle.count
           /\ slot.data = <<"area", a>> /\ disc.areas[a].twoch = (i = handle.twoch)
           /\ \A t \in slot.trackTexts : t[2] = a
           /\ slot.found.text = Least(StartsOf(a, "SACDTTxt"))
           /\ slot.found.genres = Greatest(StartsOf(a, "SACD_IGL"))
           /\ slot.found.offsets = Greatest(StartsOf(a, "SACDTRL1"))
           /\ slot.found.times = Greatest(StartsOf(a, "SACDTRL2"))
           /\ AreaToc = SACD_LSN_SIZE /\ MasterToc <= SACD_LSN_SIZE
           /\ MasterText = SACD_LSN_SIZE /\ MasterMan = SACD_LSN_SIZE
==============================================================================
