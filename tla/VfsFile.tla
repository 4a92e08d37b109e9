------------------------------- MODULE VfsFile -------------------------------
(***************************************************************************)
(* The files the add-on presents to the media player (src/SACDFile.cpp):   *)
(* one track of the disc as one DSF file, of which the player reads an ID3 *)
(* tag, the DSF header and then the samples of the track's sectors.        *)
(*                                                                         *)
(* What the player gets is written with tokens: one for each piece of the  *)
(* tag and of the header and one for the samples of each sector, which are *)
(* right when the sector was given to sacd_decrypt just in case it was     *)
(* read encrypted (sacd_decrypt is the input's: see DiscInput).  The       *)
(* player may have several files open and calls each from a thread of its  *)
(* own; the tag of the file opened last is kept in the one CSACDFile.      *)
(***************************************************************************)
EXTENDS EncryptedRanges, SequencesExt

CONSTANTS Handles,
          First, End,          \* the track of a handle: sectors First[h]..End[h]-1
          TagSize, HeaderSize, \* tokens of a handle's tag, and of a DSF header
          BigTag,              \* the size of id3_buffer before the tag is rendered
          LowWater,            \* the 32 KB below which more is decoded
          Capacity,            \* the size of decode_buffer
          MaxPending,          \* most sectors whose frames are not complete
          Discs,               \* encrypted: FALSE for the discs the probe is for;
                               \* probed: the track is DSD 3 in 14 or 3 in 16
          MaxRead              \* bound: tokens asked for in one call

\* A track lies in an area, and no area begins at sector 0.
ASSUME SizesAssumption ==
    /\ LowWater \in Nat \ {0} /\ MaxRead \in Nat \ {0}
    /\ {HeaderSize, BigTag, Capacity, MaxPending} \subseteq Nat
    /\ Capacity >= LowWater - 1 + MaxPending + MaxBatch
    /\ {First, End, TagSize} \subseteq [Handles -> Nat]
    /\ \A h \in Handles : 0 < First[h] /\ First[h] <= End[h] /\ TagSize[h] <= BigTag

\* The probe looks at the first sector it meets in an encrypted area; only the
\* formats it is for are ever found unencrypted.
ASSUME ProbeAssumption ==
    /\ Discs \subseteq [encrypted : BOOLEAN, probed : BOOLEAN]
    /\ \A disc \in Discs : ~disc.encrypted => disc.probed

VARIABLES tagSize, tagOwner,   \* id3_buffer: its size and whose tag it holds
          file,                \* file[h]: the SACDContext behind handle h, and
                               \* the disc it was opened on
          got,                 \* history: the tokens the player has been given
          result               \* result[h]: what Open or Read returned last

vars == <<tagSize, tagOwner, file, got, result>>

NoOwner == "none"
Closed == [pc |-> "closed", lsn |-> 0, pos |-> 0, pending |-> <<>>, decoded |-> <<>>,
           checked |-> FALSE, plain |-> FALSE, disc |-> [encrypted |-> TRUE, probed |-> FALSE]]

Init == /\ tagSize = 0 /\ tagOwner = NoOwner
        /\ file = [h \in Handles |-> Closed]
        /\ got = [h \in Handles |-> <<>>]
        /\ result = [h \in Handles |-> "none"]

\* A piece of the tag in the buffer, of the header, and the samples of a
\* sector, as they come out of a right or a wrong decryption.
TagToken(owner, i) == [kind |-> "tag", owner |-> owner, n |-> i, right |-> TRUE]
HeaderToken(h, i) == [kind |-> "header", owner |-> h, n |-> i, right |-> TRUE]
SectorToken(lsn, right) == [kind |-> "samples", owner |-> NoOwner, n |-> lsn, right |-> right]

Give(h, tokens) == /\ got' = [got EXCEPT ![h] = @ \o tokens]
                   /\ result' = [result EXCEPT ![h] = "data"]
-----------------------------------------------------------------------------
(* CSACDFile::Open                                                         *)

\* The disc is opened, the track set up, and the tag's buffer made big ...
Open(h) == /\ file[h].pc = "closed"
           /\ \E disc \in Discs : file' = [file EXCEPT ![h].pc = "opening", ![h].disc = disc]
           /\ got' = [got EXCEPT ![h] = <<>>]
           /\ tagSize' = BigTag
           /\ tagOwner' = NoOwner
           /\ result' = [result EXCEPT ![h] = "none"]

\* ... and cut to the size of the tag that was rendered into it.
RenderTag(h) == /\ file[h].pc = "opening"
                /\ file' = [file EXCEPT ![h].pc = "open", ![h].lsn = First[h]]
                /\ tagSize' = TagSize[h] /\ tagOwner' = h
                /\ UNCHANGED <<got, result>>

\* The disc cannot be opened: nothing is kept.
OpenFails(h) == /\ file[h].pc = "closed"
                /\ result' = [result EXCEPT ![h] = "failed"]
                /\ UNCHANGED <<tagSize, tagOwner, file, got>>

Close(h) == /\ file[h].pc = "open"
            /\ file' = [file EXCEPT ![h] = Closed]
            /\ UNCHANGED <<tagSize, tagOwner, got, result>>
-----------------------------------------------------------------------------
(* CSACDFile::Read                                                         *)

\* The tag first.
ReadTag(h, n) ==
    LET f == file[h]
        copied == Least(n, tagSize - f.pos) IN
    /\ f.pc = "open" /\ f.pos < tagSize
    /\ Give(h, [i \in 1..copied |-> TagToken(tagOwner, f.pos + i)])
    /\ file' = [file EXCEPT ![h].pos = @ + copied]
    /\ UNCHANGED <<tagSize, tagOwner>>

\* Then the header.
ReadHeader(h, n) ==
    LET f == file[h]
        at == f.pos - tagSize
        copied == Least(n, HeaderSize - at) IN
    /\ f.pc = "open" /\ f.pos >= tagSize /\ at < HeaderSize
    /\ Give(h, [i \in 1..copied |-> HeaderToken(h, at + i)])
    /\ file' = [file EXCEPT ![h].pos = @ + copied]
    /\ UNCHANGED <<tagSize, tagOwner>>

\* With the tag and the header behind it, Read decodes batches of sectors until
\* there is enough to give.
Decoding(h) == \/ file[h].pc = "decoding"
               \/ file[h].pc = "open" /\ file[h].pos >= tagSize + HeaderSize

\* Mutant of Short: one piece more is decoded ahead.
ShortByOne(f) == Len(f.decoded) <= LowWater

Short(f) == Len(f.decoded) < LowWater

\* non_encrypted_disc, after the probe of the first batch that is encrypted.
FoundPlain(f, batch) ==
    IF batch.encrypted /\ ~f.checked /\ f.disc.probed THEN ~f.disc.encrypted ELSE f.plain

\* One batch: count sectors are read, the probe is made, the sectors decrypted
\* and given to the frame assembly and the DSF writer, which hand on the first
\* emitted of the sectors they have, as frames and DSF blocks are completed.
DecodeBatch(h) ==
    LET f == file[h]
        batch == NextBatch(f.lsn, End[h])
        plain == FoundPlain(f, batch)
        decrypted == batch.encrypted /\ ~plain
        Right(lsn) == decrypted = (InEncryptedArea(lsn) /\ f.disc.encrypted) IN
    /\ Decoding(h) /\ Short(f) /\ f.lsn < End[h]
    /\ \E count \in 1..batch.size :
         LET sectors == [i \in 1..count |-> SectorToken(f.lsn + i - 1, Right(f.lsn + i - 1))]
             waiting == f.pending \o sectors IN
         \E emitted \in 0..Len(waiting) :
            LET samples == SubSeq(waiting, 1, emitted) IN
            /\ Len(waiting) - emitted <= MaxPending
            /\ file' = [file EXCEPT ![h] =
                  [f EXCEPT !.pc = "decoding", !.lsn = @ + count,
                            !.checked = @ \/ batch.encrypted, !.plain = plain,
                            !.pending = SubSeq(waiting, emitted + 1, Len(waiting)),
                            \* WriteData's result is not looked at
                            !.decoded = IF emitted <= Capacity - Len(@)
                                        THEN @ \o samples ELSE @]]
    /\ UNCHANGED <<tagSize, tagOwner, got, result>>

\* Mutant of ReadFails: the -1 of a failed read is added to the position.
ReadGoesBack(h) ==
    /\ Decoding(h) /\ Short(file[h]) /\ file[h].lsn < End[h]
    /\ file' = [file EXCEPT ![h].pc = "open", ![h].lsn = @ - 1]
    /\ result' = [result EXCEPT ![h] = "error"]
    /\ UNCHANGED <<tagSize, tagOwner, got>>

\* No sector could be read: Read returns -1.
ReadFails(h) ==
    /\ Decoding(h) /\ Short(file[h]) /\ file[h].lsn < End[h]
    /\ file' = [file EXCEPT ![h].pc = "open"]
    /\ result' = [result EXCEPT ![h] = "error"]
    /\ UNCHANGED <<tagSize, tagOwner, got>>

\* Mutant of EndOfFile: the last sector of the track is not read.
EndBeforeLast(h) ==
    /\ Decoding(h) /\ Short(file[h]) /\ file[h].lsn + 1 >= End[h]
    /\ file' = [file EXCEPT ![h].pc = "open"]
    /\ result' = [result EXCEPT ![h] = "end"]
    /\ UNCHANGED <<tagSize, tagOwner, got>>

\* The track has no more sectors: Read returns 0, whatever is left to give.
EndOfFile(h) ==
    /\ Decoding(h) /\ Short(file[h]) /\ file[h].lsn >= End[h]
    /\ file' = [file EXCEPT ![h].pc = "open"]
    /\ result' = [result EXCEPT ![h] = "end"]
    /\ UNCHANGED <<tagSize, tagOwner, got>>

ReadSamples(h, n) ==
    LET f == file[h]
        copied == Least(n, Len(f.decoded)) IN
    /\ Decoding(h) /\ ~Short(f)
    /\ Give(h, SubSeq(f.decoded, 1, copied))
    /\ file' = [file EXCEPT ![h].pc = "open", ![h].pos = @ + copied,
                            ![h].decoded = SubSeq(@, copied + 1, Len(@))]
    /\ UNCHANGED <<tagSize, tagOwner>>

Read(h) == \/ \E n \in 1..MaxRead : ReadTag(h, n) \/ ReadHeader(h, n) \/ ReadSamples(h, n)
           \/ DecodeBatch(h) \/ ReadFails(h) \/ EndOfFile(h)

Next == \E h \in Handles : Open(h) \/ RenderTag(h) \/ OpenFails(h) \/ Close(h) \/ Read(h)

Spec == Init /\ [][Next]_vars
-----------------------------------------------------------------------------
(* Properties.                                                             *)

Tokens == [kind : {"tag", "header", "samples"}, owner : Handles \cup {NoOwner},
           n : Nat, right : BOOLEAN]

TypeOK ==
    /\ tagSize \in Nat /\ tagOwner \in Handles \cup {NoOwner}
    /\ \A h \in Handles :
          /\ file[h].pc \in {"closed", "opening", "open", "decoding"}
          /\ file[h].lsn \in Nat /\ file[h].pos \in Nat
          /\ file[h].pending \in Seq(Tokens) /\ file[h].decoded \in Seq(Tokens)
          /\ {file[h].checked, file[h].plain} \subseteq BOOLEAN
          /\ got[h] \in Seq(Tokens)
          /\ result[h] \in {"none", "failed", "data", "error", "end"}

Started(h) == file[h].pc \in {"open", "decoding"}

\* The whole file, as it should be.
WholeFile(h) ==
    [i \in 1..TagSize[h] |-> TagToken(h, i)]
    \o [i \in 1..HeaderSize |-> HeaderToken(h, i)]
    \o [i \in 1..End[h] - First[h] |-> SectorToken(First[h] + i - 1, TRUE)]

\* What the player has read of a file is the beginning of its tag, its header
\* and the rightly decrypted samples of its sectors in order, without a gap or
\* a repetition: after short reads, failed reads and reads of any size.
PlayerGetsTheFile == \A h \in Handles : IsPrefix(got[h], WholeFile(h))

\* The samples in a sequence of tokens are those of the sectors from..to-1,
\* rightly decrypted, each sector's once and in the order of the disc.
SamplesAre(tokens, from, to) ==
    LET samples == {i \in DOMAIN tokens : tokens[i].kind = "samples"} IN
    /\ \A i \in samples : \E lsn \in from..to - 1 : tokens[i] = SectorToken(lsn, TRUE)
    /\ \A i, j \in samples : i < j => tokens[i].n < tokens[j].n
    /\ \A lsn \in from..to - 1 : \E i \in samples : tokens[i].n = lsn

\* Nothing is lost between the disc and the player: what it was given, what
\* waits in decode_buffer and what waits in the assembly are, one after the
\* other, the file up to the next sector to be read.  So decode_buffer, whose
\* refusal to take data goes unnoticed, always has room.
NothingLost ==
    \A h \in Handles : Started(h) =>
        SamplesAre(got[h] \o file[h].decoded \o file[h].pending, First[h], file[h].lsn)

\* When the end of the file is reported, the player has been given the whole file
\* but for its last sectors: fewer than LowWater in decode_buffer and at most
\* MaxPending whose frames and blocks were never complete.
EndIsTheEnd ==
    \A h \in Handles : Started(h) /\ result[h] = "end" =>
        \A lsn \in First[h]..End[h] - LowWater - MaxPending :
            \E i \in DOMAIN got[h] : got[h][i] = SectorToken(lsn, TRUE)
==============================================================================
