----------------------------- MODULE LocalFiles -----------------------------
(***************************************************************************)
(* The local file system.  Sector 0 of the disk is the directory; then     *)
(* come index blocks, several to a sector, and data blocks.  A file is a   *)
(* list of index blocks that point to its data blocks; what no file uses   *)
(* is on two free lists.  The directory is kept in memory; an open file    *)
(* has one index block and one data block in memory.                       *)
(*                                                                         *)
(* A mutex for each open file protects these two, and Lf_data.lf_mutex the *)
(* directory and the free lists.  What a process does under lf_mutex is    *)
(* one step here.  But lfflush in lflclose does not hold it, although it   *)
(* writes the directory and, by reading and writing back a sector, an      *)
(* index block: these are separate steps.  lfspoilt tells that one of them *)
(* undid what another process had written, or that lfsopen, which looks at *)
(* the open files before it takes lf_mutex, opened a file twice.  Nothing  *)
(* is explored behind that.  (An lfibput under lf_mutex is one step: if    *)
(* that of a close falls into its middle, either the order of the two does *)
(* not matter or something is undone as well.)                             *)
(***************************************************************************)
EXTENDS Integers, FiniteSetsExt, SequencesExt

CONSTANTS
    LfProc,             \* processes
    Nlfl,               \* pseudo devices for open files
    LF_NUM_DIR_ENT, LF_BLKSIZ, LF_IBLEN,
    IbSectors, IbPerSector, DataBlocks,     \* the disk
    LfNames, LfModes, LfBytes,    \* what is asked for
    LfOffsets,          \* positions lflseek goes to
    MaxFileSize, MaxTruncs      \* bounds: size of a file, number of truncations

DFILL == "+"

ASSUME LfAssumption ==
    /\ {Nlfl, LF_NUM_DIR_ENT, LF_BLKSIZ, LF_IBLEN, IbSectors, IbPerSector,
        DataBlocks} \subseteq Nat \ {0}
    /\ DFILL \notin LfBytes
    /\ LfOffsets \subseteq Nat

LF_INULL == -1
LF_DNULL == -1
NotAList == -2          \* in the place of a pointer in a block with data
LfNobody == "nobody"

LF_IDATA == LF_IBLEN * LF_BLKSIZ
LfSlot == 0 .. Nlfl - 1
LfIb == 0 .. IbSectors * IbPerSector - 1
\* Data blocks have the sectors behind the index blocks.
LfDb == IbSectors + 1 .. IbSectors + DataBlocks

ib2sect(ib) == ib \div IbPerSector

VARIABLES
    lfsdir, lfib, lfdb,     \* the disk: directory, index and data blocks
    lf_dir, lf_dirpresent, lf_dirdirty,
    lfltab,                 \* open files
    lfmutex,                \* the process that holds the mutex of a file
    lfcall,                 \* the call a process is in
    lfpanic, lfspoilt,
    lftruncs,               \* truncations so far
    lffile                  \* what was written to each file: only observed

lfDisk == <<lfsdir, lfib, lfdb>>
lfVars == <<lfDisk, lf_dir, lf_dirpresent, lf_dirdirty, lfltab, lfmutex, lfcall,
            lfpanic, lfspoilt, lftruncs, lffile>>

-----------------------------------------------------------------------------
(* Formats.                                                                *)

LfIblk == [next : LfIb \cup {LF_INULL}, offset : 0 .. MaxFileSize,
           dba : [0 .. LF_IBLEN - 1 -> LfDb \cup {LF_DNULL}]]
LfBlock == [0 .. LF_BLKSIZ - 1 -> LfBytes \cup {DFILL}]
LfDbfree == [next : LfDb \cup {LF_DNULL, NotAList}, bytes : LfBlock]
LfDentry == [name : LfNames, size : 0 .. MaxFileSize, ilist : LfIb \cup {LF_INULL}]
LfDir(d) ==
    /\ d.dfree \in LfDb \cup {LF_DNULL}
    /\ d.ifree \in LfIb \cup {LF_INULL}
    /\ Len(d.files) <= LF_NUM_DIR_ENT
    /\ Range(d.files) \subseteq LfDentry
LfCblk ==
    [used : BOOLEAN, dirptr : 0 .. LF_NUM_DIR_ENT, pos : 0 .. MaxFileSize,
     inum : LfIb \cup {LF_INULL}, iblock : LfIblk,
     dnum : LfDb \cup {LF_DNULL}, dblock : LfBlock, byte : 0 .. LF_BLKSIZ,
     ibdirty : BOOLEAN, dbdirty : BOOLEAN]

lfibclear(offset) ==
    [next |-> LF_INULL, offset |-> offset,
     dba |-> [i \in 0 .. LF_IBLEN - 1 |-> LF_DNULL]]

LfFilled == [b \in 0 .. LF_BLKSIZ - 1 |-> DFILL]

LfIdle == [op |-> "idle"]

\* lfscreate: all blocks are free, each points to the one behind it.
lfscreate ==
    /\ lfsdir = [dfree |-> IbSectors + 1, ifree |-> 0, files |-> <<>>]
    /\ lfib = [i \in LfIb |->
                 [lfibclear(0) EXCEPT !.next = IF i + 1 \in LfIb THEN i + 1 ELSE LF_INULL]]
    /\ lfdb = [d \in LfDb |->
                 [next |-> IF d + 1 \in LfDb THEN d + 1 ELSE LF_DNULL,
                  bytes |-> LfFilled]]

\* lflinit
LfClosed ==
    [used |-> FALSE, dirptr |-> 0, pos |-> 0, inum |-> LF_INULL,
     iblock |-> lfibclear(0), dnum |-> LF_DNULL, dblock |-> LfFilled,
     byte |-> LF_BLKSIZ, ibdirty |-> FALSE, dbdirty |-> FALSE]

LfInit ==
    /\ lfscreate
    /\ lf_dir = [dfree |-> LF_DNULL, ifree |-> LF_INULL, files |-> <<>>]
    /\ lf_dirpresent = FALSE
    /\ lf_dirdirty = FALSE
    /\ lfltab = [i \in LfSlot |-> LfClosed]
    /\ lfmutex = [i \in LfSlot |-> LfNobody]
    /\ lfcall = [p \in LfProc |-> LfIdle]
    /\ lfpanic = FALSE
    /\ lfspoilt = FALSE
    /\ lftruncs = 0
    /\ lffile = [name \in LfNames |-> <<>>]

-----------------------------------------------------------------------------
(* What is done to an open file and the directory, as functions of a       *)
(* record s of all that may change: f is the control block of the file.    *)

LfState(i) ==
    [dir |-> lf_dir, dirty |-> lf_dirdirty, sdir |-> lfsdir, ib |-> lfib,
     db |-> lfdb, f |-> lfltab[i], panic |-> FALSE]

LfBecomes(i, s) ==
    /\ lf_dir' = s.dir /\ lf_dirdirty' = s.dirty /\ lfsdir' = s.sdir
    /\ lfib' = s.ib /\ lfdb' = s.db
    /\ lfltab' = [lfltab EXCEPT ![i] = s.f]
    /\ lfpanic' = s.panic

\* The directory goes to the disk.
LfSaved(s) == [s EXCEPT !.sdir = s.dir, !.dirty = FALSE]

LfDataWritten(db, f) ==
    IF f.dbdirty THEN [db EXCEPT ![f.dnum] = [next |-> NotAList, bytes |-> f.dblock]]
                 ELSE db

lfflush(s) ==
    [(IF s.dirty THEN LfSaved(s) ELSE s) EXCEPT
        !.db = LfDataWritten(s.db, s.f),
        !.ib = IF s.f.ibdirty THEN [@ EXCEPT ![s.f.inum] = s.f.iblock] ELSE @,
        !.f.dbdirty = FALSE,
        !.f.ibdirty = FALSE]

\* A wrong one for comparison, which forgets the data and the index block.
LfFlushNot(s) == [s EXCEPT !.f.dbdirty = FALSE, !.f.ibdirty = FALSE]

LfFlushed(s) == IF s.f.ibdirty \/ s.f.dbdirty THEN lfflush(s) ELSE s

\* lfiballoc and lfdballoc; without a free block they panic.
lfiballoc(s) ==
    IF s.dir.ifree = LF_INULL THEN [s EXCEPT !.panic = TRUE]
    ELSE LfSaved([s EXCEPT !.dir.ifree = s.ib[s.dir.ifree].next])

lfdballoc(s) ==
    IF s.dir.dfree = LF_DNULL THEN [s EXCEPT !.panic = TRUE]
    ELSE [LfSaved([s EXCEPT !.dir.dfree = s.db[s.dir.dfree].next])
            EXCEPT !.f.dblock = LfFilled]

\* lfibget into the control block.
LfLoaded(s, ib) == [s EXCEPT !.f.inum = ib, !.f.iblock = s.ib[ib]]

\* lfsetup, first part: some index block is in memory that is not behind the
\* position.
LfFirstBlock(s) ==
    LET ilist == s.dir.files[s.f.dirptr].ilist IN
    IF s.f.inum = LF_INULL /\ ilist = LF_INULL
      THEN [lfiballoc(s) EXCEPT
              !.dir.files[s.f.dirptr].ilist = s.dir.ifree,
              !.f.inum = s.dir.ifree,
              !.f.iblock = lfibclear(0),
              !.f.ibdirty = TRUE]
    ELSE IF s.f.inum = LF_INULL \/ s.f.pos < s.f.iblock.offset
      THEN LfLoaded(s, ilist)
    ELSE s

\* A new last index block of the file; a wrong one, for comparison, is not
\* linked to the one before it.
LfExtendUnlinked(s) ==
    [lfiballoc(s) EXCEPT
        !.f.inum = s.dir.ifree,
        !.f.iblock = lfibclear(s.f.iblock.offset + LF_IDATA),
        !.f.ibdirty = TRUE]

LfExtend(s) ==
    [lfiballoc(s) EXCEPT
        !.ib[s.f.inum] = [s.f.iblock EXCEPT !.next = s.dir.ifree],
        !.f.inum = s.dir.ifree,
        !.f.iblock = lfibclear(s.f.iblock.offset + LF_IDATA),
        !.f.ibdirty = TRUE]

\* One turn of the loop that goes to the index block of the position.
LfAdvance(s) ==
    IF s.panic \/ s.f.pos - (s.f.pos % LF_IDATA) <= s.f.iblock.offset THEN s
    ELSE [(IF s.f.iblock.next = LF_INULL THEN LfExtend(s)
                                         ELSE LfLoaded(s, s.f.iblock.next))
            EXCEPT !.f.dnum = LF_DNULL]

\* The last part: the data block.
LfDataBlock(s) ==
    LET dindex == (s.f.pos % LF_IDATA) \div LF_BLKSIZ
        dnum == s.f.iblock.dba[dindex]
    IN  IF s.panic THEN s
        ELSE IF dnum = LF_DNULL
          THEN [lfdballoc(s) EXCEPT !.f.iblock.dba[dindex] = s.dir.dfree,
                                    !.f.ibdirty = TRUE,
                                    !.f.dnum = s.dir.dfree]
        ELSE IF dnum # s.f.dnum
          THEN [s EXCEPT !.f.dblock = s.db[dnum].bytes, !.f.dbdirty = FALSE,
                         !.f.dnum = dnum]
        ELSE s

lfsetup(s) ==
    LET turn[n \in Nat] == IF n = 0 THEN LfFirstBlock(LfFlushed(s))
                                    ELSE LfAdvance(turn[n - 1])
    IN  [LfDataBlock(turn[Cardinality(LfIb)]) EXCEPT !.f.byte = s.f.pos % LF_BLKSIZ]

\* Behind the pointer the sector gets what the buffer happens to hold.  Nobody
\* reads that, so all such contents count as one.
lfdbfree(s, d) ==
    LET dir == [s.dir EXCEPT !.dfree = d] IN
    [s EXCEPT !.db[d] = [next |-> s.dir.dfree, bytes |-> LfFilled],
              !.dir = dir, !.sdir = dir]

\* lftruncate, for one index block: t.ib is the next one of the file.
LfDispose(t, ifree) ==
    LET iblock == t.s.ib[t.ib]
        freed[n \in Nat] ==
            IF n = 0 THEN t.s
            ELSE IF iblock.dba[n - 1] = LF_DNULL THEN freed[n - 1]
            ELSE lfdbfree(freed[n - 1], iblock.dba[n - 1])
        next == IF iblock.next = LF_INULL THEN ifree ELSE iblock.next
    IN  IF t.ib = ifree THEN t
        ELSE [s |-> [freed[LF_IBLEN] EXCEPT !.ib[t.ib] = [lfibclear(0) EXCEPT !.next = next]],
              ib |-> next]

lftruncate(s) ==
    LET e == s.dir.files[s.f.dirptr]
        cleaned == [LfFlushed(s) EXCEPT
                      !.f.pos = 0, !.f.inum = LF_INULL, !.f.dnum = LF_DNULL,
                      !.f.byte = LF_BLKSIZ,
                      !.dir.files[s.f.dirptr] = [e EXCEPT !.ilist = LF_INULL, !.size = 0],
                      !.dirty = TRUE]
        turn[n \in Nat] == IF n = 0 THEN [s |-> cleaned, ib |-> e.ilist]
                                    ELSE LfDispose(turn[n - 1], s.dir.ifree)
    IN  IF e.size = 0 THEN s
        ELSE [turn[Cardinality(LfIb)].s EXCEPT !.dir.ifree = e.ilist, !.dirty = TRUE]

-----------------------------------------------------------------------------
(* Calls.  A process in a call holds the mutex of the file, except while   *)
(* it opens one.                                                           *)

LfCanRun == ~lfpanic /\ ~lfspoilt

\* lfgetmode: each letter at most once, and not both "o" and "n".
lfgetmodeOK(mode) ==
    /\ Cardinality(Range(mode)) = Len(mode)
    /\ Range(mode) \subseteq {"r", "w", "o", "n"}
    /\ ~({"o", "n"} \subseteq Range(mode))

\* The byte pointer is in the block; one place too far, for comparison.
LfToTheEnd(f) == f.byte <= LF_BLKSIZ

LfInBlock(f) == f.byte < LF_BLKSIZ

LfOpen(name) ==
    {i \in LfSlot : lfltab[i].used /\ lf_dir.files[lfltab[i].dirptr].name = name}

LfFree == {i \in LfSlot : ~lfltab[i].used}

\* lfsopen, before it takes lf_mutex.
lfsopenSearch(p, name, mode) ==
    /\ LfCanRun
    /\ lfcall[p] = LfIdle
    /\ lfgetmodeOK(mode)
    /\ LfOpen(name) = {}
    /\ LfFree # {}
    /\ lfcall' = [lfcall EXCEPT ![p] = [op |-> "open", name |-> name, slot |-> Min(LfFree),
                                        mode |-> Range(mode) \cap {"o", "n"}]]
    /\ UNCHANGED <<lfDisk, lf_dir, lf_dirpresent, lf_dirdirty, lfltab, lfmutex,
                   lfpanic, lfspoilt, lftruncs, lffile>>

LfOpened(k) == [LfClosed EXCEPT !.used = TRUE, !.dirptr = k]

\* lfsopen, under lf_mutex.  The file system is the one lfscreate made, so
\* lfscheck is satisfied.  A new file does not make the directory dirty.
lfsopenTake(p) ==
    LET c == lfcall[p]
        dir == IF lf_dirpresent THEN lf_dir ELSE lfsdir
        found == {k \in DOMAIN dir.files : dir.files[k].name = c.name}
        fails == \/ found = {} /\ "o" \in c.mode
                 \/ found = {} /\ Len(dir.files) >= LF_NUM_DIR_ENT
                 \/ found # {} /\ "n" \in c.mode
        k == IF found = {} THEN Len(dir.files) + 1 ELSE Min(found)
    IN  /\ LfCanRun
        /\ c.op = "open"
        /\ lf_dirpresent' = TRUE
        /\ lf_dir' = IF fails \/ found # {} THEN dir
                     ELSE [dir EXCEPT !.files =
                             Append(@, [name |-> c.name, size |-> 0, ilist |-> LF_INULL])]
        /\ lfltab' = IF fails THEN lfltab ELSE [lfltab EXCEPT ![c.slot] = LfOpened(k)]
        /\ lfspoilt' = (~fails /\ (lfltab[c.slot].used \/ LfOpen(c.name) # {}))
        /\ lfcall' = [lfcall EXCEPT ![p] = LfIdle]
        /\ UNCHANGED <<lfDisk, lf_dirdirty, lfmutex, lfpanic, lftruncs, lffile>>

\* A call on an open file, whose mutex is free.
LfMay(p, i) ==
    /\ LfCanRun
    /\ lfcall[p] = LfIdle
    /\ lfmutex[i] = LfNobody
    /\ lfltab[i].used

\* lflclose, in three steps.  The directory:
lflcloseDir(p, i) ==
    /\ LfMay(p, i)
    /\ lfmutex' = [lfmutex EXCEPT ![i] = p]
    /\ lfcall' = [lfcall EXCEPT ![p] = [op |-> "close", slot |-> i,
                                        saves |-> lf_dirdirty]]
    /\ lfsdir' = IF lf_dirdirty THEN lf_dir ELSE lfsdir
    /\ UNCHANGED <<lfib, lfdb, lf_dir, lf_dirpresent, lf_dirdirty, lfltab, lfpanic,
                   lfspoilt, lftruncs, lffile>>

\* lf_dirdirty = FALSE, the data block, and the first half of lfibput, which
\* reads the sector.
lflcloseRead(p) ==
    LET c == lfcall[p]  f == lfltab[c.slot] IN
    /\ LfCanRun
    /\ c.op = "close"
    /\ lf_dirdirty' = (lf_dirdirty /\ ~c.saves)
    /\ lfspoilt' = (c.saves /\ lfsdir # lf_dir)
    /\ lfdb' = LfDataWritten(lfdb, f)
    /\ lfcall' = [lfcall EXCEPT ![p] =
                    [op |-> "put", slot |-> c.slot,
                     sector |-> {<<ib, lfib[ib]>> : ib \in
                                   {ib \in LfIb : f.ibdirty /\ ib2sect(ib) = ib2sect(f.inum)}}]]
    /\ UNCHANGED <<lfsdir, lfib, lf_dir, lf_dirpresent, lfltab, lfmutex, lfpanic, lftruncs, lffile>>

\* The second half of lfibput, which writes the sector back with the index
\* block in its place; the file is closed.  What the control block of a closed
\* file keeps is not read again.
lflcloseWrite(p) ==
    LET c == lfcall[p]  f == lfltab[c.slot]
        changed == {e \in c.sector : lfib[e[1]] # e[2]}
    IN  /\ LfCanRun
        /\ c.op = "put"
        /\ lfib' = [ib \in LfIb |->
                      IF f.ibdirty /\ ib = f.inum THEN f.iblock
                      ELSE IF \E e \in changed : e[1] = ib
                        THEN (CHOOSE e \in changed : e[1] = ib)[2]
                      ELSE lfib[ib]]
        /\ lfspoilt' = (changed # {})
        /\ lfltab' = [lfltab EXCEPT ![c.slot] = LfClosed]
        /\ lfmutex' = [lfmutex EXCEPT ![c.slot] = LfNobody]
        /\ lfcall' = [lfcall EXCEPT ![p] = LfIdle]
        /\ UNCHANGED <<lfsdir, lfdb, lf_dir, lf_dirpresent, lf_dirdirty, lfpanic, lftruncs, lffile>>

LfSize(f) == lf_dir.files[f.dirptr].size
LfNameOf(f) == lf_dir.files[f.dirptr].name

\* A sequence with ch at place n, which is in it or just behind it.
LfPut(s, n, ch) == [i \in 1 .. Max({n, Len(s)}) |-> IF i = n THEN ch ELSE s[i]]

\* The wrong lflseek, for comparison, keeps the byte pointer.
lflseekKeeps(p, i, offset) ==
    /\ LfMay(p, i)
    /\ offset <= LfSize(lfltab[i])
    /\ lfltab' = [lfltab EXCEPT ![i].pos = offset]
    /\ UNCHANGED <<lfDisk, lf_dir, lf_dirpresent, lf_dirdirty, lfmutex, lfcall,
                   lfpanic, lfspoilt, lftruncs, lffile>>

lflseek(p, i, offset) ==
    /\ LfMay(p, i)
    /\ offset <= LfSize(lfltab[i])
    /\ lfltab' = [lfltab EXCEPT ![i].pos = offset, ![i].byte = LF_BLKSIZ]
    /\ UNCHANGED <<lfDisk, lf_dir, lf_dirpresent, lf_dirdirty, lfmutex, lfcall,
                   lfpanic, lfspoilt, lftruncs, lffile>>

\* lflcontrol with LF_CTL_TRUNC, the only function it has.
lflcontrol(p, i) ==
    /\ LfMay(p, i)
    /\ lftruncs < MaxTruncs
    /\ lftruncs' = lftruncs + 1
    /\ LfBecomes(i, lftruncate(LfState(i)))
    /\ lffile' = [lffile EXCEPT ![LfNameOf(lfltab[i])] = <<>>]
    /\ UNCHANGED <<lf_dirpresent, lfmutex, lfcall, lfspoilt>>

\* lflputc and lflgetc, and with them each turn of the loops of lflwrite and
\* lflread: a process takes the mutex, or has it since it set up the block.
\* Bound: nothing is written at MaxFileSize.
LfAtByte(p, op, i) ==
    /\ \/ LfMay(p, i)
       \/ LfCanRun /\ lfcall[p] = [op |-> op, slot |-> i]
    /\ op = "read" => lfltab[i].pos < LfSize(lfltab[i])
    /\ op = "write" => lfltab[i].pos <= LfSize(lfltab[i]) /\ lfltab[i].pos < MaxFileSize

\* Both, if the byte pointer is behind the block.
LfSetup(p, op, i) ==
    /\ LfAtByte(p, op, i)
    /\ ~LfInBlock(lfltab[i])
    /\ LfBecomes(i, lfsetup(LfState(i)))
    /\ lfmutex' = [lfmutex EXCEPT ![i] = p]
    /\ lfcall' = [lfcall EXCEPT ![p] = [op |-> op, slot |-> i]]
    /\ UNCHANGED <<lf_dirpresent, lfspoilt, lftruncs, lffile>>

LfByteDone(p, i) ==
    /\ lfmutex' = [lfmutex EXCEPT ![i] = LfNobody]
    /\ lfcall' = [lfcall EXCEPT ![p] = LfIdle]

LfStore(i, ch) ==
    LET f == lfltab[i] IN
    /\ lf_dir' = IF f.pos >= LfSize(f) THEN [lf_dir EXCEPT !.files[f.dirptr].size = @ + 1]
                                       ELSE lf_dir
    /\ lfltab' = [lfltab EXCEPT ![i] =
                    [f EXCEPT !.dblock[f.byte] = ch, !.byte = @ + 1, !.pos = @ + 1,
                              !.dbdirty = TRUE]]
    /\ lffile' = [lffile EXCEPT ![LfNameOf(f)] = LfPut(@, f.pos + 1, ch)]

\* The wrong lflputc, for comparison, does not tell that the directory
\* changed.
lflputcClean(p, i, ch) ==
    /\ LfAtByte(p, "write", i)
    /\ LfInBlock(lfltab[i])
    /\ LfStore(i, ch)
    /\ LfByteDone(p, i)
    /\ UNCHANGED <<lfDisk, lf_dirpresent, lf_dirdirty, lfpanic, lfspoilt, lftruncs>>

lflputc(p, i, ch) ==
    /\ LfAtByte(p, "write", i)
    /\ LfInBlock(lfltab[i])
    /\ LfStore(i, ch)
    /\ lf_dirdirty' = (lf_dirdirty \/ lfltab[i].pos >= LfSize(lfltab[i]))
    /\ LfByteDone(p, i)
    /\ UNCHANGED <<lfDisk, lf_dirpresent, lfpanic, lfspoilt, lftruncs>>

lflgetc(p, i) ==
    /\ LfAtByte(p, "read", i)
    /\ LfInBlock(lfltab[i])
    /\ lfltab' = [lfltab EXCEPT ![i].byte = @ + 1, ![i].pos = @ + 1]
    /\ LfByteDone(p, i)
    /\ UNCHANGED <<lfDisk, lf_dir, lf_dirpresent, lf_dirdirty, lfpanic, lfspoilt,
                   lftruncs, lffile>>

LfNext ==
    \E p \in LfProc :
        \/ \E name \in LfNames, mode \in LfModes : lfsopenSearch(p, name, mode)
        \/ lfsopenTake(p) \/ lflcloseRead(p) \/ lflcloseWrite(p)
        \/ \E i \in LfSlot :
             \/ lflcloseDir(p, i) \/ lflcontrol(p, i)
             \/ \E offset \in LfOffsets : lflseek(p, i, offset)
             \/ LfSetup(p, "read", i) \/ LfSetup(p, "write", i)
             \/ \E ch \in LfBytes : lflputc(p, i, ch)
             \/ lflgetc(p, i)

LfSpec == LfInit /\ [][LfNext]_lfVars

-----------------------------------------------------------------------------
(* Files as their owners see them.                                         *)

LfDirNow == IF lf_dirpresent THEN lf_dir ELSE lfsdir

\* A block as it is now: the copy in memory counts.
LfIbNow(ib) ==
    LET held == {i \in LfSlot : lfltab[i].used /\ lfltab[i].inum = ib} IN
    IF held = {} THEN lfib[ib] ELSE lfltab[Min(held)].iblock

LfDbNow(d) ==
    LET held == {i \in LfSlot : lfltab[i].used /\ lfltab[i].dnum = d} IN
    IF held = {} THEN lfdb[d].bytes ELSE lfltab[Min(held)].dblock

\* The blocks of a list, up to one more than there are.
LfListOf(first, blocks, next) ==
    LET l[n \in Nat] ==
            IF n = 0 THEN IF first \in blocks THEN <<first>> ELSE <<>>
            ELSE LET before == l[n - 1] IN
                 IF Len(before) = n /\ next[Last(before)] \in blocks
                   THEN Append(before, next[Last(before)]) ELSE before
    IN  l[Cardinality(blocks)]

LfIbList(first) ==
    LET next == [ib \in LfIb |-> LfIbNow(ib).next] IN LfListOf(first, LfIb, next)

LfFreeDb ==
    LET next == [d \in LfDb |-> lfdb[d].next] IN LfListOf(LfDirNow.dfree, LfDb, next)

\* The places for data blocks in the index blocks of a file, in order.
LfPlaces(e) ==
    LET ilist == LfIbList(e.ilist) IN
    [n \in 0 .. Len(ilist) * LF_IBLEN - 1 |->
       LfIbNow(ilist[n \div LF_IBLEN + 1]).dba[n % LF_IBLEN]]

\* The data block for a position of a file.
LfDbAt(e, pos) == LfPlaces(e)[pos \div LF_BLKSIZ]

LfContent(name) ==
    LET dir == LfDirNow
        named == {k \in DOMAIN dir.files : dir.files[k].name = name}
        e == dir.files[Min(named)]
        places == LfPlaces(e)
    IN  IF named = {} THEN <<>>
        ELSE [n \in 1 .. e.size |->
                LfDbNow(places[(n - 1) \div LF_BLKSIZ])[(n - 1) % LF_BLKSIZ]]

-----------------------------------------------------------------------------

LfTypeOK ==
    /\ LfDir(lfsdir) /\ LfDir(lf_dir)
    /\ lfib \in [LfIb -> LfIblk]
    /\ lfdb \in [LfDb -> LfDbfree]
    /\ \A i \in LfSlot : lfltab[i] \in LfCblk
    /\ lfmutex \in [LfSlot -> LfProc \cup {LfNobody}]

\* Every index block and every data block is in one place: once on the free
\* list, or once in one file (lftruncate.c:64, lfsetup.c:45).
BlocksOnce ==
    ~lfspoilt =>
        LET dir == LfDirNow
            file == DOMAIN dir.files
            ibs == [k \in file |-> LfIbList(dir.files[k].ilist)]
            dbs == [k \in file |-> LfPlaces(dir.files[k])]
            ifree == LfIbList(dir.ifree)
            ibUses == UNION {{<<k, n>> : n \in DOMAIN ibs[k]} : k \in file}
                        \cup {<<0, n>> : n \in DOMAIN ifree}
            dbUses == UNION {{<<k, n>> : n \in {n \in DOMAIN dbs[k] : dbs[k][n] # LF_DNULL}} :
                             k \in file}
                        \cup {<<0, n>> : n \in DOMAIN LfFreeDb}
        IN  /\ Cardinality(ibUses) = Cardinality(LfIb)
            /\ UNION {Range(ibs[k]) : k \in file} \cup Range(ifree) = LfIb
            /\ Cardinality(dbUses) = Cardinality(LfDb)
            /\ (UNION {Range(dbs[k]) : k \in file} \ {LF_DNULL}) \cup Range(LfFreeDb) = LfDb

\* The byte pointer of an open file, when it points into the block in memory,
\* points to the byte at the position of the file (lfsetup.c:119).
PointerAtPosition ==
    ~lfspoilt /\ ~lfpanic =>
        \A i \in LfSlot :
            LET f == lfltab[i] IN
            f.used /\ f.byte < LF_BLKSIZ =>
                /\ f.dnum = LfDbAt(lf_dir.files[f.dirptr], f.pos)
                /\ f.byte = f.pos % LF_BLKSIZ

\* The blocks of a file, those in memory and those on the disk, hold exactly
\* what was written to it: a sequence of bytes that lflputc changes at the
\* position and LF_CTL_TRUNC empties.  In particular nothing that happens to
\* one file is seen in another.
FilesAreSequences ==
    ~lfspoilt /\ ~lfpanic => \A name \in LfNames : LfContent(name) = lffile[name]

\* When all files are closed, the disk has all of them, but for new files
\* that are still empty: these reach the disk only with a later change
\* (lfsopen.c:145).
ClosedIsSaved ==
    lf_dirpresent /\ ~lfspoilt /\ LfFree = LfSlot =>
        /\ lfsdir.dfree = lf_dir.dfree /\ lfsdir.ifree = lf_dir.ifree
        /\ \A k \in DOMAIN lf_dir.files :
             \/ k \in DOMAIN lfsdir.files /\ lfsdir.files[k] = lf_dir.files[k]
             \/ k \notin DOMAIN lfsdir.files /\ lf_dir.files[k].size = 0

\* "If named file is already open, return SYSERR" (lfsopen.c:51).
OpenOnce ==
    \A i, j \in LfSlot :
        lfltab[i].used /\ lfltab[j].used /\ lfltab[i].dirptr = lfltab[j].dirptr => i = j

=============================================================================
