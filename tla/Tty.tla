--------------------------------- MODULE Tty ---------------------------------
(***************************************************************************)
(* The driver of the serial line: a lower half that runs in the interrupt, *)
(* edits the line that is typed and feeds the transmitter, and an upper    *)
(* half that processes call.  Input, output and echo go through circular   *)
(* buffers.  Each half knows how full a buffer is from a semaphore: tyisem *)
(* counts the characters that may be read, tyosem the places that are free.*)
(*                                                                         *)
(* A process in a call is described by tycall; tybusy is the process whose *)
(* call goes on with interrupts disabled.  Of what is echoed and written   *)
(* only the number of characters is kept.                                  *)
(***************************************************************************)
EXTENDS SemOps, FiniteSetsExt, SequencesExt

CONSTANTS
    TyReader, TyWriter,     \* processes
    TY_IBUFLEN, TY_OBUFLEN, TY_EBUFLEN, UART_FIFO_SIZE,
    TyKeys,         \* keys that are pressed
    TyModes,        \* modes ttycontrol sets
    TyCounts        \* counts of ttyread and ttywrite

TyProc == TyReader \cup TyWriter

ASSUME TtyAssumption ==
    /\ {TY_IBUFLEN, TY_OBUFLEN, TY_EBUFLEN, UART_FIFO_SIZE} \subseteq Nat \ {0}
    /\ TyKeys \subseteq {"a", "b", "^A", "\n", "\r", "^H", "^U", "^S", "^Q", "^D"}
    /\ TyModes \subseteq {"R", "C", "K"}
    /\ TyCounts \subseteq Nat

TyNobody == "nobody"

VARIABLES
    tyihead, tyitail, tyibuff, tyisem, tyicursor, tyimode, tyiecho,
    tyohead, tyotail, tyosem, tyoheld,
    tyechoes,   \* characters to echo: from tyehead to tyetail, around the end
    tythre,     \* the transmitter asks for an interrupt
    tycall, tybusy,
    tyispoilt,  \* a character was put where an unread one was, or outside
                \* the buffer, or the mode was changed within a line
    tyoextra    \* a character was sent that was not in the buffer

tyinVars  == <<tyihead, tyitail, tyibuff, tyisem, tyicursor, tyispoilt>>
tymodeVars == <<tyimode, tyiecho>>
tyoutVars == <<tyohead, tyotail, tyosem, tyoextra>>
tyVars == <<tyinVars, tymodeVars, tyoutVars, tyechoes, tyoheld, tythre,
            tycall, tybusy>>

TyIdle == [op |-> "idle", left |-> 0, got |-> 0]

TtyInit ==
    /\ tyihead = 0 /\ tyitail = 0
    /\ tyibuff = [i \in 0 .. TY_IBUFLEN - 1 |-> "a"]
    /\ tyisem = SemCreated(0)
    /\ tyicursor = 0
    /\ tyimode = "C"
    /\ tyiecho = TRUE
    /\ tyohead = 0 /\ tyotail = 0
    /\ tyosem = SemCreated(TY_OBUFLEN)
    /\ tyoheld = FALSE
    /\ tyechoes = 0
    /\ tythre = TRUE
    /\ tycall = [p \in TyProc |-> TyIdle]
    /\ tybusy = TyNobody
    /\ tyispoilt = FALSE
    /\ tyoextra = FALSE

-----------------------------------------------------------------------------
(* What the operators on the buffers and the interrupts need.              *)

TyMod(i, len) == i % len

TyHanded(sem, ops) ==
    {p \in TyProc : tycall[p].op \in ops /\ tycall[p].got = 1 /\ ~Waits(sem, p)}

\* Characters that may be read and have not been, those promised to a reader
\* included; and with the line that is being typed.
TyReadable ==
    tyisem.count + Len(tyisem.queue)
        + Cardinality(TyHanded(tyisem, {"read", "line", "rest", "nextc"}))
TyStored == TyReadable + tyicursor

\* Characters written and not sent; a released writer has not written yet.
TyUnsent ==
    TY_OBUFLEN - tyosem.count - Len(tyosem.queue)
        - Cardinality(TyHanded(tyosem, {"write"}))

TyAvail == IF tyisem.count < 0 THEN 0 ELSE tyisem.count

\* *tyitail++ = ch, with the pointer brought back to the beginning, unless
\* nowrap.
TyPut(ch, nowrap) ==
    /\ tyibuff' = [tyibuff EXCEPT ![tyitail] = ch]
    /\ tyitail' = IF tyitail + 1 >= TY_IBUFLEN /\ ~nowrap THEN 0 ELSE tyitail + 1
    /\ tyispoilt' = (TyStored >= TY_IBUFLEN \/ tyitail' = TY_IBUFLEN)

\* eputc, n times, and nothing else.  Nobody looks whether the echo buffer is
\* full.
TyEcho(n) ==
    /\ tyechoes' = TyMod(tyechoes + n, TY_EBUFLEN)
    /\ tythre' = (n > 0 \/ tythre)

\* echoch
TyEchoOf(ch) ==
    IF ~tyiecho THEN 0 ELSE IF ch \in {"a", "b"} THEN 1 ELSE 2

\* erase1
TyEraseEcho(ch) ==
    IF ~tyiecho THEN 0 ELSE IF ch \in {"a", "b"} THEN 3 ELSE 6

-----------------------------------------------------------------------------
(* ttyhandle_in: a key is pressed.                                         *)

\* Raw mode: no editing, and nothing is echoed.
TyRawKey(ch) ==
    /\ tyimode = "R"
    /\ \/ /\ TyAvail >= TY_IBUFLEN
          /\ UNCHANGED tyinVars
       \/ /\ TyAvail < TY_IBUFLEN
          /\ TyPut(ch, FALSE)
          /\ tyisem' = Signalled(tyisem)
          /\ UNCHANGED <<tyihead, tyicursor>>
    /\ UNCHANGED <<tyechoes, tyoheld, tythre>>

TyFlowKey(ch) ==
    /\ tyimode # "R"
    /\ \/ ch = "^Q" /\ tyoheld' = FALSE /\ tythre' = TRUE
       \/ ch = "^S" /\ tyoheld' = TRUE /\ UNCHANGED tythre
    /\ UNCHANGED <<tyinVars, tyechoes>>

TyCbreakKey(ch) ==
    /\ tyimode = "K"
    /\ tyoheld' = FALSE
    /\ \/ /\ TyAvail >= TY_IBUFLEN
          /\ TyEcho(1)
          /\ UNCHANGED tyinVars
       \/ /\ TyAvail < TY_IBUFLEN
          /\ TyPut(ch, FALSE)
          /\ TyEcho(TyEchoOf(ch))
          /\ tyisem' = Signalled(tyisem)
          /\ UNCHANGED <<tyihead, tyicursor>>

\* A wrong way back, for comparison: not around the beginning.
TyBackStraight(n) == tyitail' = tyitail - n

\* tyitail goes back by n characters.
TyBack(n) == tyitail' = IF tyitail < n THEN tyitail - n + TY_IBUFLEN
                                       ELSE tyitail - n

\* A wrong kill, for comparison: the cursor is kept.
TyKillKeeps ==
    /\ TyBack(tyicursor)
    /\ TyEcho(2)
    /\ UNCHANGED <<tyihead, tyibuff, tyisem, tyicursor, tyispoilt>>

TyKill ==
    /\ TyBack(tyicursor)
    /\ tyicursor' = 0
    /\ TyEcho(2)
    /\ UNCHANGED <<tyihead, tyibuff, tyisem, tyispoilt>>

TyErase ==
    /\ tyicursor' = tyicursor - 1
    /\ TyBack(1)
    /\ TyEcho(TyEraseEcho(tyibuff[TyMod(tyitail + TY_IBUFLEN - 1, TY_IBUFLEN)]))
    /\ UNCHANGED <<tyihead, tyibuff, tyisem, tyispoilt>>

\* The line becomes readable.  Nothing tests whether there is a place for
\* the newline.
TyLine(ch) ==
    /\ TyPut(ch, FALSE)
    /\ TyEcho(TyEchoOf(ch))
    /\ tyisem' = SignalledN(tyisem, tyicursor + 1)
    /\ tyicursor' = 0
    /\ UNCHANGED tyihead

\* End of file, at the beginning of a line: the pointer is not brought back
\* to the beginning of the buffer.
TyEof ==
    /\ TyEcho(TyEchoOf("^D"))
    /\ \/ tyicursor # 0 /\ UNCHANGED tyinVars
       \/ /\ tyicursor = 0
          /\ TyPut("^D", TRUE)
          /\ tyisem' = Signalled(tyisem)
          /\ UNCHANGED <<tyihead, tyicursor>>

TyOrdinary(ch) ==
    /\ TyPut(ch, FALSE)
    /\ TyEcho(TyEchoOf(ch))
    /\ tyicursor' = tyicursor + 1
    /\ UNCHANGED <<tyihead, tyisem>>

TyFull == TyAvail + tyicursor >= TY_IBUFLEN - 1

TyCookedKey(ch) ==
    /\ tyimode = "C"
    /\ tyoheld' = FALSE
    /\ \/ ch = "^U" /\ TyKill
       \/ ch = "^H" /\ tyicursor > 0 /\ TyErase
       \/ ch = "^H" /\ tyicursor = 0 /\ UNCHANGED <<tyinVars, tyechoes, tythre>>
       \/ ch = "\n" /\ TyLine(ch)
       \/ ch \notin {"^U", "^H", "\n"} /\ TyFull /\ TyEcho(1) /\ UNCHANGED tyinVars
       \/ ch = "^D" /\ ~TyFull /\ TyEof
       \/ ch \notin {"^U", "^H", "\n", "^D"} /\ ~TyFull /\ TyOrdinary(ch)

\* tyicrlf
TyMapped(key) == IF key = "\r" THEN "\n" ELSE key

\* Bound: no key is pressed once the input buffer has been spoilt.
ttyhandle_in(key) ==
    LET ch == TyMapped(key) IN
    /\ tybusy = TyNobody
    /\ ~tyispoilt
    /\ \/ TyRawKey(key)
       \/ TyFlowKey(ch)
       \/ ch \notin {"^Q", "^S"} /\ (TyCbreakKey(ch) \/ TyCookedKey(ch))
    /\ UNCHANGED <<tymodeVars, tyoutVars, tycall, tybusy>>

-----------------------------------------------------------------------------
(* ttyhandle_out: the transmitter is empty.                                *)

\* Characters signalled as sent; a wrong count, for comparison.
TyFreedAll(echo, out) == echo + out

TyFreed(echo, out) == out

TyNothing == tyechoes = 0 /\ tyosem.count >= TY_OBUFLEN

\* avail is taken from the semaphore, so it also counts the places promised to
\* processes that wait, or have been released and have not run.
ttyhandle_out ==
    LET echo == Min({UART_FIFO_SIZE, tyechoes})
        avail == Max({0, TY_OBUFLEN - tyosem.count})
        out == Min({UART_FIFO_SIZE - echo, avail})
    IN  /\ tybusy = TyNobody
        /\ tythre
        /\ ~tyoextra       \* bound: nothing is explored behind that
        /\ \/ /\ tyoheld \/ TyNothing
              /\ tythre' = FALSE
              /\ UNCHANGED <<tyechoes, tyoutVars>>
           \/ /\ ~tyoheld /\ ~TyNothing
              /\ tyechoes' = tyechoes - echo
              /\ tyohead' = TyMod(tyohead + out, TY_OBUFLEN)
              /\ tyosem' = SignalledN(tyosem, TyFreed(echo, out))
              /\ tyoextra' = (tyoextra \/ out > TyUnsent)
              /\ UNCHANGED <<tyotail, tythre>>
        /\ UNCHANGED <<tyinVars, tymodeVars, tyoheld, tycall, tybusy>>

-----------------------------------------------------------------------------
(* The upper half.  A call enters its loop with left characters to go; got *)
(* is 1 from the wait until the character is taken or put.                 *)

TyGo(p, c) == tycall' = [tycall EXCEPT ![p] = c]

TyEnter(p, op, n) ==
    /\ tybusy = TyNobody
    /\ tycall[p] = TyIdle
    /\ TyGo(p, [op |-> op, left |-> n, got |-> 0])
    /\ tybusy' = p
    /\ UNCHANGED <<tyinVars, tymodeVars, tyoutVars, tyechoes, tyoheld, tythre>>

\* In cooked mode up to a line; in the others count characters, or what is
\* there.
ttyread(p, count) ==
    \/ tyimode = "C" /\ TyEnter(p, "line", count)
    \/ tyimode # "C" /\ count > 0 /\ TyEnter(p, "read", count)
    \/ tyimode # "C" /\ count = 0 /\ tyisem.count > 0
                     /\ TyEnter(p, "read", tyisem.count)

ttywrite(p, count) == count > 0 /\ TyEnter(p, "write", count)

\* wait(sem), at the top of ttygetc, of ttyputc and of TC_NEXTC.
TyWait(p, sem, ops) ==
    /\ tybusy \in {TyNobody, p}
    /\ tycall[p].op \in ops /\ tycall[p].got = 0
    /\ sem' = Waited(sem, p)
    /\ TyGo(p, [tycall[p] EXCEPT !.got = 1])
    /\ tybusy' = IF Blocks(sem) THEN TyNobody ELSE p

ttygetcWait(p) ==
    /\ TyWait(p, tyisem, {"read", "line", "rest", "nextc"})
    /\ UNCHANGED <<tyihead, tyitail, tyibuff, tyicursor, tyispoilt, tymodeVars,
                   tyoutVars, tyechoes, tyoheld, tythre>>

ttyputcWait(p) ==
    /\ TyWait(p, tyosem, {"write"})
    /\ UNCHANGED <<tyinVars, tymodeVars, tyohead, tyotail, tyoextra, tyechoes,
                   tyoheld, tythre>>

TyContinues(p, ops, sem) ==
    /\ tybusy \in {TyNobody, p}
    /\ tycall[p].op \in ops /\ tycall[p].got = 1
    /\ ~Waits(sem, p)

\* On to the next character, or back to the caller.
TyNext(p, more) ==
    /\ TyGo(p, IF more THEN [tycall[p] EXCEPT !.op = IF @ = "line" THEN "rest" ELSE @,
                                              !.got = 0, !.left = Max({@ - 1, 0})]
                       ELSE TyIdle)
    /\ tybusy' = IF more THEN p ELSE TyNobody

\* The rest of ttygetc, and the test of the loop in ttyread: a line ends with
\* its last character, when the count is reached, or if it begins with the end
\* of file.
ttygetc(p) ==
    LET ch == tyibuff[tyihead] IN
    /\ TyContinues(p, {"read", "line", "rest"}, tyisem)
    /\ tyihead' = TyMod(tyihead + 1, TY_IBUFLEN)
    /\ TyNext(p, /\ tycall[p].left > 1
                 /\ tycall[p].op \in {"line", "rest"} => ch \notin {"\n", "\r"}
                 /\ tycall[p].op = "line" => ch # "^D")
    /\ UNCHANGED <<tyitail, tyibuff, tyisem, tyicursor, tyispoilt, tymodeVars,
                   tyoutVars, tyechoes, tyoheld, tythre>>

\* A wrong ttyputc, for comparison: the transmitter is not started.
ttyputcSilent(p) ==
    /\ TyContinues(p, {"write"}, tyosem)
    /\ tyotail' = TyMod(tyotail + 1, TY_OBUFLEN)
    /\ TyNext(p, tycall[p].left > 1)
    /\ UNCHANGED <<tyinVars, tymodeVars, tyohead, tyosem, tyoextra, tyechoes,
                   tyoheld, tythre>>

ttyputc(p) ==
    /\ TyContinues(p, {"write"}, tyosem)
    /\ tyotail' = TyMod(tyotail + 1, TY_OBUFLEN)
    /\ tythre' = TRUE
    /\ TyNext(p, tycall[p].left > 1)
    /\ UNCHANGED <<tyinVars, tymodeVars, tyohead, tyosem, tyoextra, tyechoes,
                   tyoheld>>

\* TC_NEXTC: look, and put back.
ttynextc(p) ==
    /\ TyContinues(p, {"nextc"}, tyisem)
    /\ tyisem' = Signalled(tyisem)
    /\ TyNext(p, FALSE)
    /\ UNCHANGED <<tyihead, tyitail, tyibuff, tyicursor, tyispoilt, tymodeVars,
                   tyoutVars, tyechoes, tyoheld, tythre>>

\* TC_MODER, TC_MODEC, TC_MODEK, TC_ECHO and TC_NOECHO.
ttycontrol ==
    /\ tybusy = TyNobody
    /\ \/ /\ tyimode' \in TyModes \ {tyimode}
          /\ tyispoilt' = (tyispoilt \/ tyicursor > 0)
          /\ UNCHANGED tyiecho
       \/ /\ TyModes # {}
          /\ tyiecho' = ~tyiecho
          /\ UNCHANGED <<tyimode, tyispoilt>>
    /\ UNCHANGED <<tyihead, tyitail, tyibuff, tyisem, tyicursor, tyoutVars,
                   tyechoes, tyoheld, tythre, tycall, tybusy>>

-----------------------------------------------------------------------------

TyGoOn(p) ==
    ttygetcWait(p) \/ ttyputcWait(p) \/ ttygetc(p) \/ ttyputc(p) \/ ttynextc(p)

TtyNext ==
    \/ \E key \in TyKeys : ttyhandle_in(key)
    \/ ttyhandle_out
    \/ ttycontrol
    \/ \E p \in TyReader : TyEnter(p, "nextc", 1)
    \/ \E p \in TyReader, count \in TyCounts : ttyread(p, count)
    \/ \E p \in TyWriter, count \in TyCounts : ttywrite(p, count)
    \/ \E p \in TyProc : TyGoOn(p)

\* The transmitter interrupts when it is empty: the interrupt is taken at the
\* latest when the calls let interrupts through again and again.  And
\* processes go on.
TtyFairness ==
    /\ SF_tyVars(ttyhandle_out)
    /\ \A p \in TyProc : WF_tyVars(TyGoOn(p))

TtySpec == TtyInit /\ [][TtyNext]_tyVars /\ TtyFairness

-----------------------------------------------------------------------------

\* The variables have their types; the semaphores are sound.
TtyTypeOK ==
    /\ tyihead \in 0 .. TY_IBUFLEN - 1
    /\ tyitail \in 0 .. TY_IBUFLEN
    /\ tyohead \in 0 .. TY_OBUFLEN - 1 /\ tyotail \in 0 .. TY_OBUFLEN - 1
    /\ tyicursor \in 0 .. TY_IBUFLEN
    /\ SemOK(tyisem) /\ SemOK(tyosem)

TyInput(n) == [i \in 1 .. n |-> tyibuff[TyMod(tyihead + i - 1, TY_IBUFLEN)]]

\* Input as the processes see it: readable is a queue of characters, line
\* what is still being typed.
readable == SubSeq(TyInput(TyStored), 1, TyReadable)
line == SubSeq(TyInput(TyStored), TyReadable + 1, TyStored)

\* As long as nothing was spoilt, every step of the driver is one of a line
\* editor with a queue: a key goes to the end of the line, erases the last
\* character or the whole line, or sends the line off with a newline; a
\* reader takes the first character; and nothing else changes either.
LineEdited ==
    [][tyispoilt' \/
         \/ readable' = readable /\ line' = line
         \/ readable' = readable /\ \E ch \in TyKeys : line' = Append(line, ch)
         \/ readable' = readable /\ line # <<>> /\ line' \in {Front(line), <<>>}
         \/ line' = <<>> /\ readable' = readable \o line \o <<"\n">>
         \/ line' = line /\ \E ch \in TyKeys : readable' = Append(readable, ch)
         \/ line' = line /\ readable # <<>> /\ readable' = Tail(readable)]_tyVars

\* As long as no character was sent twice, the semaphore counts the free
\* places of the output buffer, those promised to writers included
\* (ttyhandle_out.c:57 relies on it).
OutputCounted ==
    ~tyoextra =>
        /\ TyUnsent \in 0 .. TY_OBUFLEN
        /\ tyotail = TyMod(tyohead + TyUnsent, TY_OBUFLEN)

\* Only characters of the output queue are sent ("While ... the output queue
\* is nonempty, transmit chars from the output queue", ttyhandle_out.c:53).
OnlyQueuedIsSent == ~tyoextra

\* The circular buffers stay circular, and the semaphore of the output buffer
\* counts its places.
TtyInv ==
    /\ TtyTypeOK
    /\ OutputCounted

\* When output is never held, whatever stays in the buffer with nothing to
\* echo is sent: no interrupt of the transmitter is lost, whatever the writers
\* do.  (Output held and released again may stay: a key that echoes nothing
\* releases it without starting the transmitter, ttyhandle_in.c:71.)
OutputGoesOn ==
    /\ []~tyoheld
    /\ <>[](tyechoes = 0 /\ TyUnsent > 0 /\ ~tyoextra)
    => []<><<tyohead' # tyohead>>_tyVars

=============================================================================
