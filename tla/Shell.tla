-------------------------------- MODULE Shell --------------------------------
(***************************************************************************)
(* The shell (shell): a line is divided into tokens (lexan), the tokens    *)
(* are read as a command with redirections, and the command is run by the  *)
(* shell itself or by a child, for which the shell waits unless the line   *)
(* ends in an ampersand.                                                   *)
(*                                                                         *)
(* A line is a sequence of characters without its newline.  The shell runs *)
(* without a break but for the calls in which it may wait: read, open and  *)
(* receive.  Nothing in the repository starts it; ShellFirst says that its *)
(* priority is above SHELL_CMDPRIO, so that no child runs before it waits. *)
(***************************************************************************)
EXTENDS Integers, SequencesExt

CONSTANTS
    SHELL_BUFLEN, SHELL_MAXTOK,
    ShellFirst,
    ShCmds,             \* the commands that are not built in
    ShBuiltins,         \* those that are, but kill and exit
    ShLines,            \* lines that are typed
    ShPids, ShDescs,    \* processes and open devices there may be
    ShTty,              \* the device the shell reads from
    ShFail,             \* SYSERR
    ShNone              \* no name, no process, no message

ASSUME ShAssumption ==
    /\ SHELL_BUFLEN \in Nat /\ SHELL_MAXTOK \in Nat \ {0} /\ ShellFirst \in BOOLEAN
    /\ \A l \in ShLines : Len(l) < SHELL_BUFLEN
    /\ {ShTty, ShFail} \cap ShDescs = {} /\ ShNone \notin ShPids

SH_BLANK == "_"
SH_QUOTES == {"sq", "dq"}         \* SH_SQUOTE, SH_DQUOTE
SH_TOKS == {"&", "<", ">"}          \* SH_TOK_AMPER, SH_TOK_LESS, SH_TOK_GREATER
SH_TOK_OTHER == "other"

ShKILL == <<"k">>
ShEXIT == <<"e">>

VARIABLES
    shpc,               \* where the shell is
    shlast,             \* the line read last, its tokens and what came of it
    shcmd,              \* the command it holds
    shstd,              \* stdinput and stdoutput
    shchild,            \* the child it waits for
    shmsg,              \* the message it has
    shkid,              \* its children
    shopen,             \* the name each device is open with
    shlost              \* devices that nobody will close

shVars == <<shpc, shlast, shcmd, shstd, shchild, shmsg, shkid, shopen, shlost>>

ShNoCmd == [args |-> <<>>, in |-> ShNone, out |-> ShNone, bg |-> FALSE]
ShNoKid == [st |-> "free", cmd |-> ShNoCmd, in |-> ShTty, out |-> ShTty]
ShNoLine == [line |-> <<>>, toks |-> <<>>, said |-> "nothing"]

ShInit ==
    /\ shpc = "read" /\ shlast = ShNoLine /\ shcmd = ShNoCmd
    /\ shstd = [in |-> ShTty, out |-> ShTty]
    /\ shchild = ShNone /\ shmsg = ShNone
    /\ shkid = [p \in ShPids |-> ShNoKid]
    /\ shopen = [d \in ShDescs |-> ShNone]
    /\ shlost = {}

-----------------------------------------------------------------------------
(* lexan: one character after the other.  mode is the quote that is open,  *)
(* or tells whether a token has been begun.                                *)

LexStart == [toks |-> <<>>, mode |-> "gap", text |-> <<>>]
LexError(s) == [s EXCEPT !.mode = "error"]

LexDone(s) ==
    [toks |-> Append(s.toks, [typ |-> SH_TOK_OTHER, text |-> s.text]),
     mode |-> "gap", text |-> <<>>]

LexBegin(s, c) ==
    CASE c = SH_BLANK -> s
      [] c \in SH_TOKS -> [s EXCEPT !.toks = Append(@, [typ |-> c, text |-> <<c>>])]
      [] c \in SH_QUOTES -> [s EXCEPT !.mode = c]
      [] OTHER -> [s EXCEPT !.mode = "word", !.text = <<c>>]

\* Without the test of the number of tokens, for comparison.
LexGapAny(s, c) == LexBegin(s, c)

LexGap(s, c) == IF Len(s.toks) >= SHELL_MAXTOK THEN LexError(s) ELSE LexBegin(s, c)

\* A word that goes on after an ampersand, for comparison.
LexWordOn(s, c) ==
    CASE c = SH_BLANK -> LexGap(LexDone(s), c)
      [] c \in SH_QUOTES \cup {"<", ">"} -> LexError(s)
      [] OTHER -> [s EXCEPT !.text = Append(@, c)]

LexWord(s, c) ==
    CASE c \in {SH_BLANK, "&"} -> LexGap(LexDone(s), c)
      [] c \in SH_QUOTES \cup {"<", ">"} -> LexError(s)
      [] OTHER -> [s EXCEPT !.text = Append(@, c)]

LexChar(s, c) ==
    CASE s.mode = "gap" -> LexGap(s, c)
      [] s.mode = "word" -> LexWord(s, c)
      [] s.mode = "error" -> s
      [] s.mode = c -> LexDone(s)
      [] OTHER -> [s EXCEPT !.text = Append(@, c)]

lexan(line) ==
    LET s == FoldLeft(LexChar, LexStart, line) IN
    CASE s.mode = "gap" -> s
      [] s.mode = "word" -> LexDone(s)
      [] OTHER -> LexError(s)

\* The bytes in tokbuf, a null byte behind each token.
LexBytes(toks) == FoldLeft(LAMBDA n, t : n + Len(t.text) + 1, 0, toks)

-----------------------------------------------------------------------------
(* The tokens of a command.                                                *)

\* The last redirection wins, for comparison.
RedirectAgain(r) ==
    LET n == Len(r.toks) IN
    IF n < 3 \/ (n >= 3 /\ r.toks[n - 1].typ \notin {"<", ">"}) THEN r
    ELSE IF r.toks[n].typ # SH_TOK_OTHER THEN [r EXCEPT !.ok = FALSE]
    ELSE IF r.toks[n - 1].typ = "<"
      THEN [r EXCEPT !.toks = SubSeq(@, 1, n - 2), !.in = r.toks[n].text]
      ELSE [r EXCEPT !.toks = SubSeq(@, 1, n - 2), !.out = r.toks[n].text]

\* One redirection taken from the end, when there is one.
Redirect(r) ==
    LET n == Len(r.toks) IN
    IF n < 3 \/ (n >= 3 /\ r.toks[n - 1].typ \notin {"<", ">"}) THEN r
    ELSE IF r.toks[n].typ # SH_TOK_OTHER THEN [r EXCEPT !.ok = FALSE]
    ELSE IF r.toks[n - 1].typ = "<"
      THEN [r EXCEPT !.toks = SubSeq(@, 1, n - 2), !.in = r.toks[n].text,
                     !.ok = @ /\ r.in = ShNone]
      ELSE [r EXCEPT !.toks = SubSeq(@, 1, n - 2), !.out = r.toks[n].text,
                     !.ok = @ /\ r.out = ShNone]

Parse(toks) ==
    LET bg == Last(toks).typ = "&"
        r == Redirect(Redirect([toks |-> IF bg THEN Front(toks) ELSE toks,
                                in |-> ShNone, out |-> ShNone, ok |-> TRUE]))
    IN  [ok |-> /\ r.ok /\ r.toks # <<>>
                /\ \A i \in DOMAIN r.toks : r.toks[i].typ = SH_TOK_OTHER,
         cmd |-> [args |-> [i \in DOMAIN r.toks |-> r.toks[i].text],
                  in |-> r.in, out |-> r.out, bg |-> bg]]

-----------------------------------------------------------------------------
(* Children.                                                               *)

\* A kill that does not tell the parent, for comparison.
ShUntold(p) == shmsg

\* A process at the end of its life tells its parent, when that has no message,
\* and then closes its devices.
ShSent(p) == IF shmsg = ShNone THEN p ELSE shmsg

\* A child that closes only its first descriptor, for comparison.
ShClosedIn(k) == [d \in ShDescs |-> IF d = k.in THEN ShNone ELSE shopen[d]]

ShClosed(k) == [d \in ShDescs |-> IF d \in {k.in, k.out} THEN ShNone ELSE shopen[d]]

ShWaits == shpc \in {"read", "openin", "openout", "closed"} \/ (shpc = "wait" /\ shmsg = ShNone)
ShKidMay == ShellFirst => ShWaits

kidEnds(p) ==
    /\ ShKidMay /\ shkid[p].st = "runs"
    /\ shkid' = [shkid EXCEPT ![p].st = "closes"]
    /\ shmsg' = ShSent(p)
    /\ UNCHANGED <<shpc, shlast, shcmd, shstd, shchild, shopen, shlost>>

kidCloses(p) ==
    /\ ShKidMay /\ shkid[p].st = "closes"
    /\ shopen' = ShClosed(shkid[p])
    /\ shkid' = [shkid EXCEPT ![p] = ShNoKid]
    /\ UNCHANGED <<shpc, shlast, shcmd, shstd, shchild, shmsg, shlost>>

-----------------------------------------------------------------------------
(* The shell.                                                              *)

\* The shell says something and goes on to the next line.
ShSays(line, toks, what) ==
    /\ shlast' = [line |-> line, toks |-> toks, said |-> what]
    /\ shcmd' = ShNoCmd
    /\ shpc' = "read"

\* Built in: exit, kill of a child by its number, and commands that change
\* nothing here.  A child that is killed while it closes its devices is left to
\* the kernel (Processes), and so is the shell that kills itself.
ShBuiltin(line, toks, args) ==
    \/ /\ args[1] = ShEXIT
       /\ shpc' = "closed" /\ shcmd' = ShNoCmd
       /\ shlast' = [line |-> line, toks |-> toks, said |-> "exit"]
       /\ UNCHANGED <<shkid, shopen, shmsg>>
    \/ /\ args[1] = ShKILL
       /\ \E p \in ShPids :
             /\ shkid[p].st = "runs"
             /\ shmsg' = ShSent(p)
             /\ shopen' = ShClosed(shkid[p])
             /\ shkid' = [shkid EXCEPT ![p] = ShNoKid]
       /\ ShSays(line, toks, "done")
    \/ /\ args[1] # ShEXIT
       /\ ShSays(line, toks, "done")
       /\ UNCHANGED <<shkid, shopen, shmsg>>

\* The descriptors stay what they were for the command before, for comparison.
ShStdOld(c) == shstd

\* Before a command is run its input and output are the device of the shell.
ShStdFor(c) == [in |-> ShTty, out |-> ShTty]

\* read to the lookup of the command.
shell(line) ==
    /\ shpc = "read"
    /\ LET s == lexan(line)
           r == Parse(s.toks)
           name == r.cmd.args[1]
           Back(what) == ShSays(line, s.toks, what) /\ UNCHANGED <<shkid, shopen, shmsg, shstd>>
       IN  IF line = <<>> THEN Back("nothing")
           ELSE IF s.mode = "error" THEN Back("syntax")
           ELSE IF s.toks = <<>> THEN Back("blank")
           ELSE IF ~r.ok THEN Back("syntax")
           ELSE /\ shstd' = ShStdFor(r.cmd)
                /\ IF name \in ShCmds
                     THEN /\ shlast' = [line |-> line, toks |-> s.toks, said |-> "runs"]
                          /\ shcmd' = r.cmd /\ shpc' = "openin"
                          /\ UNCHANGED <<shkid, shopen, shmsg>>
                     ELSE IF name \notin ShBuiltins \cup {ShEXIT, ShKILL}
                       THEN ShSays(line, s.toks, "unknown") /\ UNCHANGED <<shkid, shopen, shmsg>>
                     ELSE IF r.cmd.in # ShNone \/ r.cmd.out # ShNone \/ r.cmd.bg
                       THEN ShSays(line, s.toks, "refused") /\ UNCHANGED <<shkid, shopen, shmsg>>
                     ELSE ShBuiltin(line, s.toks, r.cmd.args)
    /\ UNCHANGED <<shchild, shlost>>

\* The end of the input.
shellEOF ==
    /\ shpc = "read"
    /\ shpc' = "closed"
    /\ UNCHANGED <<shlast, shcmd, shstd, shchild, shmsg, shkid, shopen, shlost>>

\* The commands of the shell that fail after a file was opened leave it open.
ShGivesUp(what) ==
    /\ ShSays(shlast.line, shlast.toks, what)
    /\ shlost' = shlost \cup ({shstd.in, shstd.out} \ {ShTty})

\* The result of open is not looked at, for comparison.
ShOpenUnchecked(d) == TRUE

ShOpenOK(d) == d # ShFail

\* What open(NAMESPACE, name) comes back with: a device that is not open, or
\* an error.
ShOpens == {d \in ShDescs : shopen[d] = ShNone} \cup {ShFail}

shellIn ==
    /\ shpc = "openin"
    /\ IF shcmd.in = ShNone
         THEN shpc' = "openout" /\ UNCHANGED <<shlast, shcmd, shstd, shopen, shlost>>
         ELSE \E d \in ShOpens :
                IF ShOpenOK(d)
                  THEN /\ shstd' = [shstd EXCEPT !.in = d]
                       /\ shopen' = [e \in ShDescs |-> IF e = d THEN shcmd.in ELSE shopen[e]]
                       /\ shpc' = "openout"
                       /\ UNCHANGED <<shlast, shcmd, shlost>>
                  ELSE ShGivesUp("input") /\ UNCHANGED <<shstd, shopen>>
    /\ UNCHANGED <<shchild, shmsg, shkid>>

shellOut ==
    /\ shpc = "openout"
    /\ IF shcmd.out = ShNone
         THEN shpc' = "create" /\ UNCHANGED <<shlast, shcmd, shstd, shopen, shlost>>
         ELSE \E d \in ShOpens :
                IF ShOpenOK(d)
                  THEN /\ shstd' = [shstd EXCEPT !.out = d]
                       /\ shopen' = [e \in ShDescs |-> IF e = d THEN shcmd.out ELSE shopen[e]]
                       /\ shpc' = "create"
                       /\ UNCHANGED <<shlast, shcmd, shlost>>
                  ELSE ShGivesUp("output") /\ UNCHANGED <<shstd, shopen>>
    /\ UNCHANGED <<shchild, shmsg, shkid>>

\* The message a dead child left is thrown away before the new one runs.
ShCleared == ShNone

\* create, addargs and the descriptors, recvclr, resume.  addargs finds its
\* dummy on the stack that create made.
shellRuns ==
    /\ shpc = "create"
    /\ \/ /\ ShGivesUp("create")
          /\ UNCHANGED <<shkid, shmsg, shchild>>
       \/ /\ \E p \in ShPids :
                /\ shkid[p].st = "free"
                /\ shkid' = [shkid EXCEPT ![p] =
                               [st |-> "runs", cmd |-> shcmd, in |-> shstd.in, out |-> shstd.out]]
                /\ IF shcmd.bg THEN shchild' = shchild /\ shpc' = "read"
                               ELSE shchild' = p /\ shpc' = "wait"
          /\ shmsg' = ShCleared
          /\ shcmd' = ShNoCmd
          /\ UNCHANGED <<shlast, shlost>>
    /\ UNCHANGED <<shstd, shopen>>

\* Any message is taken for the end of the child, for comparison.
ShAnyChild(msg) == TRUE

ShIsChild(msg) == msg = shchild

\* receive, until it is the child that ended.
shellHears ==
    /\ shpc = "wait" /\ shmsg # ShNone
    /\ IF ShIsChild(shmsg) THEN shpc' = "read" /\ shchild' = ShNone
                           ELSE UNCHANGED <<shpc, shchild>>
    /\ shmsg' = ShNone
    /\ UNCHANGED <<shlast, shcmd, shstd, shkid, shopen, shlost>>

ShGoesOn ==
    \/ shellEOF \/ shellIn \/ shellOut \/ shellRuns \/ shellHears
    \/ \E p \in ShPids : kidEnds(p) \/ kidCloses(p)

ShNext == ShGoesOn \/ \E l \in ShLines : shell(l)

ShSpec == ShInit /\ [][ShNext]_shVars

-----------------------------------------------------------------------------
(* Properties.                                                             *)

ShTypeOK ==
    /\ shpc \in {"read", "openin", "openout", "create", "wait", "closed"}
    /\ {shstd.in, shstd.out} \subseteq ShDescs \cup {ShTty}
    /\ shchild \in ShPids \cup {ShNone} /\ shmsg \in ShPids \cup {ShNone}
    /\ (shpc = "wait") <=> (shchild # ShNone)
    /\ \A p \in ShPids :
          /\ shkid[p].st \in {"free", "runs", "closes"}
          /\ {shkid[p].in, shkid[p].out} \subseteq ShDescs \cup {ShTty}
    /\ shlost \subseteq ShDescs

\* tok has an entry, and tokbuf a byte, for all that lexan puts into them,
\* whatever the line ("Buffer to hold a set of contiguous null-terminated
\* strings of tokens", shell.c:63).
TokensFit ==
    /\ Len(shlast.toks) <= SHELL_MAXTOK
    /\ LexBytes(shlast.toks) <= SHELL_BUFLEN + SHELL_MAXTOK

\* A word, as opposed to a blank, a quote or a token of its own.
ShWordChar(c) == c \notin SH_TOKS \cup SH_QUOTES \cup {SH_BLANK}

\* The quote that is open behind the first i characters of a line.
ShQuoteAfter(line) ==
    LET q[i \in 0 .. Len(line)] ==
          IF i = 0 THEN ShNone
          ELSE IF q[i - 1] = ShNone
            THEN IF line[i] \in SH_QUOTES THEN line[i] ELSE ShNone
            ELSE IF line[i] = q[i - 1] THEN ShNone ELSE q[i - 1]
    IN  q

\* The tokens are those of the line: one for each place where one begins, and
\* together the characters of the line without the blanks between them and the
\* quotes around them; and a line is refused when a quote has no end or a word
\* runs into a quote or a redirection (lexan.c:76-139).
LexedAsTyped ==
    LET line == shlast.line
        q == ShQuoteAfter(line)
        Out(i) == q[i - 1] = ShNone
        begins == {i \in DOMAIN line :
                     Out(i) /\ line[i] # SH_BLANK /\
                     (ShWordChar(line[i]) /\ i > 1 => ~(Out(i - 1) /\ ShWordChar(line[i - 1])))}
        kept == SelectSeq([i \in DOMAIN line |-> i],
                          LAMBDA i : IF Out(i) THEN line[i] \notin SH_QUOTES \cup {SH_BLANK}
                                               ELSE line[i] # q[i - 1])
        bad == \/ q[Len(line)] # ShNone
               \/ \E i \in DOMAIN line :
                     /\ Out(i) /\ i > 1 /\ ShWordChar(line[i - 1]) /\ Out(i - 1)
                     /\ line[i] \in SH_QUOTES \cup {"<", ">"}
    IN  /\ bad => shlast.said = "syntax"
        /\ shlast.said # "syntax" =>
              /\ Len(shlast.toks) = Cardinality(begins)
              /\ FlattenSeq([i \in DOMAIN shlast.toks |-> shlast.toks[i].text])
                   = [i \in DOMAIN kept |-> line[kept[i]]]

\* The redirections that the tokens t are: none, one, or one of each kind.
ShRedirection(t) ==
    /\ Len(t) \in {0, 2, 4}
    /\ \A i \in DOMAIN t : IF i % 2 = 1 THEN t[i].typ \in {"<", ">"} ELSE t[i].typ = SH_TOK_OTHER
    /\ Len(t) = 4 => t[1].typ # t[3].typ

\* "command_name [args*] [redirection] [&]", "Redirection is either or both of
\* < input_file or > output_file" (shell.c:46-54): a line of this form is not a
\* syntax error, and every other line is one.
SyntaxAsDocumented ==
    LET t == shlast.toks
        body == IF t # <<>> /\ Last(t).typ = "&" THEN Front(t) ELSE t
        form == \E n \in 1 .. Len(body) :
                  /\ \A i \in 1 .. n : body[i].typ = SH_TOK_OTHER
                  /\ ShRedirection(SubSeq(body, n + 1, Len(body)))
    IN  /\ shlast.said \in {"runs", "done", "exit", "unknown", "refused", "input", "output", "create"} => form
        /\ shlast.said = "syntax" => ~form \/ lexan(shlast.line).mode = "error"

\* A child reads and writes what its line says, until it closes it: the device
\* of the shell without a redirection, and with one a device that is open with
\* the name given; no two processes hold the same (shell.c:298).
RunsAsTyped ==
    LET Held(d, name) == IF name = ShNone THEN d = ShTty ELSE d # ShTty /\ shopen[d] = name
        devs == {<<p, i>> : p \in {p \in ShPids : shkid[p].st # "free"}, i \in {"in", "out"}}
    IN  /\ \A p \in ShPids : shkid[p].st # "free" =>
              Held(shkid[p].in, shkid[p].cmd.in) /\ Held(shkid[p].out, shkid[p].cmd.out)
        /\ \A x, y \in devs : x # y /\ shkid[x[1]][x[2]] # ShTty =>
              shkid[x[1]][x[2]] # shkid[y[1]][y[2]]

\* The shell that waits for a child will hear of it: the child runs, or the
\* message is there (shell.c:303-308).
WaitsForALife ==
    shpc = "wait" => shkid[shchild].st = "runs" \/ shmsg = shchild

\* A shell that reads the next line waits no more for a child of the foreground:
\* the child has ended, but for closing its devices (shell.c:305).
ForegroundEnded ==
    shpc \in {"read", "openin"} =>
        \A p \in ShPids : shkid[p].st = "runs" => shkid[p].cmd.bg

\* An open device has someone to close it: the child that has it, or the shell
\* on the way to a child; but for those lost where a command is given up.
OpenIsHeld ==
    LET kids == UNION {{shkid[p].in, shkid[p].out} : p \in {p \in ShPids : shkid[p].st # "free"}}
        mine == IF shpc \in {"openin", "openout", "create"} THEN {shstd.in, shstd.out} ELSE {}
    IN  {d \in ShDescs : shopen[d] # ShNone} = (kids \cup mine \cup shlost) \ {ShTty}

\* Refuted: the files of a foreground command are closed when the next line is
\* read.  kill tells the parent before it closes (kill.c:33).
ForegroundClosed ==
    shpc = "openin" => \A p \in ShPids : shkid[p].st # "free" => shkid[p].cmd.bg

=============================================================================
