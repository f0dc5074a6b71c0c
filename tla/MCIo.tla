-------------------------------- MODULE MCIo --------------------------------
(***************************************************************************)
(* Instances for TLC of the files and the disk: the local file system, the *)
(* remote disk, the remote files, the name space and the shell.  They      *)
(* share no state, so one of them moves in each behaviour: the one that    *)
(* part names.                                                             *)
(***************************************************************************)
EXTENDS LocalFiles, RemoteDisk, RemoteFiles, Names, Shell

LModes == {<<>>, <<"n", "w">>, <<"o", "n">>}
RModes == {<<>>, <<"r", "o">>, <<"n", "w">>}

\* Nothing mounted at the start; or two devices, a device that is not there, and
\* a prefix that leads on to another.
Boots == {<<>>, << <<<<"a", "b">>, <<>>, "d1">>, <<<<"a">>, <<>>, NAMERR>>,
                   <<<<"b">>, <<"a">>, NAMESPACE>>, <<<<>>, <<"b">>, "d2">> >>}
Mounts == {<<<<"a">>, <<"b">>, NAMESPACE>>, <<<<"b">>, <<"a", "b">>, NAMESPACE>>,
           <<<<"a", "b">>, <<>>, "d1">>, <<<<>>, <<"b", "b", "b", "a">>, "d2">>,
           <<<<"a", "b", "a">>, <<>>, "d1">>, <<<<"b">>, <<>>, "d1">>}
NameStrings == UNION {[1 .. n -> {"a", "b"}] : n \in 0 .. 3}
                 \cup {<<"a", "b", "a", "b">>, <<"b", "a", "b", "a", "b">>,
                       <<"a", "a", "b", "b", "a", "b">>}

Cmds == {<<"c">>}
Builtins == {<<"b">>}

\* Lines that the shell works on: commands in the foreground and in the
\* background, with and without redirection, kill, exit, and lines it refuses.
Typed == {<<"c">>, <<"c", "&">>, <<"k", "_", "c">>, <<"e">>, <<"b">>, <<"x">>,
          <<"k", "_", "<", "f">>, <<"c", "_", "<", "f", "_", "&">>,
          <<"c", "_", "<", "f", "_", ">", "g">>}

\* Lines that are only divided into tokens and looked at.
Read == UNION {[1 .. n -> {"c", "x", "_", "sq", "dq", "<", ">", "&"}] : n \in 0 .. 4}
         \cup {<<"c", "_", "<", "f", "_", ">", "g", "_", "&">>,
               <<"c", "_", ">", "f", "_", "<", "g">>, <<"c", "_", ">", "f", "_", ">", "g">>,
               <<"c", "_", "<", "f", "_", "<", "g">>, <<"c", "_", "c", "_", ">", "f", "&">>,
               <<"c", "_", "sq", "f", "_", "dq", "sq", "dq", "g", "dq">>,
               <<"&", "&", "&", "&", "&", "&", "&", "&", "&", "&">>,
               <<"c", "_", "&", "_", ">", "f">>, <<"<", "f", "_", "<", "f", "_", "c">>}
Lines == Read \cup Typed

VARIABLE part

vars == <<part, lfVars, rdVars, rfVars, namVars, shVars>>

Init ==
    /\ part \in {"lfs", "lftrunc", "rds", "rfs", "names", "lines", "shell"}
    /\ LfInit /\ RdInit /\ RfInit /\ NamInit /\ ShInit
    /\ part # "names" => nametab = <<>>

\* With calls of two processes at once, but no truncation; and with one
\* truncation, but one call at a time.
LocalMoves ==
    /\ part = "lfs" /\ LfNext /\ lftruncs' = 0
    /\ UNCHANGED <<part, rdVars, rfVars, namVars, shVars>>

LocalTruncates ==
    /\ part = "lftrunc" /\ LfNext
    /\ \A p, q \in LfProc : p # q => LfIdle \in {lfcall'[p], lfcall'[q]}
    /\ UNCHANGED <<part, rdVars, rfVars, namVars, shVars>>

DiskMoves == part = "rds" /\ RdNext /\ UNCHANGED <<part, lfVars, rfVars, namVars, shVars>>

RemoteMoves == part = "rfs" /\ RfNext /\ UNCHANGED <<part, lfVars, rdVars, namVars, shVars>>

NamesMove == part = "names" /\ NamNext /\ UNCHANGED <<part, lfVars, rdVars, rfVars, shVars>>

\* One line, and all the commands of one session.
LinesMove ==
    /\ part = "lines" /\ shlast = ShNoLine /\ ShNext
    /\ UNCHANGED <<part, lfVars, rdVars, rfVars, namVars>>

ShellMoves ==
    /\ part = "shell" /\ (ShGoesOn \/ \E l \in Typed : shell(l))
    /\ UNCHANGED <<part, lfVars, rdVars, rfVars, namVars>>

Next == LocalMoves \/ LocalTruncates \/ DiskMoves \/ RemoteMoves \/ NamesMove
        \/ LinesMove \/ ShellMoves

Spec == Init /\ [][Next]_vars

Symmetry == Permutations(RdProc) \cup Permutations(RdBlk)

-----------------------------------------------------------------------------
(* The invariants of the modules, each looked at in the behaviours in      *)
(* which its module moves; in the others it is as it was at the start.     *)
(* RfInv is in RemoteFiles, NamInv in Names.                               *)

\* However the calls of two processes are cut up by the mutexes and the disk:
\* every block is in one place, the open files, the cached blocks and the disk
\* together are the sequences of bytes that were written, and what was closed is
\* on the disk.
LfInv ==
    part \in {"lfs", "lftrunc"} =>
        /\ LfTypeOK
        /\ BlocksOnce
        /\ PointerAtPosition
        /\ FilesAreSequences
        /\ ClosedIsSaved

\* However requests, the communication process and a network that loses, delays
\* and repeats are interleaved: nodes are in one list, whoever is suspended has a
\* request that will be served, cache and queue hold what was written last, and a
\* read gives that or what a late copy of an earlier write put there.
RdInv ==
    part = "rds" =>
        /\ RdTypeOK
        /\ NodesOnce
        /\ SuspendedAreServed
        /\ CacheIsLatest
        /\ ReadsAreFresh

\* Whatever line is read: its tokens fit, they are the words typed, and
\* redirection and background are taken where the syntax of commands has them.
LinesInv ==
    part = "lines" =>
        /\ TokensFit
        /\ LexedAsTyped
        /\ SyntaxAsDocumented

\* From line to line: a command runs with the devices named, the shell waits
\* for a child that lives and prompts when it has ended, whatever messages come
\* meanwhile, and no open device is forgotten by both.
ShInv ==
    part \in {"lines", "shell"} =>
        /\ ShTypeOK
        /\ RunsAsTyped
        /\ WaitsForALife
        /\ ForegroundEnded
        /\ OpenIsHeld

=============================================================================
