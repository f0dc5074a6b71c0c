-------------------------------- MODULE Names --------------------------------
(***************************************************************************)
(* The name space (device/nam): a table of prefixes, each with a string to *)
(* put in its place and a device, and the search that maps a name to a     *)
(* device and to the name that the device is opened with.                  *)
(*                                                                         *)
(* A name is a sequence of characters, without the null byte at its end;   *)
(* the sizes count that byte, as in the code.  namrepl keeps the length of *)
(* a name in a char: nammapped tells of a name that came out without an    *)
(* end.  Nothing is read of the memory behind such a name.                 *)
(***************************************************************************)
EXTENDS Integers, SequencesExt

CONSTANTS
    NM_PRELEN, NM_REPLLEN, NM_MAXLEN, NNAMES,
    CHARHALF,           \* a char has the values from -CHARHALF to CHARHALF - 1
    NamChars,           \* characters of names
    NamDevs,            \* devices, without the name space itself
    NamBoots,           \* what naminit mounts: sequences of <<prefix, string in
                        \* its place, device>>
    NamMounts,          \* what is mounted later
    NamNames            \* names that are opened

NAMESPACE == "NAMESPACE"
NAMERR == "SYSERR"

\* What mount may be called with: a prefix, a string and a device or SYSERR.
NamMountOf == Seq(NamChars) \X Seq(NamChars) \X (NamDevs \cup {NAMESPACE, NAMERR})

\* A char has as many values as a name has places (name.h:7).
ASSUME NamAssumption ==
    /\ {NM_PRELEN, NM_REPLLEN, NM_MAXLEN, NNAMES, CHARHALF} \subseteq Nat \ {0}
    /\ NM_PRELEN <= NM_MAXLEN /\ NM_REPLLEN <= NM_MAXLEN
    /\ NM_MAXLEN <= 2 * CHARHALF
    /\ NAMESPACE \notin NamDevs /\ NAMERR \notin NamDevs
    /\ NamBoots \subseteq Seq(NamMountOf) /\ NamMounts \subseteq NamMountOf
    /\ NamNames \subseteq Seq(NamChars)

VARIABLES
    nametab,            \* the entries in use, in the order of mount
    nammapped           \* what the last call of namopen opened, and of what

namVars == <<nametab, nammapped>>

NamDev == NamDevs \cup {NAMESPACE, NAMERR}
NamNothing == [name |-> <<>>, dev |-> NAMERR, new |-> <<>>, ended |-> TRUE]

-----------------------------------------------------------------------------

\* A length that knows no limit, for comparison.
namlenAny(s, max) == Len(s) + 1

\* The length with the null byte, or SYSERR, which is -1.
namlen(s, max) == IF Len(s) + 1 <= max THEN Len(s) + 1 ELSE -1

\* The table after a mount m = <<prefix, string, device>>: as it was, when the
\* table is full, a string too long or the device bad.
Mounted(table, m) ==
    IF \/ Len(table) >= NNAMES
       \/ namlen(m[1], NM_PRELEN) = -1 \/ namlen(m[2], NM_REPLLEN) = -1
       \/ m[3] = NAMERR
      THEN table
      ELSE Append(table, [prefix |-> m[1], replace |-> m[2], dev |-> m[3]])

\* The table after the first mounts of boot.
NamTables(boot) ==
    LET table[n \in 0 .. Len(boot)] ==
          IF n = 0 THEN <<>> ELSE Mounted(table[n - 1], boot[n])
    IN  table

\* naminit mounts the devices and then the other prefixes.
NamInit ==
    /\ \E boot \in NamBoots : nametab = NamTables(boot)[Len(boot)]
    /\ nammapped = NamNothing

\* What a char keeps of n.
AsChar(n) == ((n + CHARHALF) % (2 * CHARHALF)) - CHARHALF

Matches(name, e) == IsPrefix(e.prefix, name)

\* The last one that matches, for comparison: a later mount hides an earlier.
LastMatch(name) ==
    LET found == {i \in DOMAIN nametab : Matches(name, nametab[i])}
    IN  IF found = {} THEN 0 ELSE Max(found)

\* The first entry whose prefix matches, 0 without one.
FirstMatch(name) ==
    LET found == {i \in DOMAIN nametab : Matches(name, nametab[i])}
    IN  IF found = {} THEN 0 ELSE Min(found)

\* The bytes of the name that go behind the replacement, its null byte
\* included; fewer than one when the char has wrapped around.
Remain(name, e) == AsChar(namlen(name, NM_MAXLEN)) - Len(e.prefix)

\* The test of the space forgets the null byte, for comparison.
TooLongLate(name, e) ==
    namlen(e.replace, NM_MAXLEN) - 1 + Remain(name, e) > NM_MAXLEN + 1

TooLong(name, e) ==
    namlen(e.replace, NM_MAXLEN) - 1 + Remain(name, e) > NM_MAXLEN

\* The new name and the device of one replacement.
namrepl(name) ==
    LET i == FirstMatch(name) IN
    IF i = 0 \/ (i # 0 /\ TooLong(name, nametab[i]))
      THEN [dev |-> NAMERR, new |-> <<>>, ended |-> TRUE]
      ELSE LET e == nametab[i]
               rest == Remain(name, e)
           IN  [dev |-> e.dev,
                new |-> e.replace \o
                          SubSeq(name, Len(e.prefix) + 1, Len(e.prefix) + rest - 1),
                ended |-> rest > 0]

\* One turn of the loop of nammap: a name of the name space is replaced.
NamTurn(d) == IF d.dev = NAMESPACE /\ d.ended THEN namrepl(d.new) ELSE d

\* The names that nammap comes to, one replacement after another.
NamTurns(name) ==
    LET turn[n \in 0 .. Len(nametab)] ==
          IF n = 0 THEN [dev |-> NAMESPACE, new |-> name, ended |-> TRUE]
          ELSE NamTurn(turn[n - 1])
    IN  turn

\* There are at most as many as entries, and then the last is an error.
nammap(name) ==
    LET end == NamTurns(name)[Len(nametab)] IN
    IF namlen(name, NM_MAXLEN) = -1 \/ (end.dev = NAMESPACE /\ end.ended)
      THEN [dev |-> NAMERR, new |-> <<>>, ended |-> TRUE] ELSE end

mount(m) ==
    /\ nametab' = Mounted(nametab, m)
    /\ UNCHANGED nammapped

namopen(name) ==
    LET r == nammap(name) IN
    /\ nammapped' = [name |-> name, dev |-> r.dev, new |-> r.new, ended |-> r.ended]
    /\ UNCHANGED nametab

NamNext ==
    \/ \E m \in NamMounts : mount(m)
    \/ \E n \in NamNames : namopen(n)

NamSpec == NamInit /\ [][NamNext]_namVars

-----------------------------------------------------------------------------
(* Properties.                                                             *)

NamTypeOK ==
    /\ Len(nametab) <= NNAMES
    /\ \A i \in DOMAIN nametab :
          /\ Len(nametab[i].prefix) < NM_PRELEN /\ Len(nametab[i].replace) < NM_REPLLEN
          /\ nametab[i].dev \in NamDevs \cup {NAMESPACE}
    /\ nammapped.dev \in NamDev

\* What nammap writes into the buffer fits it, however many prefixes were
\* replaced and whatever the length of a name is in a char (nammap.c:91).
NewNameFits == Len(nammapped.new) + (IF nammapped.ended THEN 1 ELSE 0) <= NM_MAXLEN

\* What a table says of a name, without limits on sizes and iterations: the
\* last of the names that replacing the first prefix that fits leads to.
Leads(table, d) ==
    LET i == CHOOSE i \in DOMAIN table :
               /\ IsPrefix(table[i].prefix, d.new)
               /\ \A j \in 1 .. i - 1 : ~IsPrefix(table[j].prefix, d.new)
    IN  IF d.dev # NAMESPACE \/ \A j \in DOMAIN table : ~IsPrefix(table[j].prefix, d.new)
          THEN d
          ELSE [dev |-> table[i].dev,
                new |-> table[i].replace
                          \o SubSeq(d.new, Len(table[i].prefix) + 1, Len(d.new))]

Leading(table, name) ==
    LET to[n \in 0 .. NNAMES] ==
          IF n = 0 THEN [dev |-> NAMESPACE, new |-> name] ELSE Leads(table, to[n - 1])
    IN  to

Meaning(table, name) == Leading(table, name)[NNAMES]

\* A name that was mapped, to a name with an end, was mapped to what the table
\* says; and it still says so, whatever has been mounted since ("Search name
\* table for first prefix that matches", nammap.c:63).
MappedForGood ==
    nammapped.dev # NAMERR /\ nammapped.ended =>
        Meaning(nametab, nammapped.name) = [dev |-> nammapped.dev, new |-> nammapped.new]

\* What a name is mapped to fits its buffer and is what the table says, for
\* every table that calls of mount can make.
NamInv == NamTypeOK /\ NewNameFits /\ MappedForGood

\* "keep null on remainder of name" (nammap.c:86): not so when the length of
\* the name does not fit a char.
NameHasItsEnd == nammapped.ended

=============================================================================
