------------------------------ MODULE FileTool ------------------------------
(***************************************************************************)
(* src/kernel/tools/FileTool.cpp: the file tool of the agents.  Calls of   *)
(* different chains run on different threads and nothing locks the file:   *)
(* a line operation reads all lines, changes its copy, truncates the file  *)
(* and writes the copy back; an append looks at the last byte and writes   *)
(* later.                                                                  *)
(*                                                                         *)
(* One file.  A line is the sequence of the pieces of text in it, so that  *)
(* two texts run together on one line show; ended tells whether the file   *)
(* ends with a newline.  A piece of text may open a block, close one or    *)
(* hold the phrase a caller looks for.                                     *)
(***************************************************************************)
EXTENDS Integers, Sequences, SequencesExt, FiniteSets, FiniteSetsExt

CONSTANTS
    Chains,
    Texts,                  \* pieces of text: 1 .. n, each written once
    Opens, Closes, Phrases, \* texts that match blockStart, blockEnd, the phrase
    Limit,                  \* kDefaultReadLimit
    MaxCrashes

VARIABLES file, ended, used, chain, reading, log, crashes

fileToolVars == <<file, ended, used, chain, reading, log, crashes>>

Idle == [pc |-> "idle"]
NotReading == [next |-> 0, got |-> <<>>, of |-> <<>>, same |-> TRUE, done |-> FALSE]

FileToolInit ==
    /\ file = <<>> /\ ended = TRUE /\ used = 0 /\ log = {} /\ crashes = 0
    /\ chain = [c \in Chains |-> Idle] /\ reading = [c \in Chains |-> NotReading]

-----------------------------------------------------------------------------
(* HandleRead: the lines from an offset on, at most the limit of them, and *)
(* where to go on when there are more.                                     *)
ReadLines(offset) == SubSeq(file, offset, Min({Len(file), offset + Limit - 1}))

Hint_OffByOne(offset) ==
    LET n == Len(ReadLines(offset)) IN IF Len(file) > offset + n - 1 THEN offset + n + 1 ELSE 0

Hint(offset) ==
    LET n == Len(ReadLines(offset)) IN IF Len(file) > offset + n - 1 THEN offset + n ELSE 0

HandleRead(c) ==
    LET r == reading[c]
        offset == IF r.next = 0 THEN 1 ELSE r.next
        before == IF r.next = 0 THEN NotReading ELSE r
        whole == IF r.next = 0 THEN file ELSE r.of
    IN /\ chain[c] = Idle /\ file # <<>> /\ ~r.done
       /\ reading' = [reading EXCEPT ![c] =
             [next |-> Hint(offset), got |-> before.got \o ReadLines(offset),
              of |-> whole, same |-> before.same /\ whole = file, done |-> Hint(offset) = 0]]
       /\ UNCHANGED <<file, ended, used, chain, log, crashes>>

ReadEnds(c) ==
    /\ reading[c].done /\ reading' = [reading EXCEPT ![c] = NotReading]
    /\ UNCHANGED <<file, ended, used, chain, log, crashes>>

(* findBlock: back from the phrase to the nearest start, then on from the  *)
(* phrase to the nearest end, or with nesting from the start to where the  *)
(* braces balance.                                                         *)
Has(i, S) == \E x \in Range(file[i]) : x \in S
Count(i, S) == Cardinality({x \in Range(file[i]) : x \in S})

StartOf(p) == {i \in 1 .. p : Has(i, Opens) /\ \A j \in i + 1 .. p : ~Has(j, Opens)}

FirstOf(S) == IF S = {} THEN Len(file) ELSE Min(S)

EndFrom_Start(s, p) == FirstOf({i \in s .. Len(file) : Has(i, Closes)})

EndFrom(s, p) == FirstOf({i \in p .. Len(file) : Has(i, Closes)})

Depth(s, i) == MapThenSumSet(LAMBDA j : Count(j, Opens) - Count(j, Closes), s .. i)

NestedEnd(s) == FirstOf({i \in s .. Len(file) : Depth(s, i) <= 0 /\ Has(i, Closes)})

-----------------------------------------------------------------------------
(* write: an empty text over a non-empty file is refused.                  *)
HandleWrite(c, nl) ==
    /\ chain[c] = Idle /\ used < Cardinality(Texts)
    /\ used' = used + 1
    /\ chain' = [chain EXCEPT ![c] = [pc |-> "write", lines |-> <<<<used + 1>>>>, nl |-> nl,
                                      text |-> used + 1]]
    /\ log' = {} /\ file' = <<>> /\ ended' = TRUE
    /\ UNCHANGED <<reading, crashes>>

(* insertLines, replaceLines and deleteLines read everything first; a      *)
(* range past the end is refused, an insertion past it goes to the end.    *)
LoadInsert(c, at) ==
    LET n == used + 1
        pos == Min({at - 1, Len(file)})
    IN /\ chain[c] = Idle /\ n \in Texts /\ used' = n
       /\ chain' = [chain EXCEPT ![c] =
             [pc |-> "truncate",
              lines |-> SubSeq(file, 1, pos) \o <<<<n>>>> \o SubSeq(file, pos + 1, Len(file)),
              gone |-> {}, text |-> n]]
       /\ UNCHANGED <<file, ended, reading, log, crashes>>

LoadReplace(c, a, b) ==
    LET n == used + 1
    IN /\ chain[c] = Idle /\ n \in Texts /\ a <= b /\ b <= Len(file) /\ used' = n
       /\ chain' = [chain EXCEPT ![c] =
             [pc |-> "truncate",
              lines |-> SubSeq(file, 1, a - 1) \o <<<<n>>>> \o SubSeq(file, b + 1, Len(file)),
              gone |-> UNION {Range(file[i]) : i \in a .. b}, text |-> n]]
       /\ UNCHANGED <<file, ended, reading, log, crashes>>

LoadDelete(c, a, b) ==
    /\ chain[c] = Idle /\ a <= b /\ b <= Len(file)
    /\ chain' = [chain EXCEPT ![c] =
          [pc |-> "truncate", lines |-> SubSeq(file, 1, a - 1) \o SubSeq(file, b + 1, Len(file)),
           gone |-> UNION {Range(file[i]) : i \in a .. b}, text |-> 0]]
    /\ UNCHANGED <<file, ended, used, reading, log, crashes>>

(* edit: the text must be there once; the rest of the file is kept as is.  *)
LoadEdit(c, t) ==
    LET n == used + 1
    IN /\ chain[c] = Idle /\ n \in Texts /\ used' = n
       /\ \E i \in DOMAIN file : Has(i, {t})
       /\ chain' = [chain EXCEPT ![c] =
             [pc |-> "truncate",
              lines |-> [i \in DOMAIN file |-> [k \in DOMAIN file[i] |-> IF file[i][k] = t THEN n ELSE file[i][k]]],
              gone |-> {t}, text |-> n]]
       /\ UNCHANGED <<file, ended, reading, log, crashes>>

(* WriteAllLines: open with trunc, then the lines, each with its newline.  *)
Truncate(c) ==
    LET r == chain[c]
    IN /\ r.pc = "truncate" /\ file' = <<>> /\ ended' = TRUE
       /\ log' = log \ r.gone
       /\ chain' = [chain EXCEPT ![c] = [pc |-> "write", lines |-> r.lines, nl |-> TRUE,
                                         text |-> r.text]]
       /\ UNCHANGED <<used, reading, crashes>>

WriteAllLines(c) ==
    LET r == chain[c]
    IN /\ r.pc = "write"
       /\ file' = r.lines /\ ended' = (r.nl \/ r.lines = <<>>)
       /\ log' = log \cup ({r.text} \ {0})
       /\ chain' = [chain EXCEPT ![c] = Idle]
       /\ UNCHANGED <<used, reading, crashes>>

(* appendLines: whether a newline goes first is decided before the file is *)
(* opened for appending.                                                   *)
AppendChecks_NoNewline(c) ==
    /\ chain[c] = Idle /\ used + 1 \in Texts /\ used' = used + 1
    /\ chain' = [chain EXCEPT ![c] = [pc |-> "append", prepend |-> FALSE, text |-> used + 1]]
    /\ UNCHANGED <<file, ended, reading, log, crashes>>

AppendChecks(c) ==
    /\ chain[c] = Idle /\ used + 1 \in Texts /\ used' = used + 1
    /\ chain' = [chain EXCEPT ![c] = [pc |-> "append", prepend |-> ~ended, text |-> used + 1]]
    /\ UNCHANGED <<file, ended, reading, log, crashes>>

AppendWrites(c, nl) ==
    LET r == chain[c]
    IN /\ r.pc = "append"
       /\ file' = IF ended \/ r.prepend THEN Append(file, <<r.text>>)
                  ELSE ReplaceAt(file, Len(file), Append(Last(file), r.text))
       /\ ended' = nl /\ log' = log \cup {r.text}
       /\ chain' = [chain EXCEPT ![c] = Idle]
       /\ UNCHANGED <<used, reading, crashes>>

Crash ==
    /\ crashes < MaxCrashes /\ crashes' = crashes + 1
    /\ chain' = [c \in Chains |-> Idle] /\ reading' = [c \in Chains |-> NotReading]
    /\ UNCHANGED <<file, ended, used, log>>

FileToolNext ==
    \/ \E c \in Chains :
         \/ HandleRead(c) \/ ReadEnds(c) \/ Truncate(c) \/ WriteAllLines(c) \/ AppendChecks(c)
         \/ \E nl \in BOOLEAN : HandleWrite(c, nl) \/ AppendWrites(c, nl)
         \/ \E a \in 1 .. Len(file) + 1 : LoadInsert(c, a)
         \/ \E a, b \in DOMAIN file : LoadReplace(c, a, b) \/ LoadDelete(c, a, b)
         \/ \E t \in Texts : LoadEdit(c, t)
    \/ Crash

FileToolSpec == FileToolInit /\ [][FileToolNext]_fileToolVars

-----------------------------------------------------------------------------
(* Reading on from where each answer says gives every line once, when the  *)
(* file stays the same meanwhile.                                          *)
HintsCover == \A c \in Chains : reading[c].done /\ reading[c].same => reading[c].got = reading[c].of

(* A block found without nesting holds the phrase it was looked up by.     *)
BlockHoldsPhrase ==
    \A p \in DOMAIN file : Has(p, Phrases) => \A s \in StartOf(p) : s <= p /\ p <= EndFrom(s, p)

(* The same with nesting.  Violated: the nearest start above the phrase    *)
(* may be of a block that is closed again ("no enclosing block found").    *)
NestedHoldsPhrase ==
    \A p \in DOMAIN file : Has(p, Phrases) => \A s \in StartOf(p) : p <= NestedEnd(s)

(* What a call reported written is in the file, on a line of its own,      *)
(* until a call that names it removes it.  Violated by two chains: a line  *)
(* operation writes back over what came after its read, and two appends    *)
(* that both found the file ended share a line.                            *)
Written == log \subseteq UNION {Range(file[i]) : i \in DOMAIN file}

WrittenStays ==
    crashes = 0 /\ (\A c \in Chains : chain[c] = Idle)
        => Written /\ \A i \in DOMAIN file : Len(file[i]) = 1

(* The same across a crash.  Violated after the truncation.                *)
SurvivesCrash == (\A c \in Chains : chain[c] = Idle) => Written
=============================================================================
