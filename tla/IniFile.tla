------------------------------- MODULE IniFile -------------------------------
(***************************************************************************)
(* inifile.c, and Configuration as its user: twelve calls, each of which     *)
(* reads the whole file again, while somebody may write it.                  *)
(*                                                                         *)
(* A file is a sequence of lines: the header of a section, a key with its    *)
(* value, or a line that is neither (a comment, no "=").  A name is a        *)
(* sequence of syllables, so that one may be the beginning of another:       *)
(* parse_file compares only as many characters as the file has.  A value is  *)
(* what atoi makes of it, Text if that is nothing.  Every line of a file that *)
(* is there ends in a newline.                                               *)
(***************************************************************************)
EXTENDS Integers, Sequences, FiniteSets, SequencesExt

CONSTANTS
    Section,      \* the section Configuration reads
    Keys,         \* the keys it reads, in order: a sequence of names
    DataDirectory,\* the one it reads as a string
    Names,        \* the names that may be in a file
    Values,       \* the values written to it
    Files,        \* the files there may be first
    NewFiles,     \* those that may be put in place of it
    MAX_LINES,    \* 16 K: what buf and w_buf hold
    MaxChanges    \* bound of a run

Text == -1
Sec(n) == [t |-> "sec", n |-> n, v |-> 0]
Key(n, v) == [t |-> "key", n |-> n, v |-> v]
Other == [t |-> "other", n |-> <<>>, v |-> 0]

Line == {Sec(n) : n \in Names} \cup {Key(n, v) : n \in Names, v \in Values \cup {Text}} \cup {Other}
Missing == <<[t |-> "missing", n |-> <<>>, v |-> 0]>>
KeySet == {Keys[i] : i \in DOMAIN Keys}

ASSUME IniAssumption ==
    /\ Section \in Seq(STRING) \ {<<>>} /\ Keys \in Seq(Seq(STRING) \ {<<>>})
    /\ \A i, j \in DOMAIN Keys : i # j => Keys[i] # Keys[j] /\ ~IsPrefix(Keys[i], Keys[j])
    /\ DataDirectory \in KeySet
    /\ Names \subseteq Seq(STRING) /\ {Section} \cup KeySet \subseteq Names
    /\ Values \subseteq Nat /\ Files \cup NewFiles \subseteq Seq(Line) \cup {Missing}
    /\ MAX_LINES \in Nat /\ MaxChanges \in Nat

VARIABLES
    file,        \* Configuration.ini
    next,        \* the key Configuration reads next, 0 if it does not run
    cfg,         \* the values it has read
    asBegun,     \* the file when it began
    before,      \* what it had read before
    torn,        \* 1 if the file has changed since
    writer,      \* where write_profile_string is
    args,        \* its key and its value
    buf, w_buf,  \* the file it has read, and the one it is to write
    lost,        \* 1 if the card did not take all that was written
    changes,
    aborted      \* 1 once an assertion has failed or w_buf was overrun

readVars == <<next, cfg, asBegun, before, torn>>
writeVars == <<writer, args, buf, w_buf, lost>>
vars == <<file, readVars, writeVars, changes, aborted>>

-----------------------------------------------------------------------------
(* parse_file                                                              *)

\* strncmp with the length of the name in the file.
SecMatch(f, i) == f[i].t = "sec" /\ IsPrefix(f[i].n, Section)

\* An empty key is never compared.
KeyMatch(f, i, key) == f[i].t = "key" /\ f[i].n # <<>> /\ IsPrefix(f[i].n, key)

\* Line h is the header of the section line i is in.
HeaderOf(f, h, i) ==
    /\ h < i /\ f[h].t = "sec"
    /\ \A j \in h + 1 .. i - 1 : f[j].t # "sec"

Found(f, key, i) ==
    /\ i \in DOMAIN f /\ KeyMatch(f, i, key)
    /\ \E h \in DOMAIN f : SecMatch(f, h) /\ HeaderOf(f, h, i)

FirstOf(S) == CHOOSE i \in S : \A j \in S : i <= j
LastOf(S) == CHOOSE i \in S : \A j \in S : j <= i

\* value_s and value_e: the first line found, in whatever section of the name.
KeyLine(f, key) ==
    LET hits == {i \in DOMAIN f : Found(f, key, i)}
    IN  IF hits = {} THEN 0 ELSE FirstOf(hits)

\* sec_e when there is no such key: behind the last header of the name.
SecLine(f) ==
    LET heads == {i \in DOMAIN f : SecMatch(f, i)}
    IN  IF heads = {} THEN 0 ELSE LastOf(heads)

-----------------------------------------------------------------------------
(* The functions of inifile.h                                              *)

atoi(v) == IF v = Text THEN 0 ELSE v

\* Configuration passes 0 as the default of an integer, and none for a string:
\* s_SdDataDIR is left as it was.
Default(key, old) == IF key = DataDirectory THEN old ELSE 0
Converted(key, v) == IF key = DataDirectory THEN v ELSE atoi(v)

\* Mutant: keys are looked for in every section.
read_profile_any(f, key, old) ==
    LET hits == {i \in DOMAIN f : KeyMatch(f, i, key)}
    IN  IF f = Missing \/ hits = {} THEN Default(key, old)
        ELSE Converted(key, f[FirstOf(hits)].v)

\* read_profile_int and read_profile_string: the default if there is no file or
\* no such key in it.
read_profile(f, key, old) ==
    IF f = Missing \/ KeyLine(f, key) = 0 THEN Default(key, old)
    ELSE Converted(key, f[KeyLine(f, key)].v)

InsertBehind(f, i, line) == SubSeq(f, 1, i) \o <<line>> \o SubSeq(f, i + 1, Len(f))

Blank(f) == IF f = <<>> THEN <<>> ELSE <<Other>>

\* Mutant: a key that is not there is added at the end of the file.
write_profile_string_end(f, key, v) ==
    LET l == IF f = Missing THEN 0 ELSE KeyLine(f, key)
    IN  IF l # 0 THEN [f EXCEPT ![l].v = v]
        ELSE IF f = Missing \/ SecLine(f) = 0
        THEN (IF f = Missing THEN <<>> ELSE f) \o <<Sec(Section), Key(key, v)>>
        ELSE Append(f, Key(key, v))

\* What write_profile_string puts into w_buf.  A section that is added to a file
\* is set off by an empty line.
write_profile_string(f, key, v) ==
    LET old == IF f = Missing THEN <<>> ELSE f
        s == SecLine(old)
        l == KeyLine(old, key)
    IN  CASE s = 0            -> old \o Blank(old) \o <<Sec(Section), Key(key, v)>>
          [] s # 0 /\ l = 0   -> InsertBehind(old, s, Key(key, v))
          [] s # 0 /\ l # 0   -> [old EXCEPT ![l].v = v]

-----------------------------------------------------------------------------

Unread == [k \in KeySet |-> 0]

\* A file is a sequence of lines or missing, Configuration is within its keys.
TypeOK ==
    /\ file \in Seq(Line) \cup {Missing} /\ asBegun \in Seq(Line) \cup {Missing}
    /\ next \in 0 .. Len(Keys) + 1 /\ cfg \in [KeySet -> Values \cup {0, Text}]
    /\ before \in [KeySet -> Values \cup {0, Text}]
    /\ torn \in {0, 1} /\ changes \in 0 .. MaxChanges /\ aborted \in {0, 1}
    /\ writer \in {"idle", "loaded", "truncated", "done"}
    /\ args \in [key : KeySet, v : Values \cup {0}]
    /\ buf \in Seq(Line) \cup {Missing} /\ w_buf \in Seq(Line) /\ lost \in {0, 1}

Init ==
    /\ file \in Files
    /\ next = 0 /\ cfg = Unread /\ asBegun = <<>> /\ before = Unread /\ torn = 0
    /\ writer = "idle" /\ args = [key |-> DataDirectory, v |-> 0] /\ buf = <<>> /\ w_buf = <<>>
    /\ lost = 0 /\ changes = 0 /\ aborted = 0

TooLong(f) == Len(f) > MAX_LINES

-----------------------------------------------------------------------------
(* Configuration, called by AcqStart                                       *)

ConfigBegin ==
    /\ aborted = 0 /\ next = 0
    /\ next' = 1 /\ asBegun' = file /\ before' = cfg /\ torn' = 0
    /\ UNCHANGED <<file, cfg, writeVars, changes, aborted>>

ConfigRead ==
    /\ aborted = 0 /\ next \in DOMAIN Keys
    /\ \/ /\ ~TooLong(file)
          /\ cfg' = [cfg EXCEPT ![Keys[next]] = read_profile(file, Keys[next], @)]
          /\ next' = next + 1
          /\ UNCHANGED aborted
       \/ TooLong(file) /\ aborted' = 1 /\ UNCHANGED <<cfg, next>>
    /\ UNCHANGED <<file, asBegun, before, torn, writeVars, changes>>

ConfigEnd ==
    /\ aborted = 0 /\ next = Len(Keys) + 1
    /\ next' = 0
    /\ UNCHANGED <<file, cfg, asBegun, before, torn, writeVars, changes, aborted>>

-----------------------------------------------------------------------------
(* write_profile_string: read, truncate, write                             *)

\* load_ini_file asserts that the file fits into buf.  Nothing asks whether the
\* longer text fits into w_buf: it is written over what lies behind, and nothing
\* is said of the program from then on.
WriteLoad ==
    /\ aborted = 0 /\ writer = "idle" /\ changes < MaxChanges
    /\ changes' = changes + 1
    /\ \E k \in KeySet, v \in Values :
           LET text == write_profile_string(file, k, v)
           IN  \/ /\ ~TooLong(file) /\ ~TooLong(text)
                  /\ writer' = "loaded"
                  /\ args' = [key |-> k, v |-> v] /\ buf' = file /\ w_buf' = text
                  /\ UNCHANGED <<lost, aborted>>
               \/ /\ TooLong(file) \/ TooLong(text)
                  /\ aborted' = 1
                  /\ UNCHANGED writeVars
    /\ UNCHANGED <<file, readVars>>

\* fopen with "w".
WriteOpen ==
    /\ aborted = 0 /\ writer = "loaded"
    /\ writer' = "truncated"
    /\ file' = <<>> /\ torn' = 1
    /\ UNCHANGED <<next, cfg, asBegun, before, args, buf, w_buf, lost, changes, aborted>>

\* What may be left of a line that is cut: not a header, no "=", or less of a value.
CutLine(l) == {Other} \cup (IF l.t = "key" THEN {Key(l.n, v) : v \in Values \cup {Text}} ELSE {})

\* The beginnings of a text, which a full card may be left with.
Cut(f) ==
    {SubSeq(f, 1, n) : n \in 0 .. Len(f)}
        \cup UNION {{Append(SubSeq(f, 1, n - 1), l) : l \in CutLine(f[n])} : n \in 1 .. Len(f)}

\* fputs, which fills a buffer and may write some of it, and fclose, which
\* writes the rest.  1 is returned, whatever fclose returns.
WriteClose ==
    /\ aborted = 0 /\ writer = "truncated"
    /\ writer' = "done"
    /\ \/ file' = w_buf /\ lost' = 0
       \/ file' \in Cut(w_buf) /\ lost' = 1
    /\ torn' = 1
    /\ UNCHANGED <<next, cfg, asBegun, before, args, buf, w_buf, changes, aborted>>

\* fopen fails, or fputs does with a part of w_buf in the file: 0 is returned.
WriteFails ==
    /\ aborted = 0
    /\ \/ writer = "loaded" /\ UNCHANGED <<file, torn>>
       \/ writer = "truncated" /\ file' \in Cut(w_buf) /\ torn' = 1
    /\ writer' = "idle" /\ buf' = <<>> /\ w_buf' = <<>>
    /\ UNCHANGED <<next, cfg, asBegun, before, args, lost, changes, aborted>>

WriteReturn ==
    /\ writer = "done"
    /\ writer' = "idle" /\ buf' = <<>> /\ w_buf' = <<>> /\ lost' = 0
    /\ UNCHANGED <<file, readVars, args, changes, aborted>>

\* External: another file is put in its place while nobody writes.
Replace ==
    /\ writer = "idle" /\ changes < MaxChanges
    /\ changes' = changes + 1
    /\ file' \in NewFiles /\ torn' = 1
    /\ UNCHANGED <<next, cfg, asBegun, before, writeVars, aborted>>

Next ==
    \/ ConfigBegin \/ ConfigRead \/ ConfigEnd
    \/ WriteLoad \/ WriteOpen \/ WriteClose \/ WriteFails \/ WriteReturn
    \/ Replace

Spec == Init /\ [][Next]_vars

-----------------------------------------------------------------------------
(* What makes it correct                                                   *)

\* No name in the file is the beginning of the section or of a key, but those
\* names themselves.
Plain(f) == \A i \in DOMAIN f :
    /\ f[i].t = "sec" => (IsPrefix(f[i].n, Section) => f[i].n = Section)
    /\ f[i].t = "key" => \A k \in KeySet : f[i].n # <<>> /\ IsPrefix(f[i].n, k) => f[i].n = k

\* The reference: line i gives key a value if it is a line of the section with
\* exactly that name and no line before it is.
Gives(f, key, i) ==
    /\ i \in DOMAIN f /\ f[i].t = "key" /\ f[i].n = key
    /\ \E h \in DOMAIN f : f[h] = Sec(Section) /\ HeaderOf(f, h, i)

\* v is what the file gives key, or its default.
IsValueOf(f, key, v, default) ==
    \/ /\ \A i \in DOMAIN f : ~Gives(f, key, i)
       /\ v = default
    \/ \E i \in DOMAIN f :
          /\ Gives(f, key, i)
          /\ \A j \in 1 .. i - 1 : ~Gives(f, key, j)
          /\ v = Converted(key, f[i].v)

\* What Configuration has read from a plain file that did not change meanwhile
\* is, key by key, what the file says, or the default: 0, or the last directory.
ReadsFile ==
    torn = 0 /\ Plain(asBegun) =>
        \A i \in 1 .. next - 1 :
            IsValueOf(asBegun, Keys[i], cfg[Keys[i]], Default(Keys[i], before[Keys[i]]))

\* When write_profile_string returns 1 and the card has taken the text, a plain
\* file gives the key its value, every other key has the value it had, and the
\* file is still plain.
WriteKeepsOthers ==
    writer = "done" /\ lost = 0 /\ Plain(buf) =>
        /\ Plain(file) /\ IsValueOf(file, args.key, args.v, 0)
        /\ \A k \in KeySet \ {args.key} : IsValueOf(file, k, read_profile(buf, k, 0), 0)
=============================================================================
