---------------------------- MODULE IniFile_proofs ----------------------------
(***************************************************************************)
(* What Configuration reads from a plain file that stays as it is, is what   *)
(* the file says, and write_profile_string changes one key of a plain file,  *)
(* for files of any length and for any names.                                *)
(***************************************************************************)
EXTENDS IniFile, WellFoundedInduction, TLAPS

File == Seq(Line) \cup {Missing}

\* A set of line numbers that is not empty has a first one.
LEMMA FirstOfSet ==
    ASSUME NEW S \in SUBSET Nat, S # {}
    PROVE  FirstOf(S) \in S /\ \A j \in S : FirstOf(S) <= j
<1>1. \E i \in S : \A j \in S : i <= j
  <2> DEFINE R == OpToRel(<, Nat)
  <2>1. IsWellFoundedOn(R, Nat) BY NatLessThanWellFounded
  <2>2. \A i, j \in Nat : <<i, j>> \in R <=> i < j
    BY DEF OpToRel
  <2> HIDE DEF R
  <2>3. PICK i \in S : \A j \in S : ~(<<j, i>> \in R)
    BY <2>1, WFMin
  <2>4. ASSUME NEW j \in S PROVE i <= j
    <3>1. i \in Nat /\ j \in Nat OBVIOUS
    <3>2. ~(j < i) BY <2>2, <2>3, <3>1
    <3> QED BY <3>1, <3>2
  <2> QED BY <2>4
<1> QED BY <1>1 DEF FirstOf

\* The same for the last of line numbers that are bounded: the one nearest to
\* the bound.
LEMMA LastOfSet ==
    ASSUME NEW n \in Nat, NEW S \in SUBSET (1 .. n), S # {}
    PROVE  LastOf(S) \in S /\ \A j \in S : j <= LastOf(S)
<1> DEFINE T == {n - i : i \in S}
<1>0. \A i \in S : i \in Nat /\ i <= n /\ n - i \in Nat
  <2> TAKE i \in S
  <2>1. i \in 1 .. n OBVIOUS
  <2> QED BY <2>1
<1>1. T \in SUBSET Nat /\ T # {} BY <1>0
<1>2. FirstOf(T) \in T /\ \A j \in T : FirstOf(T) <= j
  <2> HIDE DEF T
  <2> QED BY <1>1, FirstOfSet
<1>3. PICK i \in S : FirstOf(T) = n - i BY <1>2
<1>4. ASSUME NEW j \in S PROVE j <= i
  <2>1. n - i <= n - j BY <1>2, <1>3
  <2> QED BY <1>0, <2>1
<1> QED BY <1>4 DEF LastOf

\* A line with the type of a header, or of a key, has no more than a name and a
\* value, and no line of a missing file is either.
LEMMA LineShape ==
    ASSUME NEW f \in File, NEW i \in DOMAIN f
    PROVE  /\ f[i].t = "sec" => f[i] = Sec(f[i].n) /\ f[i].n \in Names
           /\ f[i].t = "key" => f[i].n \in Names
           /\ f = Missing => f[i].t = "missing"
<1>1. CASE f \in Seq(Line)
  <2>1. f[i] \in Line BY <1>1
  <2>2. f # Missing
    BY <2>1, <1>1 DEF Line, Missing, Sec, Key, Other
  <2> QED BY <2>1, <2>2 DEF Line, Sec, Key, Other
<1>2. CASE f = Missing
  BY <1>2 DEF Missing
<1> QED BY <1>1, <1>2 DEF File

-----------------------------------------------------------------------------
(* On a plain file parse_file finds what the reference finds               *)

\* A name begins itself.
LEMMA PrefixRefl ==
    ASSUME NEW s \in Seq(STRING)
    PROVE  IsPrefix(s, s)
BY DEF IsPrefix

\* The comparison of beginnings in parse_file is equality on a plain file.
LEMMA FoundIsGiven ==
    ASSUME NEW f \in File, Plain(f), NEW key \in KeySet, NEW i \in DOMAIN f
    PROVE  Found(f, key, i) <=> Gives(f, key, i)
<1>1. key \in Seq(STRING) /\ key # <<>> /\ Section \in Seq(STRING)
  BY IniAssumption DEF KeySet
<1>2. IsPrefix(key, key) /\ IsPrefix(Section, Section)
  BY <1>1, PrefixRefl
<1>3. KeyMatch(f, i, key) <=> f[i].t = "key" /\ f[i].n = key
  BY <1>1, <1>2 DEF KeyMatch, Plain
<1>4. ASSUME NEW h \in DOMAIN f
      PROVE  SecMatch(f, h) <=> f[h] = Sec(Section)
  <2>1. f[h].t = "sec" => f[h] = Sec(f[h].n)
    BY LineShape
  <2>2. f[h].t = "sec" => (IsPrefix(f[h].n, Section) => f[h].n = Section)
    BY DEF Plain
  <2>3. Sec(Section).t = "sec" /\ Sec(Section).n = Section
    BY DEF Sec
  <2> QED BY <1>2, <2>1, <2>2, <2>3 DEF SecMatch
<1> QED BY <1>3, <1>4 DEF Found, Gives

\* On a plain file read_profile_int and read_profile_string return what the
\* reference definition gives, whatever its length.
THEOREM ReadIsReference ==
    ASSUME NEW f \in File, Plain(f), NEW key \in KeySet, NEW old
    PROVE  IsValueOf(f, key, read_profile(f, key, old), Default(key, old))
<1> DEFINE hits == {i \in DOMAIN f : Found(f, key, i)}
<1>1. \A i \in DOMAIN f : Found(f, key, i) <=> Gives(f, key, i)
  BY FoundIsGiven
<1>2. DOMAIN f \subseteq Nat \ {0}
  BY DEF File, Missing
<1>3. CASE hits = {}
  <2>1. \A i \in DOMAIN f : ~Gives(f, key, i) BY <1>1, <1>3
  <2>2. read_profile(f, key, old) = Default(key, old)
    BY <1>3 DEF read_profile, KeyLine
  <2> QED BY <2>1, <2>2 DEF IsValueOf
<1>4. CASE hits # {}
  <2> DEFINE l == FirstOf(hits)
  <2>1. l \in hits /\ \A j \in hits : l <= j
    <3>1. hits \in SUBSET Nat BY <1>2
    <3> HIDE DEF hits
    <3> QED BY <1>4, <3>1, FirstOfSet
  <2>2. KeyLine(f, key) = l BY <1>4 DEF KeyLine
  <2>3. l \in DOMAIN f /\ Gives(f, key, l) /\ l # 0 BY <2>1, <1>1, <1>2
  <2>4. f # Missing BY <2>3, LineShape DEF Gives
  <2>5. read_profile(f, key, old) = Converted(key, f[l].v)
    BY <2>2, <2>3, <2>4 DEF read_profile
  <2>6. ASSUME NEW j \in 1 .. l - 1 PROVE ~Gives(f, key, j)
    <3>1. l \in Nat /\ j \in Nat /\ j < l BY <2>3, <1>2
    <3>2. j \notin hits BY <2>1, <3>1
    <3> QED BY <3>2, <1>1 DEF Gives
  <2> HIDE DEF l
  <2> QED BY <2>3, <2>5, <2>6 DEF IsValueOf
<1> QED BY <1>3, <1>4

-----------------------------------------------------------------------------
(* Type correctness                                                        *)

\* A line found for a key holds a value.
LEMMA ReadType ==
    ASSUME NEW f \in File, NEW key \in KeySet, NEW old \in Values \cup {0, Text}
    PROVE  read_profile(f, key, old) \in Values \cup {0, Text}
<1>1. Default(key, old) \in Values \cup {0, Text}
  BY DEF Default
<1>2. ASSUME f # Missing, KeyLine(f, key) # 0
      PROVE  Converted(key, f[KeyLine(f, key)].v) \in Values \cup {0, Text}
  <2>1. f \in Seq(Line) BY <1>2 DEF File
  <2> DEFINE hits == {i \in DOMAIN f : Found(f, key, i)}
  <2>2. hits # {} /\ hits \in SUBSET Nat /\ KeyLine(f, key) = FirstOf(hits)
    BY <1>2, <2>1 DEF KeyLine
  <2>3. KeyLine(f, key) \in hits
    <3> HIDE DEF hits
    <3> QED BY <2>2, FirstOfSet
  <2>4. f[KeyLine(f, key)] \in Line /\ f[KeyLine(f, key)].t = "key"
    BY <2>1, <2>3 DEF Found, KeyMatch
  <2>5. f[KeyLine(f, key)].v \in Values \cup {Text}
    BY <2>4 DEF Line, Sec, Key, Other
  <2> QED BY <2>5 DEF Converted, atoi
<1> QED BY <1>1, <1>2 DEF read_profile

\* write_profile_string makes a file of lines of a file of lines.
LEMMA WriteType ==
    ASSUME NEW f \in File, NEW key \in KeySet, NEW v \in Values
    PROVE  write_profile_string(f, key, v) \in Seq(Line)
<1> DEFINE old == IF f = Missing THEN <<>> ELSE f
           s == SecLine(old)
           l == KeyLine(old, key)
<1>1. old \in Seq(Line) BY DEF File
<1>2. key \in Names /\ Section \in Names BY IniAssumption
<1>3. Key(key, v) \in Line /\ Sec(Section) \in Line BY <1>2 DEF Line
<1> HIDE DEF old
<1>4. old \o Blank(old) \o <<Sec(Section), Key(key, v)>> \in Seq(Line)
  <2>1. Other \in Line BY DEF Line
  <2>2. old \o Blank(old) \in Seq(Line) BY <1>1, <2>1 DEF Blank
  <2> QED BY <1>3, <2>2
<1>5. ASSUME s # 0 PROVE InsertBehind(old, s, Key(key, v)) \in Seq(Line)
  <2> DEFINE heads == {i \in DOMAIN old : SecMatch(old, i)}
  <2>1. heads # {} /\ s = LastOf(heads) BY <1>5 DEF SecLine
  <2>2. heads \in SUBSET (1 .. Len(old)) /\ Len(old) \in Nat BY <1>1
  <2>3. s \in heads
    <3> HIDE DEF heads
    <3> QED BY <2>1, <2>2, LastOfSet
  <2>4. s \in 1 .. Len(old) BY <2>2, <2>3
  <2> HIDE DEF s
  <2>5. SubSeq(old, 1, s) \in Seq(Line) /\ SubSeq(old, s + 1, Len(old)) \in Seq(Line)
    BY <1>1, <2>4
  <2> QED BY <2>5, <1>3 DEF InsertBehind
<1>6. ASSUME l # 0 PROVE [old EXCEPT ![l].v = v] \in Seq(Line)
  <2> DEFINE hits == {i \in DOMAIN old : Found(old, key, i)}
  <2>1. hits # {} /\ hits \in SUBSET Nat /\ l = FirstOf(hits)
    BY <1>1, <1>6 DEF KeyLine
  <2>2. l \in hits
    <3> HIDE DEF hits
    <3> QED BY <2>1, FirstOfSet
  <2>3. l \in DOMAIN old /\ old[l] \in Line /\ old[l].t = "key"
    BY <1>1, <2>2 DEF Found, KeyMatch
  <2> HIDE DEF l
  <2>4. PICK n \in Names, u \in Values \cup {Text} : old[l] = Key(n, u)
    BY <2>3 DEF Line, Sec, Key, Other
  <2>5. [old[l] EXCEPT !.v = v] = Key(n, v)
    BY <2>4 DEF Key
  <2>6. Key(n, v) \in Line BY DEF Line
  <2>7. [old EXCEPT ![l].v = v] = [old EXCEPT ![l] = Key(n, v)]
    BY <2>5
  <2> QED BY <1>1, <2>3, <2>6, <2>7
<1>7. write_profile_string(f, key, v)
        = CASE s = 0            -> old \o Blank(old) \o <<Sec(Section), Key(key, v)>>
            [] s # 0 /\ l = 0   -> InsertBehind(old, s, Key(key, v))
            [] s # 0 /\ l # 0   -> [old EXCEPT ![l].v = v]
  BY DEF write_profile_string, old
<1> HIDE DEF s, l
<1> QED BY <1>4, <1>5, <1>6, <1>7

\* What a full card is left with is a file of lines.
LEMMA CutType ==
    ASSUME NEW f \in Seq(Line)
    PROVE  Cut(f) \subseteq Seq(Line)
<1>1. ASSUME NEW n \in 0 .. Len(f) PROVE SubSeq(f, 1, n) \in Seq(Line)
  OBVIOUS
<1>2. ASSUME NEW n \in 1 .. Len(f), NEW l \in CutLine(f[n])
      PROVE  Append(SubSeq(f, 1, n - 1), l) \in Seq(Line)
  <2>1. f[n] \in Line OBVIOUS
  <2>2. l \in Line
    <3>1. CASE l = Other BY <3>1 DEF Line
    <3>2. CASE f[n].t = "key" /\ \E v \in Values \cup {Text} : l = Key(f[n].n, v)
      <4>1. f[n].n \in Names BY <2>1, <3>2 DEF Line, Sec, Key, Other
      <4>2. PICK v \in Values \cup {Text} : l = Key(f[n].n, v) BY <3>2
      <4>3. Key(f[n].n, v) \in {Key(m, u) : m \in Names, u \in Values \cup {Text}}
        BY <4>1
      <4> QED BY <4>2, <4>3 DEF Line
    <3> QED BY <3>1, <3>2 DEF CutLine
  <2>3. n - 1 \in 0 .. Len(f) OBVIOUS
  <2>4. SubSeq(f, 1, n - 1) \in Seq(Line) BY <1>1, <2>3
  <2> QED BY <2>2, <2>4
<1>3. ASSUME NEW w \in Cut(f) PROVE w \in Seq(Line)
  <2>1. \/ \E n \in 0 .. Len(f) : w = SubSeq(f, 1, n)
        \/ \E n \in 1 .. Len(f) : \E l \in CutLine(f[n]) : w = Append(SubSeq(f, 1, n - 1), l)
    BY <1>3, Zenon DEF Cut
  <2>2. CASE \E n \in 0 .. Len(f) : w = SubSeq(f, 1, n) BY <1>1, <2>2
  <2>3. CASE \E n \in 1 .. Len(f) : \E l \in CutLine(f[n]) : w = Append(SubSeq(f, 1, n - 1), l)
    BY <1>2, <2>3, Zenon
  <2> QED BY <2>1, <2>2, <2>3
<1> QED BY <1>3

USE DEF File

\* The files are sequences of lines, Configuration stays within its keys and
\* what it has read are values, in every step of inifile.c.
THEOREM TypeCorrect == Spec => []TypeOK
<1>1. Init => TypeOK
  BY IniAssumption DEF Init, TypeOK, Unread
<1>2. TypeOK /\ [Next]_vars => TypeOK'
  <2> SUFFICES ASSUME TypeOK, [Next]_vars PROVE TypeOK'
    OBVIOUS
  <2> USE DEF TypeOK
  <2>1. CASE ConfigBegin
    BY <2>1, IniAssumption DEF ConfigBegin, writeVars
  <2>2. CASE ConfigRead
    <3>1. next \in DOMAIN Keys /\ Keys[next] \in KeySet /\ next + 1 \in 0 .. Len(Keys) + 1
      <4>1. next \in DOMAIN Keys BY <2>2 DEF ConfigRead
      <4>2. DOMAIN Keys = 1 .. Len(Keys) /\ Len(Keys) \in Nat BY IniAssumption
      <4>3. Keys[next] \in KeySet BY <4>1 DEF KeySet
      <4> QED BY <4>1, <4>2, <4>3
    <3>2. read_profile(file, Keys[next], cfg[Keys[next]]) \in Values \cup {0, Text}
      BY <3>1, ReadType
    <3> QED BY <2>2, <3>1, <3>2 DEF ConfigRead, writeVars
  <2>3. CASE ConfigEnd
    BY <2>3, IniAssumption DEF ConfigEnd, writeVars
  <2>4. CASE WriteLoad
    <3>1. CASE UNCHANGED writeVars /\ aborted' = 1
      BY <2>4, <3>1, IniAssumption DEF WriteLoad, writeVars, readVars
    <3>2. ASSUME NEW k \in KeySet, NEW v \in Values,
                 /\ writer' = "loaded" /\ buf' = file /\ args' = [key |-> k, v |-> v]
                 /\ w_buf' = write_profile_string(file, k, v) /\ UNCHANGED <<lost, aborted>>
          PROVE  TypeOK'
      <4>1. w_buf' \in Seq(Line) BY <3>2, WriteType
      <4> QED BY <2>4, <3>2, <4>1, IniAssumption DEF WriteLoad, readVars
    <3> QED BY <2>4, <3>1, <3>2 DEF WriteLoad
  <2>5. CASE WriteOpen
    BY <2>5 DEF WriteOpen
  <2>6. CASE WriteClose
    <3>1. file' \in File /\ lost' \in {0, 1} BY <2>6, CutType DEF WriteClose
    <3> QED BY <2>6, <3>1 DEF WriteClose
  <2>7. CASE WriteReturn
    BY <2>7 DEF WriteReturn, readVars
  <2>8. CASE Replace
    BY <2>8, IniAssumption DEF Replace, writeVars
  <2>9. CASE WriteFails
    <3>1. file' \in File BY <2>9, CutType DEF WriteFails
    <3> QED BY <2>9, <3>1 DEF WriteFails
  <2>10. CASE UNCHANGED vars
    BY <2>10 DEF vars, readVars, writeVars
  <2> QED BY <2>1, <2>2, <2>3, <2>4, <2>5, <2>6, <2>7, <2>8, <2>9, <2>10 DEF Next
<1> QED BY <1>1, <1>2, PTL DEF Spec

-----------------------------------------------------------------------------
(* The configuration is the file's                                         *)

\* Until the file changes it is the one Configuration began with, and what is
\* not read yet is what was there before: ReadsFile is not inductive without.
Undisturbed ==
    torn = 0 /\ next > 0 =>
        /\ file = asBegun
        /\ \A i \in DOMAIN Keys : i >= next => cfg[Keys[i]] = before[Keys[i]]

\* What Configuration reads from a plain file that stays as it is, is what the
\* file says, for files of any length and however often it is called.
THEOREM ConfigurationReadsFile == Spec => []ReadsFile
<1>1. Init => Undisturbed /\ ReadsFile
  BY DEF Init, Undisturbed, ReadsFile
<1>2. TypeOK /\ Undisturbed /\ ReadsFile /\ [Next]_vars => (Undisturbed /\ ReadsFile)'
  <2> SUFFICES ASSUME TypeOK, Undisturbed, ReadsFile, [Next]_vars
               PROVE  Undisturbed' /\ ReadsFile'
    OBVIOUS
  <2>1. CASE ConfigBegin
    BY <2>1 DEF ConfigBegin, Undisturbed, ReadsFile, TypeOK
  <2>2. CASE ConfigRead
    <3> DEFINE k == Keys[next]
    <3>1. /\ next \in DOMAIN Keys /\ next \in Nat /\ next > 0 /\ k \in KeySet
          /\ DOMAIN Keys = 1 .. Len(Keys) /\ Len(Keys) \in Nat
      BY <2>2, IniAssumption DEF ConfigRead, KeySet
    <3>2. CASE UNCHANGED <<cfg, next>>
      BY <2>2, <3>2 DEF ConfigRead, Undisturbed, ReadsFile
    <3>3. CASE ~UNCHANGED <<cfg, next>>
      <4>1. /\ cfg' = [cfg EXCEPT ![k] = read_profile(file, k, cfg[k])]
            /\ next' = next + 1 /\ UNCHANGED <<file, asBegun, before, torn>>
        BY <2>2, <3>3 DEF ConfigRead
      <4>2. DOMAIN cfg = KeySet /\ file \in File BY DEF TypeOK
      <4>3. \A i \in DOMAIN Keys : i # next => Keys[i] # k /\ Keys[i] \in KeySet
        BY <3>1, IniAssumption DEF KeySet
      <4>4. \A i \in DOMAIN Keys : i # next => cfg'[Keys[i]] = cfg[Keys[i]]
        BY <4>1, <4>2, <4>3
      <4>5. cfg'[k] = read_profile(file, k, cfg[k])
        BY <4>1, <4>2, <3>1
      <4>6. Undisturbed'
        BY <3>1, <4>1, <4>4 DEF Undisturbed
      <4>7. ASSUME torn = 0, Plain(asBegun), NEW i \in 1 .. next
            PROVE  IsValueOf(asBegun, Keys[i], cfg'[Keys[i]], Default(Keys[i], before[Keys[i]]))
        <5>1. file = asBegun /\ cfg[k] = before[k]
          BY <3>1, <4>7 DEF Undisturbed
        <5>2. CASE i = next
          <6>1. IsValueOf(file, k, read_profile(file, k, cfg[k]), Default(k, cfg[k]))
            BY <3>1, <4>2, <4>7, <5>1, ReadIsReference
          <6> QED BY <5>1, <5>2, <6>1, <4>5
        <5>3. CASE i # next
          <6>1. i \in 1 .. next - 1 /\ i \in DOMAIN Keys BY <3>1, <5>3
          <6>2. IsValueOf(asBegun, Keys[i], cfg[Keys[i]], Default(Keys[i], before[Keys[i]]))
            BY <4>7, <6>1 DEF ReadsFile
          <6> QED BY <4>4, <5>3, <6>1, <6>2
        <5> QED BY <5>2, <5>3
      <4>8. ReadsFile'
        <5>1. 1 .. next' - 1 = 1 .. next BY <3>1, <4>1
        <5> QED BY <4>1, <4>7, <5>1 DEF ReadsFile
      <4> QED BY <4>6, <4>8
    <3> QED BY <3>2, <3>3
  <2>3. CASE ConfigEnd
    BY <2>3 DEF ConfigEnd, Undisturbed, ReadsFile
  <2>4. CASE WriteLoad
    BY <2>4 DEF WriteLoad, readVars, Undisturbed, ReadsFile
  <2>5. CASE WriteOpen
    BY <2>5 DEF WriteOpen, Undisturbed, ReadsFile
  <2>6. CASE WriteClose
    BY <2>6 DEF WriteClose, Undisturbed, ReadsFile
  <2>7. CASE WriteReturn
    BY <2>7 DEF WriteReturn, readVars, Undisturbed, ReadsFile
  <2>8. CASE Replace
    BY <2>8 DEF Replace, Undisturbed, ReadsFile
  <2>9. CASE WriteFails
    BY <2>9 DEF WriteFails, Undisturbed, ReadsFile
  <2>10. CASE UNCHANGED vars
    BY <2>10 DEF vars, readVars, Undisturbed, ReadsFile
  <2> QED BY <2>1, <2>2, <2>3, <2>4, <2>5, <2>6, <2>7, <2>8, <2>9, <2>10 DEF Next
<1> QED BY <1>1, <1>2, TypeCorrect, PTL DEF Spec

-----------------------------------------------------------------------------
(* write_profile_string changes one key                                    *)

\* If the lines that give a key its value are, in order, the images of those of
\* another file and hold the same values, the key has the same value.
LEMMA SameValue ==
    ASSUME NEW f, NEW w, NEW k, NEW v, NEW d, NEW m,
           DOMAIN f \subseteq Nat, DOMAIN w \subseteq Nat \ {0},
           \A i \in DOMAIN f : m[i] \in DOMAIN w,
           \A i, j \in DOMAIN f : m[j] < m[i] => j < i,
           \A i \in DOMAIN f : i > 0 /\ \A j \in 1 .. i - 1 : j \in DOMAIN f,
           \A i \in DOMAIN f : Gives(f, k, i) => Gives(w, k, m[i]) /\ w[m[i]].v = f[i].v,
           \A j \in DOMAIN w : Gives(w, k, j) => \E i \in DOMAIN f : j = m[i] /\ Gives(f, k, i),
           IsValueOf(f, k, v, d)
    PROVE  IsValueOf(w, k, v, d)
<1>1. CASE /\ \A i \in DOMAIN f : ~Gives(f, k, i)
           /\ v = d
  BY <1>1 DEF IsValueOf
<1>2. CASE \E i \in DOMAIN f : /\ Gives(f, k, i)
                               /\ \A j \in 1 .. i - 1 : ~Gives(f, k, j)
                               /\ v = Converted(k, f[i].v)
  <2>1. PICK i \in DOMAIN f : /\ Gives(f, k, i)
                              /\ \A j \in 1 .. i - 1 : ~Gives(f, k, j)
                              /\ v = Converted(k, f[i].v)
    BY <1>2
  <2>2. m[i] \in DOMAIN w /\ Gives(w, k, m[i]) /\ v = Converted(k, w[m[i]].v)
    BY <2>1
  <2>3. ASSUME NEW j \in 1 .. m[i] - 1 PROVE ~Gives(w, k, j)
    <3>1. SUFFICES ASSUME Gives(w, k, j) PROVE FALSE
      OBVIOUS
    <3>2. j \in DOMAIN w BY <3>1 DEF Gives
    <3>3. PICK q \in DOMAIN f : j = m[q] /\ Gives(f, k, q) BY <3>1, <3>2
    <3>4. m[q] < m[i]
      <4>1. m[i] \in Nat BY <2>2
      <4> QED BY <3>3, <4>1
    <3>5. q < i BY <3>4
    <3>6. q \in 1 .. i - 1
      <4>1. q \in Nat /\ i \in Nat /\ q > 0 OBVIOUS
      <4> QED BY <4>1, <3>5
    <3> QED BY <2>1, <3>3, <3>6
  <2> QED BY <2>2, <2>3 DEF IsValueOf
<1> QED BY <1>1, <1>2 DEF IsValueOf

\* A key written to the file makes no other key ambiguous.
LEMMA KeyPlain ==
    ASSUME NEW key \in KeySet, NEW k \in KeySet, IsPrefix(key, k)
    PROVE  key = k
  BY IniAssumption DEF KeySet

\* The value of a key that is written is read back as it is.
LEMMA WrittenValue ==
    ASSUME NEW key \in KeySet, NEW v \in Values
    PROVE  Converted(key, v) = v
<1>1. v # Text BY IniAssumption DEF Text
<1> QED BY <1>1 DEF Converted, atoi

\* Header lines of a plain file that match are headers of the section.
LEMMA PlainHeader ==
    ASSUME NEW f \in File, Plain(f), NEW h \in DOMAIN f
    PROVE  SecMatch(f, h) <=> f[h] = Sec(Section)
<1>1. IsPrefix(Section, Section) BY IniAssumption, PrefixRefl
<1>2. f[h].t = "sec" => f[h] = Sec(f[h].n) BY LineShape
<1>3. f[h].t = "sec" => (IsPrefix(f[h].n, Section) => f[h].n = Section) BY DEF Plain
<1>4. Sec(Section).t = "sec" /\ Sec(Section).n = Section BY DEF Sec
<1> QED BY <1>1, <1>2, <1>3, <1>4 DEF SecMatch

\* The promise of one call of write_profile_string.
Changes(f, w, key, v) ==
    /\ Plain(w) /\ IsValueOf(w, key, v, 0)
    /\ \A k \in KeySet \ {key} : \A u : IsValueOf(f, k, u, 0) => IsValueOf(w, k, u, 0)

\* A file without the section gets it, with the key, at its end.
LEMMA AddSection ==
    ASSUME NEW f \in Seq(Line), Plain(f), NEW key \in KeySet, NEW v \in Values, SecLine(f) = 0
    PROVE  Changes(f, f \o <<Sec(Section), Key(key, v)>>, key, v)
<1> DEFINE w == f \o <<Sec(Section), Key(key, v)>>
           L == Len(f)
<1>1. L \in Nat /\ DOMAIN f = 1 .. L OBVIOUS
<1>2. /\ DOMAIN w = 1 .. L + 2
      /\ \A i \in 1 .. L : w[i] = f[i]
      /\ w[L + 1] = Sec(Section) /\ w[L + 2] = Key(key, v)
  <2>1. Sec(Section) \in Line /\ Key(key, v) \in Line BY IniAssumption DEF Line
  <2> QED BY <1>1, <2>1
<1> HIDE DEF w
<1>3. \A h \in DOMAIN f : f[h] # Sec(Section)
  <2> DEFINE heads == {i \in DOMAIN f : SecMatch(f, i)}
  <2>1. SUFFICES ASSUME NEW h \in DOMAIN f, f[h] = Sec(Section) PROVE FALSE
    OBVIOUS
  <2>2. h \in heads BY <2>1, PlainHeader
  <2>3. LastOf(heads) \in heads
    <3>1. heads \in SUBSET (1 .. L) BY <1>1
    <3> HIDE DEF heads
    <3> QED BY <1>1, <2>2, <3>1, LastOfSet
  <2>4. SecLine(f) = LastOf(heads) BY <2>2 DEF SecLine
  <2> QED BY <1>1, <2>3, <2>4
<1>4. Key(key, v).t = "key" /\ Key(key, v).n = key /\ Key(key, v).v = v
      /\ Sec(Section).t = "sec" /\ Sec(Section).n = Section
  BY DEF Key, Sec
<1>5. \A i \in 1 .. L + 2 : i \in 1 .. L \/ i = L + 1 \/ i = L + 2
  BY <1>1
<1>6. \A k, i : ~Gives(f, k, i)
  BY <1>3 DEF Gives
<1>7. ASSUME NEW k, NEW i, Gives(w, k, i) PROVE i = L + 2 /\ k = key
  <2>1. PICK h \in DOMAIN w : w[h] = Sec(Section) /\ HeaderOf(w, h, i) BY <1>7 DEF Gives
  <2>2. h = L + 1
    <3>1. h \notin 1 .. L BY <1>1, <1>2, <1>3, <2>1
    <3>2. h # L + 2 BY <1>2, <1>4, <2>1
    <3> QED BY <1>2, <1>5, <3>1, <3>2
  <2>3. i \in 1 .. L + 2 /\ L + 1 < i BY <1>7, <1>2, <2>1, <2>2 DEF Gives, HeaderOf
  <2>4. i = L + 2 BY <1>1, <2>3
  <2> QED BY <1>2, <1>4, <1>7, <2>4 DEF Gives
<1>8. Gives(w, key, L + 2)
  <2>1. L + 1 \in DOMAIN w /\ L + 2 \in DOMAIN w BY <1>1, <1>2
  <2>2. HeaderOf(w, L + 1, L + 2) BY <1>1, <1>2, <1>4 DEF HeaderOf
  <2> QED BY <1>2, <1>4, <2>1, <2>2 DEF Gives
<1>9. IsValueOf(w, key, v, 0)
  <2>1. \A j \in 1 .. (L + 2) - 1 : ~Gives(w, key, j) BY <1>1, <1>7
  <2>2. v = Converted(key, w[L + 2].v) BY <1>2, <1>4, WrittenValue
  <2>3. L + 2 \in DOMAIN w BY <1>1, <1>2
  <2> QED BY <1>8, <2>1, <2>2, <2>3 DEF IsValueOf
<1>10. ASSUME NEW k \in KeySet \ {key}, NEW u, IsValueOf(f, k, u, 0) PROVE IsValueOf(w, k, u, 0)
  BY <1>6, <1>7, <1>10 DEF IsValueOf
<1>11. Plain(w)
  <2>1. ASSUME NEW i \in DOMAIN w
        PROVE  /\ w[i].t = "sec" => (IsPrefix(w[i].n, Section) => w[i].n = Section)
               /\ w[i].t = "key" =>
                    \A k \in KeySet : w[i].n # <<>> /\ IsPrefix(w[i].n, k) => w[i].n = k
    <3>1. CASE i \in 1 .. L BY <1>1, <1>2, <3>1 DEF Plain
    <3>2. CASE i = L + 1 BY <1>2, <1>4, <3>2
    <3>3. CASE i = L + 2 BY <1>2, <1>4, <3>3, KeyPlain
    <3> QED BY <1>2, <1>5, <3>1, <3>2, <3>3
  <2> QED BY <2>1 DEF Plain
<1> QED BY <1>9, <1>10, <1>11 DEF Changes, w

\* The empty line that sets a new section off gives no key a value.
LEMMA AddBlank ==
    ASSUME NEW f \in Seq(Line), Plain(f), SecLine(f) = 0
    PROVE  LET g == f \o Blank(f)
           IN  /\ g \in Seq(Line) /\ Plain(g) /\ SecLine(g) = 0
               /\ \A k, u : IsValueOf(f, k, u, 0) => IsValueOf(g, k, u, 0)
<1> DEFINE g == f \o Blank(f)
           L == Len(f)
<1>1. CASE f = <<>>
  <2>1. g = f BY <1>1 DEF Blank
  <2> QED BY <2>1
<1>2. CASE f # <<>>
  <2>1. Other \in Line /\ Other.t = "other" BY DEF Line, Other
  <2>2. L \in Nat /\ DOMAIN f = 1 .. L OBVIOUS
  <2>3. /\ g \in Seq(Line) /\ DOMAIN g = 1 .. L + 1
        /\ \A i \in 1 .. L : g[i] = f[i]
        /\ g[L + 1] = Other
    BY <1>2, <2>1, <2>2 DEF Blank
  <2>4. \A i \in 1 .. L + 1 : i \in 1 .. L \/ i = L + 1 BY <2>2
  <2> HIDE DEF g
  <2>5. \A i \in DOMAIN f : ~SecMatch(f, i)
    <3> DEFINE heads == {i \in DOMAIN f : SecMatch(f, i)}
    <3>1. SUFFICES ASSUME NEW h \in DOMAIN f, SecMatch(f, h) PROVE FALSE
      OBVIOUS
    <3>2. h \in heads BY <3>1
    <3>3. LastOf(heads) \in heads
      <4>1. heads \in SUBSET (1 .. L) BY <2>2
      <4> HIDE DEF heads
      <4> QED BY <2>2, <3>2, <4>1, LastOfSet
    <3>4. SecLine(f) = LastOf(heads) BY <3>2 DEF SecLine
    <3> QED BY <2>2, <3>3, <3>4
  <2>6. \A i \in DOMAIN g : ~SecMatch(g, i)
    BY <2>1, <2>2, <2>3, <2>4, <2>5 DEF SecMatch
  <2>7. SecLine(g) = 0
    <3>1. {i \in DOMAIN g : SecMatch(g, i)} = {} BY <2>6
    <3> QED BY <3>1 DEF SecLine
  <2>8. Plain(g)
    <3>1. ASSUME NEW i \in DOMAIN g
          PROVE  /\ g[i].t = "sec" => (IsPrefix(g[i].n, Section) => g[i].n = Section)
                 /\ g[i].t = "key" =>
                      \A k \in KeySet : g[i].n # <<>> /\ IsPrefix(g[i].n, k) => g[i].n = k
      <4>1. CASE i \in 1 .. L BY <2>2, <2>3, <4>1 DEF Plain
      <4>2. CASE i = L + 1 BY <2>1, <2>3, <4>2
      <4> QED BY <2>3, <2>4, <4>1, <4>2
    <3> QED BY <3>1 DEF Plain
  <2>9. \A k, i : ~Gives(f, k, i) /\ ~Gives(g, k, i)
    <3>1. \A h \in DOMAIN f : f[h] # Sec(Section) BY <2>5, PlainHeader
    <3>2. \A h \in DOMAIN g : g[h] # Sec(Section) BY <2>3, <2>6, <2>8, PlainHeader
    <3> QED BY <3>1, <3>2 DEF Gives
  <2> QED BY <2>3, <2>7, <2>8, <2>9 DEF IsValueOf, g
<1> QED BY <1>1, <1>2

\* A line that is a key has a name and a value.
LEMMA KeyShape ==
    ASSUME NEW x \in Line, x.t = "key"
    PROVE  \E n \in Names, u \in Values \cup {Text} : x = Key(n, u)
<1>1. x \notin {Sec(n) : n \in Names} BY DEF Sec
<1>2. x # Other BY DEF Other
<1> QED BY <1>1, <1>2 DEF Line

\* A key that is there keeps its line and gets another value.
LEMMA ChangeValue ==
    ASSUME NEW f \in Seq(Line), Plain(f), NEW key \in KeySet, NEW v \in Values, KeyLine(f, key) # 0
    PROVE  Changes(f, [f EXCEPT ![KeyLine(f, key)].v = v], key, v)
<1> DEFINE l == KeyLine(f, key)
           w == [f EXCEPT ![l].v = v]
           hits == {i \in DOMAIN f : Found(f, key, i)}
<1>1. Len(f) \in Nat /\ DOMAIN f = 1 .. Len(f) OBVIOUS
<1>2. f \in File OBVIOUS
<1>3. l \in hits /\ \A j \in hits : l <= j
  <2>1. hits # {} /\ l = FirstOf(hits) BY DEF KeyLine
  <2>2. hits \in SUBSET Nat BY <1>1
  <2> HIDE DEF hits
  <2> QED BY <2>1, <2>2, FirstOfSet
<1>4. l \in DOMAIN f /\ Gives(f, key, l) /\ \A j \in 1 .. l - 1 : ~Gives(f, key, j)
  <2>1. l \in DOMAIN f BY <1>3
  <2>2. Gives(f, key, l) BY <1>2, <1>3, <2>1, FoundIsGiven
  <2>3. ASSUME NEW j \in 1 .. l - 1, Gives(f, key, j) PROVE FALSE
    <3>1. j \in DOMAIN f BY <2>3 DEF Gives
    <3>2. j \in hits BY <1>2, <2>3, <3>1, FoundIsGiven
    <3>3. l <= j BY <3>2, <1>3
    <3> QED BY <1>1, <2>1, <2>3, <3>3
  <2> QED BY <2>1, <2>2, <2>3
<1> HIDE DEF l, hits
<1>5. /\ DOMAIN w = DOMAIN f
      /\ \A i \in DOMAIN f : i # l => w[i] = f[i]
      /\ w[l] = [f[l] EXCEPT !.v = v]
  BY <1>1, <1>4
<1>6. PICK n \in Names, u \in Values \cup {Text} : f[l] = Key(n, u)
  <2>1. f[l] \in Line BY <1>1, <1>4
  <2>2. f[l].t = "key" BY <1>4 DEF Gives
  <2> QED BY <2>1, <2>2, KeyShape
<1>7. w[l] = Key(n, v) BY <1>5, <1>6 DEF Key
<1> HIDE DEF w
<1>8. n = key /\ f[l].t = "key" /\ f[l].n = key /\ w[l].t = "key" /\ w[l].n = key /\ w[l].v = v
  BY <1>4, <1>6, <1>7 DEF Gives, Key
<1>9. \A i \in DOMAIN f : w[i].t = f[i].t /\ w[i].n = f[i].n
  BY <1>5, <1>8
<1>10. \A i \in DOMAIN f : w[i] = Sec(Section) <=> f[i] = Sec(Section)
  <2>1. Sec(Section).t = "sec" BY DEF Sec
  <2> QED BY <1>5, <1>8, <2>1
<1>11. ASSUME NEW h \in DOMAIN f, NEW i \in DOMAIN f PROVE HeaderOf(w, h, i) <=> HeaderOf(f, h, i)
  <2>1. \A j \in h + 1 .. i - 1 : j \in DOMAIN f BY <1>1
  <2> QED BY <1>9, <2>1 DEF HeaderOf
<1>12. ASSUME NEW k, NEW i \in DOMAIN f PROVE Gives(w, k, i) <=> Gives(f, k, i)
  BY <1>5, <1>9, <1>10, <1>11 DEF Gives
<1>13. IsValueOf(w, key, v, 0)
  <2>1. Gives(w, key, l) /\ l \in DOMAIN w BY <1>4, <1>5, <1>12
  <2>2. \A j \in 1 .. l - 1 : ~Gives(w, key, j)
    <3>1. \A j \in 1 .. l - 1 : j \in DOMAIN f BY <1>1, <1>4
    <3> QED BY <1>4, <1>12, <3>1
  <2>3. v = Converted(key, w[l].v) BY <1>8, WrittenValue
  <2> QED BY <2>1, <2>2, <2>3 DEF IsValueOf
<1>14. ASSUME NEW k \in KeySet \ {key}, NEW u1, IsValueOf(f, k, u1, 0)
       PROVE  IsValueOf(w, k, u1, 0)
  <2>1. ASSUME NEW i \in DOMAIN f, Gives(f, k, i) PROVE i # l /\ w[i].v = f[i].v
    BY <1>5, <1>8, <1>14, <2>1 DEF Gives
  <2>2. CASE /\ \A i \in DOMAIN f : ~Gives(f, k, i)
             /\ u1 = 0
    BY <1>5, <1>12, <2>2 DEF IsValueOf
  <2>3. CASE \E i \in DOMAIN f : /\ Gives(f, k, i)
                                 /\ \A j \in 1 .. i - 1 : ~Gives(f, k, j)
                                 /\ u1 = Converted(k, f[i].v)
    <3>1. PICK i \in DOMAIN f : /\ Gives(f, k, i)
                                /\ \A j \in 1 .. i - 1 : ~Gives(f, k, j)
                                /\ u1 = Converted(k, f[i].v)
      BY <2>3
    <3>2. \A j \in 1 .. i - 1 : j \in DOMAIN f BY <1>1
    <3> QED BY <1>5, <1>12, <2>1, <3>1, <3>2 DEF IsValueOf
  <2> QED BY <1>14, <2>2, <2>3 DEF IsValueOf
<1>15. Plain(w) BY <1>5, <1>9 DEF Plain
<1> QED BY <1>13, <1>14, <1>15 DEF Changes, w, l

\* The lines behind the place of insertion move by one.
LEMMA InsertLines ==
    ASSUME NEW f \in Seq(Line), NEW s \in 1 .. Len(f), NEW x \in Line
    PROVE  LET w == InsertBehind(f, s, x)
           IN  /\ DOMAIN w = 1 .. Len(f) + 1
               /\ \A i \in 1 .. s : w[i] = f[i]
               /\ w[s + 1] = x
               /\ \A i \in s + 1 .. Len(f) : w[i + 1] = f[i]
<1> DEFINE a == SubSeq(f, 1, s)
           b == SubSeq(f, s + 1, Len(f))
<1>1. s \in Nat /\ Len(f) \in Nat /\ s >= 1 /\ s <= Len(f) OBVIOUS
<1>2. a \in Seq(Line) /\ Len(a) = s /\ \A i \in 1 .. s : a[i] = f[i]
  BY <1>1
<1>3. b \in Seq(Line) /\ Len(b) = Len(f) - s /\ \A i \in 1 .. Len(f) - s : b[i] = f[s + i]
  BY <1>1
<1> HIDE DEF a, b
<1> DEFINE c == a \o <<x>>
<1>4. c \in Seq(Line) /\ Len(c) = s + 1 /\ \A i \in 1 .. s : c[i] = f[i]
  BY <1>1, <1>2
<1>5. c[s + 1] = x
  BY <1>1, <1>2
<1> HIDE DEF c
<1> DEFINE w == c \o b
<1>6. w \in Seq(Line) /\ Len(w) = Len(f) + 1
  <2>1. c \in Seq(Line) /\ b \in Seq(Line) BY <1>3, <1>4
  <2>2. w \in Seq(Line) BY <2>1
  <2>3. Len(w) = Len(c) + Len(b) BY <2>1
  <2> QED BY <1>1, <1>3, <1>4, <2>2, <2>3
<1>7. \A i \in 1 .. s + 1 : w[i] = c[i]
  <2>1. \A i \in 1 .. Len(c) : (c \o b)[i] = c[i]
    BY <1>3, <1>4
  <2> QED BY <1>4, <2>1
<1>8. ASSUME NEW i \in s + 1 .. Len(f) PROVE w[i + 1] = f[i]
  <2>1. i \in Nat /\ i - s \in 1 .. Len(f) - s /\ i + 1 = (s + 1) + (i - s) /\ s + (i - s) = i
    BY <1>1
  <2>2. w[(s + 1) + (i - s)] = b[i - s]
    <3>1. \A j \in 1 .. Len(b) : w[(s + 1) + j] = b[j]
      BY <1>1, <1>3, <1>4
    <3> QED BY <3>1, <2>1, <1>3
  <2>3. b[i - s] = f[s + (i - s)] BY <1>3, <2>1
  <2> QED BY <2>1, <2>2, <2>3
<1>9. InsertBehind(f, s, x) = w BY DEF InsertBehind, w, c, a, b
<1> HIDE DEF w
<1>10. DOMAIN w = 1 .. Len(f) + 1 BY <1>6
<1>11. \A i \in 1 .. s : w[i] = f[i] BY <1>1, <1>4, <1>7
<1>12. w[s + 1] = x BY <1>1, <1>5, <1>7
<1> QED BY <1>8, <1>9, <1>10, <1>11, <1>12

\* A key that is not there is added behind the last header of the section.
LEMMA AddKey ==
    ASSUME NEW f \in Seq(Line), Plain(f), NEW key \in KeySet, NEW v \in Values,
           SecLine(f) # 0, KeyLine(f, key) = 0
    PROVE  Changes(f, InsertBehind(f, SecLine(f), Key(key, v)), key, v)
<1> DEFINE s == SecLine(f)
           L == Len(f)
           w == InsertBehind(f, s, Key(key, v))
           m == [i \in 1 .. L |-> IF i <= s THEN i ELSE i + 1]
<1>1. L \in Nat /\ DOMAIN f = 1 .. L /\ f \in File OBVIOUS
<1>2. s \in 1 .. L /\ f[s] = Sec(Section)
  <2> DEFINE heads == {i \in DOMAIN f : SecMatch(f, i)}
  <2>1. heads # {} /\ s = LastOf(heads) BY DEF SecLine
  <2>2. heads \in SUBSET (1 .. L) BY <1>1
  <2>3. s \in heads
    <3> HIDE DEF heads
    <3> QED BY <1>1, <2>1, <2>2, LastOfSet
  <2> HIDE DEF s
  <2> QED BY <1>1, <2>3, PlainHeader
<1>3. \A i \in DOMAIN f : ~Gives(f, key, i)
  <2> DEFINE hits == {i \in DOMAIN f : Found(f, key, i)}
  <2>1. SUFFICES ASSUME NEW i \in DOMAIN f, Gives(f, key, i) PROVE FALSE
    OBVIOUS
  <2>2. i \in hits BY <1>1, <2>1, FoundIsGiven
  <2>3. FirstOf(hits) \in hits
    <3>1. hits \in SUBSET Nat BY <1>1
    <3> HIDE DEF hits
    <3> QED BY <2>2, <3>1, FirstOfSet
  <2>4. KeyLine(f, key) = FirstOf(hits) BY <2>2 DEF KeyLine
  <2> QED BY <1>1, <2>3, <2>4
<1> HIDE DEF s
<1>4. /\ DOMAIN w = 1 .. L + 1
      /\ \A i \in 1 .. s : w[i] = f[i]
      /\ w[s + 1] = Key(key, v)
      /\ \A i \in s + 1 .. L : w[i + 1] = f[i]
  <2>1. Key(key, v) \in Line BY IniAssumption DEF Line
  <2> QED BY <1>2, <2>1, InsertLines
<1> HIDE DEF w
<1>5. /\ Key(key, v).t = "key" /\ Key(key, v).n = key /\ Key(key, v).v = v
      /\ Sec(Section).t = "sec"
  BY DEF Key, Sec
<1>6. ASSUME NEW i \in 1 .. L
      PROVE  m[i] \in 1 .. L + 1 /\ w[m[i]] = f[i] /\ m[i] # s + 1
  <2>1. CASE i <= s
    <3>1. m[i] = i /\ i \in 1 .. s BY <1>1, <1>2, <2>1
    <3> QED BY <1>1, <1>2, <1>4, <3>1
  <2>2. CASE ~(i <= s)
    <3>1. m[i] = i + 1 /\ i \in s + 1 .. L BY <1>1, <1>2, <2>2
    <3> QED BY <1>1, <1>2, <1>4, <3>1
  <2> QED BY <2>1, <2>2
<1>7. \A i, j \in 1 .. L : m[j] < m[i] <=> j < i
  BY <1>1, <1>2
<1>8. ASSUME NEW j \in 1 .. L + 1, j # s + 1 PROVE \E i \in 1 .. L : j = m[i]
  <2>1. CASE j <= s
    <3>1. j \in 1 .. L /\ m[j] = j BY <1>1, <1>2, <2>1
    <3> QED BY <3>1
  <2>2. CASE j > s
    <3>1. j - 1 \in 1 .. L /\ m[j - 1] = j BY <1>1, <1>2, <1>8, <2>2
    <3> QED BY <3>1
  <2> QED BY <1>2, <2>1, <2>2
<1> HIDE DEF m
<1>9. ASSUME NEW h \in 1 .. L, NEW i \in 1 .. L
      PROVE  HeaderOf(w, m[h], m[i]) <=> HeaderOf(f, h, i)
  <2>1. ASSUME \A j \in m[h] + 1 .. m[i] - 1 : w[j].t # "sec", NEW j \in h + 1 .. i - 1
        PROVE  f[j].t # "sec"
    <3>1. j \in 1 .. L /\ h < j /\ j < i BY <1>1
    <3>2. m[h] < m[j] /\ m[j] < m[i] BY <1>7, <3>1
    <3>3. m[j] \in m[h] + 1 .. m[i] - 1 BY <1>6, <3>1, <3>2
    <3> QED BY <1>6, <2>1, <3>1, <3>3
  <2>2. ASSUME \A j \in h + 1 .. i - 1 : f[j].t # "sec", NEW j \in m[h] + 1 .. m[i] - 1
        PROVE  w[j].t # "sec"
    <3>1. m[h] \in 1 .. L + 1 /\ m[i] \in 1 .. L + 1 BY <1>6
    <3>2. j \in 1 .. L + 1 /\ m[h] < j /\ j < m[i] BY <1>1, <3>1
    <3>3. CASE j = s + 1 BY <1>4, <1>5, <3>3
    <3>4. CASE j # s + 1
      <4>1. PICK q \in 1 .. L : j = m[q] BY <1>8, <3>2, <3>4
      <4>2. h < q /\ q < i BY <1>7, <3>2, <4>1
      <4>3. q \in h + 1 .. i - 1 BY <4>2
      <4> QED BY <1>6, <2>2, <4>1, <4>3
    <3> QED BY <3>3, <3>4
  <2>3. w[m[h]] = f[h] BY <1>6
  <2> QED BY <1>7, <2>1, <2>2, <2>3 DEF HeaderOf
<1>10. ASSUME NEW k, NEW i \in 1 .. L PROVE Gives(w, k, m[i]) <=> Gives(f, k, i)
  <2>1. m[i] \in DOMAIN w /\ w[m[i]] = f[i] BY <1>4, <1>6
  <2>2. ASSUME NEW h \in DOMAIN f, f[h] = Sec(Section) /\ HeaderOf(f, h, i)
        PROVE  \E g \in DOMAIN w : w[g] = Sec(Section) /\ HeaderOf(w, g, m[i])
    <3>1. h \in 1 .. L BY <1>1
    <3>2. m[h] \in DOMAIN w /\ w[m[h]] = f[h] BY <1>4, <1>6, <3>1
    <3>3. HeaderOf(w, m[h], m[i]) BY <1>9, <2>2, <3>1
    <3> QED BY <2>2, <3>2, <3>3
  <2>3. ASSUME NEW g \in DOMAIN w, w[g] = Sec(Section) /\ HeaderOf(w, g, m[i])
        PROVE  \E h \in DOMAIN f : f[h] = Sec(Section) /\ HeaderOf(f, h, i)
    <3>1. g \in 1 .. L + 1 /\ g # s + 1 BY <1>4, <1>5, <2>3
    <3>2. PICK h \in 1 .. L : g = m[h] BY <1>8, <3>1
    <3>3. f[h] = Sec(Section) /\ HeaderOf(f, h, i) BY <1>6, <1>9, <2>3, <3>2
    <3> QED BY <1>1, <3>3
  <2>4. i \in DOMAIN f BY <1>1
  <2> QED BY <2>1, <2>2, <2>3, <2>4 DEF Gives
<1>11. ASSUME NEW k, NEW j \in DOMAIN w, Gives(w, k, j), j # s + 1
       PROVE  \E i \in DOMAIN f : j = m[i] /\ Gives(f, k, i)
  <2>1. j \in 1 .. L + 1 BY <1>4
  <2>2. PICK i \in 1 .. L : j = m[i] BY <1>8, <1>11, <2>1
  <2>3. Gives(f, k, i) BY <1>10, <1>11, <2>2
  <2> QED BY <1>1, <2>2, <2>3
<1>12. Gives(w, key, s + 1)
  <2>1. s \in DOMAIN w /\ s + 1 \in DOMAIN w BY <1>1, <1>2, <1>4
  <2>2. w[s] = Sec(Section) BY <1>2, <1>4
  <2>3. HeaderOf(w, s, s + 1) BY <1>2, <1>5, <2>2 DEF HeaderOf
  <2> QED BY <1>4, <1>5, <2>1, <2>2, <2>3 DEF Gives
<1>13. IsValueOf(w, key, v, 0)
  <2>1. ASSUME NEW j \in 1 .. (s + 1) - 1, Gives(w, key, j) PROVE FALSE
    <3>1. j \in DOMAIN w BY <2>1 DEF Gives
    <3>2. j # s + 1 BY <1>2
    <3> QED BY <1>3, <1>11, <2>1, <3>1, <3>2
  <2>2. v = Converted(key, w[s + 1].v) BY <1>4, <1>5, WrittenValue
  <2>3. s + 1 \in DOMAIN w BY <1>1, <1>2, <1>4
  <2> QED BY <1>12, <2>1, <2>2, <2>3 DEF IsValueOf
<1>14. ASSUME NEW k \in KeySet \ {key}, NEW u, IsValueOf(f, k, u, 0) PROVE IsValueOf(w, k, u, 0)
  <2>1. ~Gives(w, k, s + 1) BY <1>4, <1>5, <1>14 DEF Gives
  <2>2. \A j \in DOMAIN w : Gives(w, k, j) => \E i \in DOMAIN f : j = m[i] /\ Gives(f, k, i)
    BY <1>11, <2>1
  <2>3. \A i \in DOMAIN f : m[i] \in DOMAIN w BY <1>1, <1>4, <1>6
  <2>4. \A i, j \in DOMAIN f : m[j] < m[i] => j < i BY <1>1, <1>7
  <2>5. \A i \in DOMAIN f : Gives(f, k, i) => Gives(w, k, m[i]) /\ w[m[i]].v = f[i].v
    BY <1>1, <1>6, <1>10
  <2>6. DOMAIN f \subseteq Nat /\ DOMAIN w \subseteq Nat \ {0} BY <1>1, <1>4
  <2>7. \A i \in DOMAIN f : i > 0 /\ \A j \in 1 .. i - 1 : j \in DOMAIN f BY <1>1
  <2> QED BY <1>14, <2>2, <2>3, <2>4, <2>5, <2>6, <2>7, SameValue
<1>15. Plain(w)
  <2>1. ASSUME NEW j \in DOMAIN w
        PROVE  /\ w[j].t = "sec" => (IsPrefix(w[j].n, Section) => w[j].n = Section)
               /\ w[j].t = "key" =>
                    \A k \in KeySet : w[j].n # <<>> /\ IsPrefix(w[j].n, k) => w[j].n = k
    <3>1. CASE j = s + 1 BY <1>4, <1>5, <3>1, KeyPlain
    <3>2. CASE j # s + 1
      <4>1. j \in 1 .. L + 1 BY <1>4
      <4>2. PICK i \in 1 .. L : j = m[i] BY <1>8, <3>2, <4>1
      <4>3. w[j] = f[i] /\ i \in DOMAIN f BY <1>1, <1>6, <4>2
      <4> QED BY <4>3 DEF Plain
    <3> QED BY <3>1, <3>2
  <2> QED BY <2>1 DEF Plain
<1> QED BY <1>13, <1>14, <1>15 DEF Changes, w, s

\* write_profile_string on a plain file of any length, or on none: the key has
\* its value, every other key the value it had, and the file stays plain.
THEOREM WriteIsReference ==
    ASSUME NEW f \in File, Plain(f), NEW key \in KeySet, NEW v \in Values
    PROVE  LET w == write_profile_string(f, key, v)
           IN  /\ Plain(w) /\ IsValueOf(w, key, v, 0)
               /\ \A k \in KeySet \ {key} : IsValueOf(w, k, read_profile(f, k, 0), 0)
<1> DEFINE old == IF f = Missing THEN <<>> ELSE f
           w == write_profile_string(f, key, v)
<1>1. old \in Seq(Line) OBVIOUS
<1>2. Plain(old) BY DEF Plain
<1>3. ASSUME NEW k \in KeySet PROVE IsValueOf(old, k, read_profile(f, k, 0), 0)
  <2>1. CASE f = Missing
    <3>1. read_profile(f, k, 0) = 0 BY <2>1 DEF read_profile, Default
    <3>2. old = <<>> BY <2>1
    <3> QED BY <3>1, <3>2 DEF IsValueOf
  <2>2. CASE f # Missing
    <3>1. IsValueOf(f, k, read_profile(f, k, 0), Default(k, 0)) BY ReadIsReference
    <3>2. Default(k, 0) = 0 BY DEF Default
    <3> QED BY <2>2, <3>1, <3>2
  <2> QED BY <2>1, <2>2
<1>4. w = CASE SecLine(old) = 0 -> old \o Blank(old) \o <<Sec(Section), Key(key, v)>>
            [] SecLine(old) # 0 /\ KeyLine(old, key) = 0
                 -> InsertBehind(old, SecLine(old), Key(key, v))
            [] SecLine(old) # 0 /\ KeyLine(old, key) # 0
                 -> [old EXCEPT ![KeyLine(old, key)].v = v]
  BY DEF write_profile_string
<1> HIDE DEF old, w
<1>5. Changes(old, w, key, v)
  <2>1. CASE SecLine(old) = 0
    <3> DEFINE g == old \o Blank(old)
    <3>1. /\ g \in Seq(Line) /\ Plain(g) /\ SecLine(g) = 0
          /\ \A k, u : IsValueOf(old, k, u, 0) => IsValueOf(g, k, u, 0)
      BY <1>1, <1>2, <2>1, AddBlank
    <3>2. w = g \o <<Sec(Section), Key(key, v)>> BY <1>4, <2>1
    <3> HIDE DEF g
    <3>3. Changes(g, w, key, v) BY <3>1, <3>2, AddSection
    <3> QED BY <3>1, <3>3 DEF Changes
  <2>2. CASE SecLine(old) # 0 /\ KeyLine(old, key) = 0 BY <1>1, <1>2, <1>4, <2>2, AddKey
  <2>3. CASE SecLine(old) # 0 /\ KeyLine(old, key) # 0 BY <1>1, <1>2, <1>4, <2>3, ChangeValue
  <2> QED BY <2>1, <2>2, <2>3
<1> QED BY <1>3, <1>5 DEF Changes, w

\* Between its reading of the file and its return, write_profile_string has in
\* w_buf what it made of the file it read, and at the end that is the file, if the
\* card took it.
WriterInv ==
    /\ writer \in {"loaded", "truncated", "done"} =>
           /\ args.v \in Values
           /\ w_buf = write_profile_string(buf, args.key, args.v)
    /\ writer = "done" /\ lost = 0 => file = w_buf

\* WriteKeepsOthers for files of any length and any names, whatever Configuration
\* reads meanwhile and however often a write failed before, when the card takes
\* what is written.
THEOREM WriteChangesOneKey == Spec => []WriteKeepsOthers
<1>1. Init => WriterInv
  BY DEF Init, WriterInv
<1>2. TypeOK /\ WriterInv /\ [Next]_vars => WriterInv'
  <2> SUFFICES ASSUME TypeOK, WriterInv, [Next]_vars PROVE WriterInv'
    OBVIOUS
  <2> USE DEF WriterInv, readVars, writeVars
  <2>1. CASE ConfigBegin \/ ConfigRead \/ ConfigEnd
    BY <2>1 DEF ConfigBegin, ConfigRead, ConfigEnd
  <2>2. CASE WriteLoad
    <3>1. CASE UNCHANGED writeVars /\ UNCHANGED file
      BY <2>2, <3>1
    <3>2. ASSUME NEW k \in KeySet, NEW v \in Values, writer' = "loaded", buf' = file,
                 args' = [key |-> k, v |-> v], w_buf' = write_profile_string(file, k, v)
          PROVE  WriterInv'
      <4>1. args'.key = k /\ args'.v = v BY <3>2
      <4>2. w_buf' = write_profile_string(buf', args'.key, args'.v) BY <3>2, <4>1
      <4> QED BY <3>2, <4>1, <4>2
    <3> QED BY <2>2, <3>1, <3>2 DEF WriteLoad
  <2>3. CASE WriteOpen \/ WriteClose \/ WriteFails \/ WriteReturn
    BY <2>3 DEF WriteOpen, WriteClose, WriteFails, WriteReturn
  <2>4. CASE Replace
    BY <2>4 DEF Replace
  <2>5. CASE UNCHANGED vars
    BY <2>5 DEF vars
  <2> QED BY <2>1, <2>2, <2>3, <2>4, <2>5 DEF Next
<1>3. TypeOK /\ WriterInv => WriteKeepsOthers
  <2> SUFFICES ASSUME TypeOK, WriterInv, writer = "done", lost = 0, Plain(buf)
               PROVE  /\ Plain(file) /\ IsValueOf(file, args.key, args.v, 0)
                      /\ \A k \in KeySet \ {args.key} :
                             IsValueOf(file, k, read_profile(buf, k, 0), 0)
    BY DEF WriteKeepsOthers
  <2>1. buf \in File /\ args.key \in KeySet /\ args.v \in Values
    BY DEF TypeOK, WriterInv
  <2>2. file = write_profile_string(buf, args.key, args.v)
    BY DEF WriterInv
  <2> QED BY <2>1, <2>2, WriteIsReference
<1> QED BY <1>1, <1>2, <1>3, TypeCorrect, PTL DEF Spec
=============================================================================
