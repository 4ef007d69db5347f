--------------------------- MODULE PyStripProofs ---------------------------
(***************************************************************************)
(* What get_component_converter's f.rstrip('.py') (fate_converter.py 68)   *)
(* imports, for file names of every length: RStripRef is well defined (the *)
(* cut exists and is unique), and a listed converter file is imported      *)
(* under its own stem exactly when the character before '.py' is not '.',  *)
(* 'p' or 'y', while a protoc '<name>_pb2.py' always keeps its name.      *)
(***************************************************************************)
EXTENDS PyModuleName, SequenceTheorems, WellFoundedInduction, TLAPS

\* A non-empty set of naturals has a least element.
LEMMA LeastNatural ==
    ASSUME NEW M \in SUBSET Nat, M # {}
    PROVE  \E m \in M : \A k \in M : m <= k
<1>1. PICK m \in M : \A k \in M : ~(<<k, m>> \in OpToRel(<, Nat))
  BY NatLessThanWellFounded, WFMin
<1>2. ASSUME NEW k \in M PROVE m <= k
  <2>1. ~(<<k, m>> \in OpToRel(<, Nat))
    BY <1>1
  <2>2. <<k, m>> \in Nat \X Nat
    OBVIOUS
  <2>3. ~(k < m)
    BY <2>1, <2>2, Zenon DEF OpToRel
  <2>. QED
    BY <2>3
<1>. QED
  BY <1>2

\* rstrip always has a place to cut: the last character not in cs, or 0.
LEMMA RStripCutExists ==
    ASSUME NEW S, NEW s \in Seq(S), NEW cs
    PROVE  \E k \in 0..Len(s) : RStripCut(s, cs, k)
<1> DEFINE n == Len(s)
           M == {m \in 0..n : n - m = 0 \/ s[n - m] \notin cs}
<1>1. n \in M /\ M \in SUBSET Nat
  OBVIOUS
<1>2. PICK m \in M : \A j \in M : m <= j
  BY <1>1, LeastNatural
<1>3. ASSUME NEW i \in (n - m) + 1..n PROVE s[i] \in cs
  <2>1. n - i \in 0..m - 1 /\ n - (n - i) = i /\ i # 0
    OBVIOUS
  <2>2. SUFFICES ASSUME s[i] \notin cs PROVE FALSE
    OBVIOUS
  <2>3. n - i \in M
    BY <2>1, <2>2
  <2>. QED
    BY <2>1, <2>3, <1>2
<1>. QED
  BY <1>3 DEF RStripCut

\* The cut is unique: two cuts j < k would put s[k] both in and out of cs.
LEMMA RStripCutUnique ==
    ASSUME NEW S, NEW s \in Seq(S), NEW cs,
           NEW j \in 0..Len(s), NEW k \in 0..Len(s),
           RStripCut(s, cs, j), RStripCut(s, cs, k)
    PROVE  j = k
<1>1. ~(j < k)
  BY DEF RStripCut
<1>2. ~(k < j)
  BY DEF RStripCut
<1>. QED
  BY <1>1, <1>2

\* RStripRef is the prefix up to any cut.
LEMMA RStripRefIs ==
    ASSUME NEW S, NEW s \in Seq(S), NEW cs,
           NEW k \in 0..Len(s), RStripCut(s, cs, k)
    PROVE  RStripRef(s, cs) = SubSeq(s, 1, k)
<1> DEFINE c == CHOOSE j \in 0..Len(s) : RStripCut(s, cs, j)
<1>1. c \in 0..Len(s) /\ RStripCut(s, cs, c)
  BY RStripCutExists
<1>2. c = k
  BY <1>1, RStripCutUnique
<1>. QED
  BY <1>2 DEF RStripRef

\* A name ending in '.py' has '.', 'p' and 'y' as its last three characters.
LEMMA SuffixChars ==
    ASSUME NEW S, NEW f \in Seq(S), IsSuffix(PySuffix, f)
    PROVE  /\ Len(f) >= 3
           /\ f[Len(f) - 2] = "." /\ f[Len(f) - 1] = "p" /\ f[Len(f)] = "y"
<1> DEFINE n == Len(f)
           rp == Reverse(PySuffix)
           rf == Reverse(f)
<1>1. rp = <<"y", "p", ".">>
  BY DEF Reverse, PySuffix
<1>2. Len(rf) = n /\ \A i \in 1..n : rf[i] = f[n - i + 1]
  BY DEF Reverse
<1>3. 3 <= n /\ SubSeq(rp, 1, 3) = SubSeq(rf, 1, 3)
  BY <1>1, <1>2 DEF IsSuffix, IsPrefix
<1>4. rf[1] = "y" /\ rf[2] = "p" /\ rf[3] = "."
  BY <1>1, <1>2, <1>3
<1>. QED
  BY <1>2, <1>3, <1>4

(***************************************************************************)
(* get_component_converter imports a listed file (name not starting with  *)
(* '.' or '_', ending in '.py') under its own module name, the file name  *)
(* without '.py', exactly when the character before '.py' is not '.', 'p'  *)
(* or 'y'; otherwise rstrip (fate_converter.py 68) cuts into the stem.     *)
(* For names of every length.                                             *)
(***************************************************************************)
THEOREM ConverterImportsStem ==
    ASSUME NEW S, NEW f \in Seq(S), ConverterListed(f)
    PROVE  RStripRef(f, StripChars) = Stem(f) <=> f[Len(f) - 3] \notin StripChars
<1> DEFINE n == Len(f)
<1>1. /\ n >= 3
      /\ f[n - 2] = "." /\ f[n - 1] = "p" /\ f[n] = "y"
  BY SuffixChars DEF ConverterListed
<1>2. n >= 4
  <2>1. f[1] # "."
    BY DEF ConverterListed
  <2>2. n # 3
    BY <1>1, <2>1
  <2>3. PICK x \in Nat : x = n
    OBVIOUS
  <2>. QED
    BY <1>1, <2>2, <2>3
<1>3. \A i \in n - 2..n : f[i] \in StripChars
  BY <1>1 DEF StripChars
<1>4. Stem(f) = SubSeq(f, 1, n - 3) /\ Len(Stem(f)) = n - 3
  BY <1>2 DEF Stem, PySuffix
<1>5. CASE f[n - 3] \notin StripChars
  <2>1. RStripCut(f, StripChars, n - 3)
    BY <1>3, <1>5 DEF RStripCut
  <2>. QED
    BY <1>2, <1>4, <1>5, <2>1, RStripRefIs
<1>6. CASE f[n - 3] \in StripChars
  <2>1. PICK k \in 0..n : RStripCut(f, StripChars, k)
    BY RStripCutExists
  <2>2. k <= n - 4
    BY <1>2, <1>3, <1>6, <2>1 DEF RStripCut
  <2>3. Len(RStripRef(f, StripChars)) = k
    BY <2>1, RStripRefIs
  <2>. QED
    BY <1>4, <1>6, <2>2, <2>3
<1>. QED
  BY <1>5, <1>6

\* A name ending in '_pb2.py' has '2', '.', 'p', 'y' as its last four characters.
LEMMA PbSuffixChars ==
    ASSUME NEW S, NEW f \in Seq(S), IsSuffix(PbSuffix, f)
    PROVE  /\ Len(f) >= 7
           /\ f[Len(f) - 3] = "2" /\ f[Len(f) - 2] = "."
           /\ f[Len(f) - 1] = "p" /\ f[Len(f)] = "y"
<1> DEFINE n == Len(f)
           rp == Reverse(PbSuffix)
           rf == Reverse(f)
<1>1. Len(PbSuffix) = 7 /\ PbSuffix[7] = "y" /\ PbSuffix[6] = "p"
      /\ PbSuffix[5] = "." /\ PbSuffix[4] = "2"
  BY DEF PbSuffix
<1>2. Len(rp) = 7 /\ \A i \in 1..7 : rp[i] = PbSuffix[7 - i + 1]
  BY <1>1 DEF Reverse
<1>3. rp[1] = "y" /\ rp[2] = "p" /\ rp[3] = "." /\ rp[4] = "2"
  BY <1>1, <1>2
<1>4. PICK m \in Nat : m = n
  OBVIOUS
<1>5. Len(rf) = m /\ \A i \in 1..m : rf[i] = f[m - i + 1]
  BY <1>4 DEF Reverse
<1>6. 7 <= m /\ SubSeq(rp, 1, 7) = SubSeq(rf, 1, 7)
  BY <1>2, <1>4, <1>5 DEF IsSuffix, IsPrefix
<1>7. \A i \in 1..4 : rf[i] = rp[i]
  BY <1>2, <1>5, <1>6
<1>8. f[m] = "y" /\ f[m - 1] = "p" /\ f[m - 2] = "." /\ f[m - 3] = "2"
  <2>1. rf[1] = f[m] /\ rf[2] = f[m - 1] /\ rf[3] = f[m - 2] /\ rf[4] = f[m - 3]
    BY <1>5, <1>6
  <2>. QED
    BY <1>3, <1>7, <2>1
<1>. QED
  BY <1>4, <1>6, <1>8

\* rstrip('.py') of a protoc file name stops at the '2': it is the stem.
LEMMA GeneratedKeepsStem ==
    ASSUME NEW S, NEW f \in Seq(S), IsSuffix(PbSuffix, f)
    PROVE  RStripRef(f, StripChars) = Stem(f)
<1> DEFINE n == Len(f)
<1>1. /\ n >= 7
      /\ f[n - 3] = "2" /\ f[n - 2] = "." /\ f[n - 1] = "p" /\ f[n] = "y"
  BY PbSuffixChars
<1>2. RStripCut(f, StripChars, n - 3)
  BY <1>1 DEF RStripCut, StripChars
<1>3. Stem(f) = SubSeq(f, 1, n - 3)
  BY DEF Stem, PySuffix
<1>. QED
  BY <1>1, <1>2, <1>3, RStripRefIs

\* The characters of every entry of the listing.
Chars == Alphabet \cup {"b", "2"}

\* The inductive invariant: the listed file is a string, so the lemmas on
\* sequences apply to it, and the run property holds.
PMInv ==
    /\ file \in Seq(Chars)
    /\ ProtoImportsGenerated

\* Every entry os.listdir can return in the model is a string of Chars.
LEMMA ListingIsSeq == Listing \subseteq Seq(Chars)
<1>1. ASSUME NEW k \in 0..MaxLen PROVE [1..k -> Alphabet] \subseteq Seq(Chars)
  <2>1. [1..k -> Alphabet] \subseteq [1..k -> Chars]
    BY DEF Chars
  <2>2. k \in Nat
    <3>1. MaxLen \in Nat
      BY NameAssumption
    <3>. QED
      BY <3>1, SMT
  <2>3. ASSUME NEW g \in [1..k -> Chars] PROVE g \in Seq(Chars)
    <3>1. Seq(Chars) = UNION {[1..j -> Chars] : j \in Nat}
      BY SeqDef
    <3>2. g \in UNION {[1..j -> Chars] : j \in Nat}
      BY <2>2
    <3>. QED
      BY <3>1, <3>2
  <2>. QED
    BY <2>1, <2>3
<1>2. Names \subseteq Seq(Chars)
  BY <1>1 DEF Names
<1>3. PbSuffix \in Seq(Chars)
  <2>1. {"_", "p", "b", "2", ".", "y"} \subseteq Chars
    BY NameAssumption DEF Chars
  <2>2. PbSuffix \in Seq({"_", "p", "b", "2", ".", "y"})
    BY DEF PbSuffix
  <2>. QED
    BY <2>1, <2>2, SeqMonotonic
<1>4. \A n \in Names : n \o PbSuffix \in Seq(Chars)
  BY <1>2, <1>3, ConcatProperties
<1>. QED
  BY <1>2, <1>4 DEF Listing

(***************************************************************************)
(* For every alphabet and every length of name, _get_proto_buffer_class   *)
(* (fate_model.py 165) imports each '<name>_pb2.py' that protoc generates  *)
(* under its own module name '<name>_pb2': the run property               *)
(* ProtoImportsGenerated.                                                 *)
(***************************************************************************)
THEOREM ProtoImportsAllGenerated == PMSpec => []ProtoImportsGenerated
<1>1. PMInit => PMInv
  BY ListingIsSeq DEF PMInit, PMInv, ProtoImportsGenerated
<1>2. PMInv /\ [PMNext]_pm_vars => PMInv'
  <2> SUFFICES ASSUME PMInv, [PMNext]_pm_vars PROVE PMInv'
    OBVIOUS
  <2>1. CASE ScanEntry
    <3>1. file' = file /\ scan' = scan
      BY <2>1 DEF ScanEntry
    <3>2. ASSUME scan = "proto", IsSuffix(PbSuffix, file),
                 imported' \notin {Skipped, NoImport}
          PROVE  imported' = RStripRef(file, StripChars)
      BY <2>1, <3>2 DEF ScanEntry
    <3>3. IsSuffix(PbSuffix, file) => RStripRef(file, StripChars) = Stem(file)
      BY GeneratedKeepsStem DEF PMInv
    <3>. QED
      BY <3>1, <3>2, <3>3 DEF PMInv, ProtoImportsGenerated
  <2>2. CASE UNCHANGED pm_vars
    BY <2>2 DEF PMInv, ProtoImportsGenerated, pm_vars
  <2>. QED
    BY <2>1, <2>2 DEF PMNext
<1>3. PMInv => ProtoImportsGenerated
  BY DEF PMInv
<1>. QED
  BY <1>1, <1>2, <1>3, PTL DEF PMSpec

=============================================================================
