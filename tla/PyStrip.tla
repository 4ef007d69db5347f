------------------------------ MODULE PyStrip ------------------------------
(***************************************************************************)
(* The string operations of get_component_converter's package scan         *)
(* (fate_converter.py 63-68), without recursion: the filter that lists a   *)
(* converter file and what f.rstrip('.py') leaves of it.  A file name is a *)
(* sequence of one-character strings.  PyModuleName scans entries with     *)
(* them; PyStripProofs proves what they compute for names of any length.   *)
(***************************************************************************)
EXTENDS Naturals, Sequences, SequencesExt

\* The characters given to rstrip, and the suffix the code means to remove.
StripChars == {".", "p", "y"}
PySuffix == <<".", "p", "y">>

\* k is where rstrip(cs) cuts s: every character after position k is in
\* cs, and the one at k (if any) is not.
RStripCut(s, cs, k) ==
    /\ \A i \in k + 1..Len(s) : s[i] \in cs
    /\ k = 0 \/ s[k] \notin cs

\* Reference for rstrip, without recursion: the prefix up to the cut.
RStripRef(s, cs) ==
    SubSeq(s, 1, CHOOSE k \in 0..Len(s) : RStripCut(s, cs, k))

\* The file name without its '.py' extension: what the scan should import.
Stem(f) == SubSeq(f, 1, Len(f) - Len(PySuffix))

\* fate_converter.py 64-67: the entries get_component_converter imports.
ConverterListed(f) ==
    /\ f # <<>>
    /\ f[1] \notin {".", "_"}
    /\ IsSuffix(PySuffix, f)

=============================================================================
