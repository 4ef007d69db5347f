--------------------------- MODULE PyModuleName ---------------------------
(***************************************************************************)
(* The module-name derivation of the two package scans: for each entry of *)
(* os.listdir, get_component_converter (fate_converter.py 63-68) skips     *)
(* names starting with '.' or '_' and names not ending in '.py', and       *)
(* imports "." + f.rstrip('.py'); FATEModel._get_proto_buffer_class        *)
(* (fate_model.py 162-165) skips only names starting with '.'.             *)
(*                                                                         *)
(* str.rstrip takes a SET of characters, not a suffix: it removes every    *)
(* trailing '.', 'p' or 'y' (RStripRef of PyStrip).  A file name is a      *)
(* sequence of one-character strings; the listing holds every short name   *)
(* over a small alphabet and each of them as a protoc '<name>_pb2.py'.     *)
(* One scan step handles one listed entry.                                 *)
(***************************************************************************)
EXTENDS Naturals, Sequences, SequencesExt, PyStrip

CONSTANTS
    Alphabet,   \* characters file names are made of
    MaxLen,     \* longest file name considered (before a _pb2.py suffix)
    Skipped,    \* the entry was skipped by the filter
    NoImport    \* the entry has not been scanned yet

ASSUME NameAssumption ==
    /\ MaxLen \in Nat
    /\ {".", "p", "y", "_"} \subseteq Alphabet
    /\ Skipped # NoImport

Names == UNION {[1..n -> Alphabet] : n \in 0..MaxLen}

\* The file protoc generates for <name>.proto is <name>_pb2.py.
PbSuffix == <<"_", "p", "b", "2", ".", "p", "y">>

Listing == Names \cup {n \o PbSuffix : n \in Names}

\* fate_model.py 163-164: the entries _get_proto_buffer_class imports.
ProtoListed(f) == f # <<>> => f[1] # "."

VARIABLES
    file,       \* the listdir entry being scanned
    scan,       \* "converter" or "proto": which of the two loops scans it
    imported    \* the module name passed to import_module, or Skipped

pm_vars == <<file, scan, imported>>

PMInit ==
    /\ file \in Listing
    /\ scan \in {"converter", "proto"}
    /\ imported = NoImport

\* Mutant: str.strip('.py') instead of rstrip, which also eats leading
\* '.', 'p' and 'y'.
StripRef(s, cs) ==
    LET r == RStripRef(s, cs)
        j == CHOOSE j \in 0..Len(r) :
                 /\ \A i \in 1..j : r[i] \in cs
                 /\ j = Len(r) \/ r[j + 1] \notin cs
    IN SubSeq(r, j + 1, Len(r))

ScanEntryStrip ==
    /\ imported = NoImport
    /\ LET listed == IF scan = "converter" THEN ConverterListed(file)
                                           ELSE ProtoListed(file)
       IN imported' = IF listed THEN StripRef(file, StripChars) ELSE Skipped
    /\ UNCHANGED <<file, scan>>

\* One iteration of either loop: filter the entry, then import the name
\* rstrip leaves.
ScanEntry ==
    /\ imported = NoImport
    /\ LET listed == IF scan = "converter" THEN ConverterListed(file)
                                           ELSE ProtoListed(file)
       IN imported' = IF listed THEN RStripRef(file, StripChars) ELSE Skipped
    /\ UNCHANGED <<file, scan>>

PMNext == ScanEntry

PMSpec == PMInit /\ [][PMNext]_pm_vars

-----------------------------------------------------------------------------
(***************************************************************************)
(* _get_proto_buffer_class (fate_model.py 165) imports every module protoc *)
(* generates under its own name: for '<name>_pb2.py' it imports            *)
(* '<name>_pb2', whatever '<name>' is, because rstrip stops at the '2'.    *)
(* The character-set rstrip cannot cut into a generated module's name.     *)
(***************************************************************************)
ProtoImportsGenerated ==
    imported \notin {Skipped, NoImport} /\ scan = "proto"
        /\ IsSuffix(PbSuffix, file) =>
            imported = Stem(file)

(***************************************************************************)
(* The converter scan imports the module its file defines: for an entry    *)
(* ending in '.py' it imports the file name with that extension removed.   *)
(* Expected to fail: rstrip strips characters, so 'happy.py' imports 'ha'  *)
(* and 'p.py' imports '' (fate_converter.py line 68).                      *)
(***************************************************************************)
ImportsOwnModule ==
    imported \notin {Skipped, NoImport} /\ scan = "converter" =>
        imported = Stem(file)

=============================================================================
