-------------------------- MODULE FateModelProofs --------------------------
(***************************************************************************)
(* Proofs about the construction of a FATEModel, for every set of module  *)
(* types and config types and every bound on the archive size.            *)
(***************************************************************************)
EXTENDS FateModel, TLAPS

(***************************************************************************)
(* The strengthening of FMTypeOK that a step preserves: the archive never  *)
(* grows beyond MaxComponents (it is read, not written, by _do_init) and   *)
(* the loop cursor never passes one beyond its end, so the position a      *)
(* _read_component record carries is a position of the archive.           *)
(***************************************************************************)
TypeInv ==
    /\ FMTypeOK
    /\ Len(archive) <= MaxComponents
    /\ cursor \in 1..Len(archive) + 1

\* An archive the constructor can be handed is a sequence of components
\* of length at most MaxComponents.
LEMMA ArchivesAreBoundedSeqs ==
    ASSUME NEW a \in Archives
    PROVE  a \in Seq(Component) /\ Len(a) <= MaxComponents
<1>1. PICK n \in 0..MaxComponents : a \in [1..n -> Component]
  BY DEF Archives
<1>2. a \in Seq(Component) /\ Len(a) = n
  BY <1>1, ConstantsAssumption
<1>. QED
  BY <1>1, <1>2

\* _read_component applied at a position of the archive yields a Record.
LEMMA ReadRecordType ==
    ASSUME NEW a \in Seq(Component), Len(a) <= MaxComponents,
           NEW k \in 1..Len(a)
    PROVE  ReadRecord(a, k) \in Record
<1>1. a[k] \in Component
  OBVIOUS
<1>2. k \in 0..MaxComponents
  BY ConstantsAssumption
<1>. QED
  BY <1>1, <1>2 DEF ReadRecord, Record, Component

\* _do_init starts in a state of the strengthened type.
LEMMA InitTypeInv == FMInit => TypeInv
<1> SUFFICES ASSUME FMInit PROVE TypeInv
  OBVIOUS
<1>1. archive \in Seq(Component) /\ Len(archive) <= MaxComponents
  BY ArchivesAreBoundedSeqs DEF FMInit
<1>2. DictArgs \subseteq {NoDict, EmptyDict} \cup Record
  BY ConstantsAssumption DEF DictArgs, Record
<1>. QED
  BY <1>1, <1>2 DEF FMInit, TypeInv, FMTypeOK, Frameworks, Errors,
                    NoFramework, NoError

\* Every step of _do_init keeps the strengthened type.
LEMMA NextTypeInv == TypeInv /\ [FMNext]_fm_vars => TypeInv'
<1> SUFFICES ASSUME TypeInv, [FMNext]_fm_vars PROVE TypeInv'
  OBVIOUS
<1>. USE DEF TypeInv, FMTypeOK, Fail, Errors, NoError
<1>1. CASE UseDict
  BY <1>1 DEF UseDict
<1>2. CASE UsePath
  BY <1>2 DEF UsePath
<1>3. CASE MissingModel
  BY <1>3 DEF MissingModel
<1>4. CASE Download
  BY <1>4 DEF Download
<1>5. CASE ReadComponent
  <2>1. ReadRecord(archive, cursor) \in Record
    BY <1>5, ReadRecordType DEF ReadComponent
  <2>. QED
    BY <1>5, <2>1 DEF ReadComponent
<1>6. CASE EndScan
  BY <1>6 DEF EndScan
<1>7. CASE Infer
  <2>1. model_dict \in Record => FrameworkOf(model_dict) \in Frameworks
    BY DEF FrameworkOf, Frameworks
  <2>. QED
    BY <1>7, <2>1 DEF Infer
<1>8. CASE UNCHANGED fm_vars
  BY <1>8 DEF fm_vars
<1>. QED
  BY <1>1, <1>2, <1>3, <1>4, <1>5, <1>6, <1>7, <1>8 DEF FMNext

(***************************************************************************)
(* Once _do_init has returned normally, model_dict holds a record of a     *)
(* supported module type and the target framework is the one lines        *)
(* 125-131 choose for it.  No step of _do_init leaves "ready".             *)
(***************************************************************************)
ReadyInv ==
    pc = "ready" =>
        /\ model_dict \in Record
        /\ model_dict.type \in SUPPORTED_MODELS
        /\ target_framework = FrameworkOf(model_dict)

LEMMA InitReadyInv == FMInit => ReadyInv
BY DEF FMInit, ReadyInv

LEMMA NextReadyInv == ReadyInv /\ [FMNext]_fm_vars => ReadyInv'
<1> SUFFICES ASSUME ReadyInv, [FMNext]_fm_vars PROVE ReadyInv'
  OBVIOUS
<1>. USE DEF ReadyInv, Fail
<1>1. CASE UseDict \/ UsePath \/ MissingModel \/ Download
  BY <1>1 DEF UseDict, UsePath, MissingModel, Download
<1>2. CASE ReadComponent \/ EndScan
  BY <1>2 DEF ReadComponent, EndScan
<1>3. CASE Infer
  BY <1>3 DEF Infer
<1>4. CASE UNCHANGED fm_vars
  BY <1>4 DEF fm_vars
<1>. QED
  BY <1>1, <1>2, <1>3, <1>4 DEF FMNext

(***************************************************************************)
(* Type correctness of FATEModel construction: in every behaviour of      *)
(* _do_init, with or without a download, the model dict is None, {} or a  *)
(* record read from a position of the archive, the framework is one of    *)
(* the three _do_init chooses, and the error is one the code can raise.   *)
(***************************************************************************)
THEOREM TypeCorrect == FMSpec => []FMTypeOK
<1>1. FMInit => TypeInv
  BY InitTypeInv
<1>2. TypeInv /\ [FMNext]_fm_vars => TypeInv'
  BY NextTypeInv
<1>3. TypeInv => FMTypeOK
  BY DEF TypeInv
<1>. QED
  BY <1>1, <1>2, <1>3, PTL DEF FMSpec

(***************************************************************************)
(* The loop invariant of lines 118-120.  While the manifest is scanned     *)
(* (and once the scan is over), the constructor had no truthy dict and had *)
(* a path or a version, every supported component before the cursor was   *)
(* readable, and model_dict is the caller's dict if none was met, else    *)
(* the record of the last supported component met.                        *)
(***************************************************************************)
ScanState ==
    /\ Falsy(args.dict)
    /\ args.path \/ args.version
    /\ \A k \in SupportedIdx(archive) : k < cursor => archive[k].readable
    /\ \/ /\ model_dict = args.dict
          /\ \A k \in SupportedIdx(archive) : cursor <= k
       \/ \E k \in SupportedIdx(archive) :
             /\ k < cursor
             /\ model_dict = ReadRecord(archive, k)
             /\ \A j \in SupportedIdx(archive) : j < cursor => j <= k

(***************************************************************************)
(* The inductive invariant behind ConstructionOutcome: the arguments are   *)
(* still in place before discovery, the loop invariant holds during the    *)
(* scan, and the check at lines 122-133 sees either the caller's truthy   *)
(* dict or the outcome of a complete scan.                                 *)
(***************************************************************************)
OutcomeInv ==
    /\ TypeInv
    /\ pc = "init" => /\ model_dict = args.dict
                      /\ model_path = args.path
                      /\ model_version = args.version
                      /\ cursor = 1
    /\ pc = "scan" => ScanState
    /\ pc = "infer" => \/ ~Falsy(args.dict) /\ model_dict = args.dict
                       \/ ScanState /\ cursor = Len(archive) + 1
    /\ ConstructionOutcome

\* LastSupported picks the supported position no other one exceeds.
LEMMA LastSupportedIs ==
    ASSUME NEW a, NEW k \in SupportedIdx(a),
           \A j \in SupportedIdx(a) : j <= k
    PROVE  LastSupported(a) = k
<1>1. /\ LastSupported(a) \in SupportedIdx(a)
      /\ \A j \in SupportedIdx(a) : j <= LastSupported(a)
  BY DEF LastSupported
<1>. QED
  BY <1>1 DEF SupportedIdx

\* No step of _do_init changes its arguments or the archive it reads.
LEMMA ArgsStable ==
    ASSUME [FMNext]_fm_vars
    PROVE  /\ args' = args /\ archive' = archive
           /\ ExpectedError' = ExpectedError
           /\ ExpectedDict' = ExpectedDict
           /\ FetchAttempted' = FetchAttempted
<1>1. args' = args /\ archive' = archive
  BY DEF FMNext, UseDict, UsePath, MissingModel, Download, ReadComponent,
         EndScan, Infer, fm_vars
<1>. QED
  BY <1>1 DEF ExpectedError, ExpectedDict, FetchAttempted, SupportedIdx,
              LastSupported

\* The loop starts with nothing scanned.
LEMMA StartScan ==
    ASSUME cursor = 1, model_dict = args.dict, Falsy(args.dict),
           args.path \/ args.version,
           UNCHANGED <<model_dict, cursor, args, archive>>
    PROVE  ScanState'
<1>1. \A k \in SupportedIdx(archive) : 1 <= k
  BY DEF SupportedIdx
<1>2. Falsy(args.dict)' /\ (args.path \/ args.version)'
  OBVIOUS
<1>3. \A k \in SupportedIdx(archive)' : ~(k < cursor')
  BY DEF SupportedIdx
<1>4. model_dict' = args'.dict /\ \A k \in SupportedIdx(archive)' : cursor' <= k
  BY <1>1
<1>. QED
  BY <1>2, <1>3, <1>4 DEF ScanState

\* The constructor starts with its arguments in place.
LEMMA InitOutcomeInv == FMInit => OutcomeInv
BY InitTypeInv DEF FMInit, OutcomeInv, ConstructionOutcome

(***************************************************************************)
(* Lines 109-117 keep OutcomeInv: a truthy dict goes straight to the      *)
(* check, a path or a successful download starts the loop with nothing    *)
(* scanned, and the failures are the ones the arguments determine.         *)
(***************************************************************************)
LEMMA LocateOutcomeInv ==
    ASSUME OutcomeInv, UseDict \/ UsePath \/ MissingModel \/ Download
    PROVE  OutcomeInv'
<1>0. /\ TypeInv'
      /\ args' = args /\ archive' = archive
      /\ ExpectedError' = ExpectedError
      /\ FetchAttempted' = FetchAttempted
  BY NextTypeInv, ArgsStable DEF OutcomeInv, FMNext
<1>1. /\ pc = "init" /\ model_dict = args.dict /\ model_path = args.path
      /\ model_version = args.version /\ cursor = 1
  BY DEF OutcomeInv, UseDict, UsePath, MissingModel, Download
<1>3. CASE UseDict
  BY <1>0, <1>1, <1>3 DEF UseDict, OutcomeInv, ConstructionOutcome
<1>4. CASE UsePath
  <2>1. ScanState'
    BY <1>0, <1>1, <1>4, StartScan DEF UsePath
  <2>. QED
    BY <1>0, <1>4, <2>1 DEF UsePath, OutcomeInv, ConstructionOutcome
<1>5. CASE MissingModel
  <2>1. error' = "ValueError" /\ pc' = "failed"
    BY <1>5 DEF MissingModel, Fail
  <2>2. ExpectedError = "ValueError"
    BY <1>1, <1>5 DEF MissingModel, ExpectedError
  <2>. QED
    BY <1>0, <2>1, <2>2 DEF OutcomeInv, ConstructionOutcome
<1>6. CASE Download
  <2>1. FetchAttempted
    BY <1>1, <1>6 DEF Download, FetchAttempted
  <2>2. CASE pc' = "failed"
    <3>1. error' \in {"FetchError", "IndexError"}
      BY <1>6, <2>2 DEF Download, Fail
    <3>. QED
      BY <1>0, <2>1, <2>2, <3>1 DEF OutcomeInv, ConstructionOutcome
  <2>3. CASE pc' # "failed"
    <3>1. pc' = "scan" /\ UNCHANGED <<model_dict, cursor>>
      BY <1>6, <2>3 DEF Download, Fail
    <3>. QED
      <4>1. ScanState'
        BY <1>0, <1>1, <1>6, <3>1, StartScan DEF Download
      <4>. QED
        BY <1>0, <3>1, <4>1 DEF OutcomeInv, ConstructionOutcome
  <2>. QED
    BY <2>2, <2>3
<1>. QED
  BY <1>3, <1>4, <1>5, <1>6

(***************************************************************************)
(* One iteration of the loop at lines 118-120 keeps OutcomeInv: an        *)
(* unsupported component leaves model_dict alone, a readable supported    *)
(* one becomes the last one met, an unreadable one raises the IOError the *)
(* arguments determine; leaving the loop finds it complete.               *)
(***************************************************************************)
LEMMA ScanOutcomeInv ==
    ASSUME OutcomeInv, ReadComponent \/ EndScan
    PROVE  OutcomeInv'
<1>. DEFINE S == SupportedIdx(archive)
<1>0. /\ TypeInv'
      /\ args' = args /\ archive' = archive
      /\ ExpectedError' = ExpectedError
  BY NextTypeInv, ArgsStable DEF OutcomeInv, FMNext
<1>1. /\ pc = "scan" /\ ScanState
      /\ cursor \in 1..Len(archive) + 1
  BY DEF OutcomeInv, TypeInv, ReadComponent, EndScan
<1>2. CASE EndScan
  <2>1. cursor = Len(archive) + 1
    BY <1>1, <1>2 DEF EndScan
  <2>. QED
    BY <1>0, <1>2, <1>1, <2>1 DEF EndScan, OutcomeInv, ConstructionOutcome,
                                   ScanState, SupportedIdx
<1>3. ASSUME ReadComponent PROVE OutcomeInv'
  <2>1. /\ cursor \in 1..Len(archive) /\ cursor' = cursor + 1
        /\ UNCHANGED <<model_path, model_version, ids_known>>
    BY <1>1, <1>3 DEF ReadComponent
  <2>2. \A k \in S : k \in Nat /\ (k < cursor + 1 <=> k < cursor \/ k = cursor)
    BY <2>1 DEF SupportedIdx
  <2>3. CASE archive[cursor].type \notin SUPPORTED_MODELS
    <3>1. pc' = "scan" /\ model_dict' = model_dict /\ cursor \notin S
      BY <1>3, <2>3 DEF ReadComponent, SupportedIdx
    <3>2. \A k \in S : k < cursor' => archive[k].readable
      BY <1>1, <2>1, <2>2, <3>1 DEF ScanState
    <3>3. \/ /\ model_dict' = args.dict
             /\ \A k \in S : cursor' <= k
          \/ \E k \in S : /\ k < cursor'
                          /\ model_dict' = ReadRecord(archive, k)
                          /\ \A j \in S : j < cursor' => j <= k
      BY <1>1, <2>1, <2>2, <3>1 DEF ScanState
    <3>4. ScanState'
      BY <1>0, <1>1, <3>2, <3>3 DEF ScanState
    <3>. QED
      BY <1>0, <3>1, <3>4 DEF OutcomeInv, ConstructionOutcome
  <2>4. CASE archive[cursor].type \in SUPPORTED_MODELS
             /\ archive[cursor].readable
    <3>1. /\ pc' = "scan" /\ model_dict' = ReadRecord(archive, cursor)
          /\ cursor \in S
      BY <1>3, <2>1, <2>4 DEF ReadComponent, SupportedIdx
    <3>2. \A k \in S : k < cursor' => archive[k].readable
      BY <1>1, <2>1, <2>2, <2>4, <3>1 DEF ScanState
    <3>3. \A j \in S : j < cursor' => j <= cursor
      BY <2>1, <2>2
    <3>4. ScanState'
      BY <1>0, <1>1, <2>1, <3>1, <3>2, <3>3 DEF ScanState
    <3>. QED
      BY <1>0, <3>1, <3>4 DEF OutcomeInv, ConstructionOutcome
  <2>5. CASE archive[cursor].type \in SUPPORTED_MODELS
             /\ ~archive[cursor].readable
    <3>1. pc' = "failed" /\ error' = "IOError"
      BY <1>3, <2>5 DEF ReadComponent, Fail
    <3>2. \E k \in S : ~archive[k].readable
      BY <2>1, <2>5 DEF SupportedIdx
    <3>3. ExpectedError = "IOError"
      BY <1>1, <3>2 DEF ScanState, ExpectedError
    <3>. QED
      BY <1>0, <3>1, <3>3 DEF OutcomeInv, ConstructionOutcome
  <2>. QED
    BY <2>3, <2>4, <2>5
<1>. QED
  BY <1>2, <1>3

(***************************************************************************)
(* The check at lines 122-133 keeps OutcomeInv: on the caller's truthy     *)
(* dict it accepts or rejects that dict; after a complete scan it finds    *)
(* None or {} when no supported component exists (RuntimeError, KeyError) *)
(* and otherwise the record of the last one, which it accepts.             *)
(***************************************************************************)
LEMMA InferOutcomeInv ==
    ASSUME OutcomeInv, Infer
    PROVE  OutcomeInv'
<1>. DEFINE S == SupportedIdx(archive)
<1>0. /\ TypeInv'
      /\ args' = args /\ archive' = archive
      /\ ExpectedError' = ExpectedError
      /\ ExpectedDict' = ExpectedDict
      /\ UNCHANGED model_dict
  BY NextTypeInv, ArgsStable DEF OutcomeInv, FMNext, Infer
<1>1. pc = "infer"
  BY DEF Infer
\* Whatever the outcome, the new state is ready or failed: only
\* ConstructionOutcome is left to show.
<1>2. SUFFICES ConstructionOutcome'
  BY <1>0, <1>2 DEF Infer, Fail, OutcomeInv
<1>3. args.dict \in DictArgs
  BY DEF OutcomeInv, TypeInv, FMTypeOK
<1>4. CASE ~Falsy(args.dict) /\ model_dict = args.dict
  <2>1. model_dict \in Record
    BY <1>3, <1>4, ConstantsAssumption DEF Falsy, DictArgs, Record
  <2>2. ExpectedDict = model_dict
    BY <1>4 DEF ExpectedDict
  <2>3. CASE model_dict.type \in SUPPORTED_MODELS
    <3>1. pc' = "ready" /\ target_framework' = FrameworkOf(model_dict)
      BY <2>1, <2>3, ConstantsAssumption DEF Infer, Fail
    <3>2. ExpectedError = NoError
      BY <1>4, <2>3 DEF ExpectedError
    <3>. QED
      BY <1>0, <2>2, <3>1, <3>2 DEF ConstructionOutcome
  <2>4. CASE model_dict.type \notin SUPPORTED_MODELS
    <3>1. pc' = "failed" /\ error' = "RuntimeError"
      BY <2>1, <2>4, ConstantsAssumption DEF Infer, Fail
    <3>2. ExpectedError = "RuntimeError"
      BY <1>4, <2>4 DEF ExpectedError
    <3>. QED
      BY <1>0, <3>1, <3>2 DEF ConstructionOutcome
  <2>. QED
    BY <2>3, <2>4
<1>5. CASE ScanState /\ cursor = Len(archive) + 1
  <2>1. /\ Falsy(args.dict)
        /\ args.path \/ args.version
        /\ \A k \in S : archive[k].readable
    BY <1>5 DEF ScanState, SupportedIdx
  <2>2. ~(~args.path /\ ~args.version)
        /\ ~\E k \in S : ~archive[k].readable
    BY <2>1
  <2>3. CASE model_dict = args.dict /\ \A k \in S : cursor <= k
    <3>1. S = {}
      BY <1>5, <2>3 DEF SupportedIdx
    <3>2. CASE args.dict = NoDict
      <4>1. pc' = "failed" /\ error' = "RuntimeError"
        BY <2>3, <3>2, ConstantsAssumption DEF Infer, Fail
      <4>2. ExpectedError = "RuntimeError"
        BY <2>1, <2>2, <3>1, <3>2, ConstantsAssumption DEF ExpectedError
      <4>. QED
        BY <1>0, <4>1, <4>2 DEF ConstructionOutcome
    <3>5. CASE args.dict = EmptyDict
      <4>1. pc' = "failed" /\ error' = "KeyError"
        BY <2>3, <3>5, ConstantsAssumption DEF Infer, Fail
      <4>2. ExpectedError = "KeyError"
        BY <2>1, <2>2, <3>1, <3>5 DEF ExpectedError
      <4>. QED
        BY <1>0, <4>1, <4>2 DEF ConstructionOutcome
    <3>. QED
      BY <2>1, <3>2, <3>5 DEF Falsy
  <2>4. CASE \E k \in S : /\ k < cursor
                          /\ model_dict = ReadRecord(archive, k)
                          /\ \A j \in S : j < cursor => j <= k
    <3>1. PICK k \in S : /\ model_dict = ReadRecord(archive, k)
                         /\ \A j \in S : j <= k
      BY <1>5, <2>4 DEF SupportedIdx
    <3>2. /\ model_dict \in Record
          /\ model_dict.type \in SUPPORTED_MODELS
      BY <1>5, <3>1, ReadRecordType DEF OutcomeInv, TypeInv, FMTypeOK,
                                        SupportedIdx, ReadRecord
    <3>3. pc' = "ready" /\ target_framework' = FrameworkOf(model_dict)
      BY <3>2, ConstantsAssumption DEF Infer, Fail
    <3>4. ExpectedError = NoError
      BY <2>1, <2>2, <3>1 DEF ExpectedError
    <3>5. ExpectedDict = model_dict
      BY <2>1, <3>1, LastSupportedIs DEF ExpectedDict
    <3>. QED
      BY <1>0, <3>3, <3>4, <3>5 DEF ConstructionOutcome
  <2>. QED
    BY <1>5, <2>3, <2>4 DEF ScanState
<1>. QED
  BY <1>1, <1>4, <1>5 DEF OutcomeInv

\* Every step of _do_init keeps OutcomeInv.
LEMMA NextOutcomeInv == OutcomeInv /\ [FMNext]_fm_vars => OutcomeInv'
<1> SUFFICES ASSUME OutcomeInv, [FMNext]_fm_vars PROVE OutcomeInv'
  OBVIOUS
<1>1. CASE UseDict \/ UsePath \/ MissingModel \/ Download
  BY <1>1, LocateOutcomeInv
<1>2. CASE ReadComponent \/ EndScan
  BY <1>2, ScanOutcomeInv
<1>3. CASE Infer
  BY <1>3, InferOutcomeInv
<1>4. CASE UNCHANGED fm_vars
  <2>1. /\ ExpectedError' = ExpectedError /\ ExpectedDict' = ExpectedDict
        /\ FetchAttempted' = FetchAttempted
    BY <1>4, ArgsStable
  <2>2. TypeInv'
    BY <1>4, NextTypeInv DEF OutcomeInv
  <2>. QED
    BY <1>4, <2>1, <2>2 DEF OutcomeInv, ScanState, ConstructionOutcome,
                            fm_vars, SupportedIdx
<1>. QED
  BY <1>1, <1>2, <1>3, <1>4 DEF FMNext

(***************************************************************************)
(* For every archive of any length and any constructor arguments:          *)
(* FATEModel's _do_init (fate_model.py 108-133), with the download of      *)
(* fate_client.py, either finishes ready with the dict the arguments and   *)
(* the archive determine (the caller's truthy dict, or the LAST supported  *)
(* component of the manifest) and the framework that dict calls for, or   *)
(* raises the error they determine, or a remote error of the fetch.        *)
(***************************************************************************)
THEOREM ConstructionCorrect == FMSpec => []ConstructionOutcome
<1>1. FMInit => OutcomeInv
  BY InitOutcomeInv
<1>2. OutcomeInv /\ [FMNext]_fm_vars => OutcomeInv'
  BY NextOutcomeInv
<1>3. OutcomeInv => ConstructionOutcome
  BY DEF OutcomeInv
<1>. QED
  BY <1>1, <1>2, <1>3, PTL DEF FMSpec

=============================================================================
