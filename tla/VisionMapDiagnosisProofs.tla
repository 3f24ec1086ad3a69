---------------------- MODULE VisionMapDiagnosisProofs ----------------------
(***************************************************************************)
(* Proofs about VisionMapDiagnosis, for any folder, any number of runs and *)
(* any geometry of boxes and images.                                       *)
(***************************************************************************)
EXTENDS VisionMapDiagnosis, TLAPS

-----------------------------------------------------------------------------
(* Crops                                                                   *)

LEMMA MulCancel ==
  ASSUME NEW a \in Int, NEW b \in Int, NEW u \in Nat \ {0}, a * u < b * u
  PROVE  a < b
BY SMT

\* int() rounds towards zero.
LEMMA TruncBounds ==
  ASSUME NEW a \in Int
  PROVE  /\ Trunc(a) \in Int
         /\ a >= 0 => Trunc(a) * Unit <= a /\ a < (Trunc(a) + 1) * Unit
         /\ a < 0 => Trunc(a) <= 0
BY DiagnosisAssumption, SMT DEF Trunc

\* crop_pil cuts a part of the image that is not empty, and all of it that lies
\* in the box.
LEMMA CropOfBox ==
  ASSUME NEW x \in Int, NEW w \in Nat, NEW size \in Nat \ {0}
  PROVE  /\ Left(x, size) \in Int /\ Right(x, w, size) \in Int
         /\ 0 <= Left(x, size) /\ Left(x, size) < Right(x, w, size)
         /\ Right(x, w, size) <= size
         /\ \A p \in 0..(size - 1) : x <= p * Unit /\ (p + 1) * Unit <= x + w
              => Left(x, size) <= p /\ p < Right(x, w, size)
<1>1. Trunc(x) \in Int /\ Trunc(x + w) \in Int
  BY TruncBounds
<1>2. ASSUME NEW p \in 0..(size - 1), x <= p * Unit PROVE Left(x, size) <= p
  <2>1. CASE x < 0
    BY <1>1, <2>1, TruncBounds DEF Left, Most, Least
  <2>2. CASE x >= 0
    <3>0. p * Unit < (p + 1) * Unit
      BY DiagnosisAssumption, SMT
    <3>1. Trunc(x) * Unit < (p + 1) * Unit
      <4> DEFINE t == Trunc(x) * Unit
                 q == p * Unit
                 r == (p + 1) * Unit
      <4>1. t \in Int /\ q \in Int /\ r \in Int
        BY <1>1, DiagnosisAssumption
      <4>2. t <= x /\ x <= q /\ q < r
        BY <1>2, <2>2, <3>0, TruncBounds
      <4> HIDE DEF t, q, r
      <4>3. t < r
        BY <4>1, <4>2
      <4> QED BY <4>3 DEF t, r
    <3>2. Trunc(x) < p + 1
      BY <1>1, <3>1, MulCancel, DiagnosisAssumption
    <3> QED BY <1>1, <3>2 DEF Left, Most, Least
  <2> QED BY <2>1, <2>2
<1>3. ASSUME NEW p \in 0..(size - 1), x <= p * Unit, (p + 1) * Unit <= x + w
      PROVE  p < Right(x, w, size)
  <2>1. x + w >= 0
    BY <1>3, DiagnosisAssumption, SMT
  <2>2. (p + 1) * Unit < (Trunc(x + w) + 1) * Unit
    BY <1>1, <1>3, <2>1, TruncBounds, DiagnosisAssumption
  <2>3. p + 1 < Trunc(x + w) + 1
    BY <1>1, <2>2, MulCancel, DiagnosisAssumption
  <2> QED BY <1>1, <2>3 DEF Right, Left, Most, Least
<1>4. /\ Left(x, size) \in Int /\ Right(x, w, size) \in Int
      /\ 0 <= Left(x, size) /\ Left(x, size) < Right(x, w, size)
      /\ Right(x, w, size) <= size
  BY <1>1 DEF Right, Left, Most, Least
<1> QED BY <1>2, <1>3, <1>4

\* Whatever the box and the image, the crop covers what the box shows of it.
THEOREM CropsCover == Spec => []CropCovers
<1>1. Init => CropCovers
  BY DiagnosisAssumption DEF Init, NoCrop, CropCovers
<1>2. CropCovers /\ [Next]_vars => CropCovers'
  <2> SUFFICES ASSUME CropCovers, [Next]_vars PROVE CropCovers'
    OBVIOUS
  <2>1. ASSUME crop' = NoCrop PROVE CropCovers'
    BY <2>1, DiagnosisAssumption DEF NoCrop, CropCovers
  <2>2. ASSUME crop' = crop PROVE CropCovers'
    BY <2>2 DEF CropCovers
  <2>3. CASE ExportCrop
    <3>1. PICK x \in Offsets, w \in Widths, size \in Sizes :
            crop' = [x |-> x, w |-> w, size |-> size,
                     left |-> Left(x, size), right |-> Right(x, w, size)]
      BY <2>3 DEF ExportCrop
    <3>2. x \in Int /\ w \in Nat /\ size \in Nat \ {0}
      BY DiagnosisAssumption
    <3> QED BY <3>1, <3>2, CropOfBox DEF CropCovers
  <2>4. CASE ~ExportCrop
    <3>1. crop' = crop \/ crop' = NoCrop
      BY <2>4 DEF Next, vars, locals, files, Start, NextImage, AppendReport, OpenSummary, WriteSummary,
                  LoadFile, DetectBoxes, ReadImage, Exported, MapBoxes, ResolvePool,
                  LegacyDiffs, PoolSingleDiffs, Compare, Stability, AskFullImage,
                  OpenReport, WriteReport, Raise, Exit, Interrupt, Gone, Fresh
    <3> QED BY <3>1, <2>1, <2>2
  <2> QED BY <2>3, <2>4
<1> QED BY <1>1, <1>2, PTL DEF Spec

-----------------------------------------------------------------------------
(* Reports, details and summary                                            *)

\* What the variables hold that the files depend on.
Typed ==
  /\ stem \in [Images -> Stems]
  /\ pos \in Nat \ {0} /\ turn \in Nat
  /\ error \in BOOLEAN
  /\ reports \in Seq(Entry) /\ summary \in File(Seq(Entry)) \cup {Nil}
  /\ details \in [Stems \cup {Root} -> File(Entry) \cup {Nil}]
  /\ pc # "idle" => turn \in 1..MaxTurns
  /\ pc \notin {"idle", "image", "summary"} => pos \in Images
  /\ pc # "append" => ~error
  /\ \A d \in Stems : details[d] # Nil => details[d].holds.turn <= turn

\* The list of reports has an entry for each image before the current one.
Ordered ==
  /\ \A i \in 1..Len(reports) : reports[i].image = i /\ reports[i].turn = turn
  /\ pc # "idle" /\ mode = "batch" => Len(reports) = pos - 1 /\ pos <= NImages + 1
  /\ pc # "idle" /\ mode # "batch" => pos \in Images
  /\ pc = "summary" => Len(reports) = NImages

\* The report.json of stem s was torn by a later image than those that are done.
Broken(s) ==
  LET d == details[s]
      i == d.holds.image IN
  /\ d # Nil /\ ~d.whole /\ d.holds.turn = turn
  /\ stem[i] = s /\ i \in 1..(Len(reports) + 1) /\ \A k \in Done(s) : k < i
  /\ \/ i <= Len(reports) /\ reports[i].error
     \/ i = Len(reports) + 1 /\ (pc = "idle" \/ (pc = "append" /\ error /\ mode = "batch"))

\* The details of the images with stem s, when no report of theirs is being
\* written or about to be listed.
Kept(s) ==
  \/ Broken(s)
  \/ Done(s) # {} /\ Last(Done(s)) \in Done(s) /\ details[s] = Whole(reports[Last(Done(s))])
  \/ Done(s) = {} /\ (details[s] = Nil \/ details[s].holds.turn < turn)

\* A report is being written.
Writing(s) == pc = "writing" /\ mode = "batch" /\ stem[pos] = s

\* A report without error is about to be listed.
Pending(s) == pc = "append" /\ mode = "batch" /\ ~error /\ stem[pos] = s

DetailsInv ==
  \A s \in Stems :
    /\ Writing(s) => details[s] = Torn(Report)
    /\ Pending(s) => details[s] = Whole(Report)
    /\ ~Writing(s) /\ ~Pending(s) => Kept(s)

IInv == Typed /\ Ordered /\ SummaryCovers /\ DetailsInv

LEMMA InitInv == Init => IInv
<1> SUFFICES ASSUME Init PROVE IInv
  OBVIOUS
<1> USE DiagnosisAssumption
<1>1. Typed
  <2>1. <<>> \in Seq(Entry)
    OBVIOUS
  <2>2. stem \in [Images -> Stems] /\ pos \in Nat \ {0} /\ turn \in Nat /\ pc = "idle"
    BY DEF Init
  <2>3. error \in BOOLEAN
    BY DEF Init
  <2>4. reports \in Seq(Entry) /\ summary \in File(Seq(Entry)) \cup {Nil}
    BY <2>1 DEF Init
  <2>5. details \in [Stems \cup {Root} -> File(Entry) \cup {Nil}]
        /\ \A d \in Stems : details[d] = Nil
    BY DEF Init
  <2>6. error = FALSE
    BY DEF Init
  <2> QED BY <2>2, <2>3, <2>4, <2>5, <2>6 DEF Typed
<1>2. Ordered
  BY DEF Init, Ordered
<1>3. SummaryCovers
  BY DEF Init, SummaryCovers
<1>4. DetailsInv
  BY DEF Init, DetailsInv, Writing, Pending, Kept, Done
<1> QED BY <1>1, <1>2, <1>3, <1>4 DEF IInv

LEMMA ReportTyped == Typed /\ pc \notin {"idle", "image", "summary"} => Report \in Entry
BY DEF Typed, Report, Entry

LEMMA TypedStep == IInv /\ [Next]_vars => Typed'
<1> SUFFICES ASSUME Typed, Ordered, [Next]_vars PROVE Typed'
  BY DEF IInv
<1> USE DiagnosisAssumption DEF Typed
<1>0. ASSUME Fresh PROVE error' \in BOOLEAN /\ ~error'
  <2>1. error' = FALSE
    BY <1>0 DEF Fresh
  <2> QED BY <2>1
<1>1. CASE Start
  <2>1. <<>> \in Seq(Entry)
    OBVIOUS
  <2>2. error' = error /\ pc # "append" /\ turn' = turn + 1 /\ pc' = "image" /\ pc = "idle"
        /\ reports' = <<>> /\ UNCHANGED <<stem, files>> /\ turn < MaxTurns /\ pos' \in Nat \ {0}
    BY <1>1 DEF Start, Go, locals, Images
  <2> QED BY <2>1, <2>2 DEF files, File, Entry
<1>2. CASE NextImage
  BY <1>2 DEF NextImage, Go, locals, files, Images
<1>3. CASE AppendReport
  <2>1. Report \in Entry
    BY <1>3, ReportTyped DEF AppendReport
  <2>2. Append(reports, Report) \in Seq(Entry)
    BY <2>1
  <2>3. Fresh /\ UNCHANGED <<stem, files, turn>> /\ pc' \in {"idle", "image"}
        /\ pos' \in Nat \ {0} /\ reports' \in Seq(Entry)
        /\ pc = "append"
    <3>1. CASE mode = "batch"
      <4>1. Fresh /\ pc = "append" /\ pc' = "image" /\ UNCHANGED <<stem, files, turn>>
            /\ pos' = pos + 1 /\ reports' = Append(reports, Report)
        BY <1>3, <3>1 DEF AppendReport
      <4> QED BY <4>1, <2>2
    <3>2. CASE mode # "batch"
      BY <1>3, <3>2 DEF AppendReport, Gone
    <3> QED BY <3>1, <3>2
  <2> QED BY <1>0, <2>3 DEF files
<1>4. CASE OpenSummary
  <2>1. UNCHANGED <<stem, pos, error, reports, details, turn>> /\ pc = "image" /\ pc' = "summary"
        /\ summary' = Torn(reports)
    BY <1>4 DEF OpenSummary, Go, locals
  <2> QED BY <2>1 DEF Torn, File
<1>13. CASE WriteSummary
  <2>1. Fresh /\ UNCHANGED <<stem, reports, details, turn>> /\ pc' = "idle" /\ pos' \in Nat \ {0}
        /\ summary' = Whole(reports)
    BY <1>13 DEF WriteSummary, Gone
  <2> QED BY <1>0, <2>1 DEF Whole, File
<1>5. CASE LoadFile \/ DetectBoxes
  BY <1>5 DEF LoadFile, DetectBoxes, Go, files
<1>6. CASE ReadImage \/ ExportCrop \/ Exported
  BY <1>6 DEF ReadImage, ExportCrop, Exported, Go, locals, files
<1>7. CASE MapBoxes \/ ResolvePool
  BY <1>7 DEF MapBoxes, ResolvePool, Go, locals, files
<1>8. CASE LegacyDiffs \/ PoolSingleDiffs \/ Stability \/ AskFullImage
  BY <1>8 DEF LegacyDiffs, PoolSingleDiffs, Compare, Stability, AskFullImage, Go, locals, files
<1>9. CASE OpenReport \/ WriteReport
  <2>1. Report \in Entry /\ Report.turn = turn
    BY <1>9, ReportTyped DEF OpenReport, WriteReport, Go, Report
  <2>2. Dir \in Stems \cup {Root}
    BY <1>9 DEF OpenReport, WriteReport, Go, Dir
  <2>3. PICK x : /\ x \in File(Entry) /\ x.holds.turn = turn
                 /\ details' = [details EXCEPT ![Dir] = x]
    <3>1. Torn(Report) \in File(Entry) /\ Torn(Report).holds = Report
      BY <2>1 DEF Torn, File
    <3>2. Whole(Report) \in File(Entry) /\ Whole(Report).holds = Report
      BY <2>1 DEF Whole, File
    <3> QED BY <1>9, <2>1, <3>1, <3>2 DEF OpenReport, WriteReport
  <2>4. /\ UNCHANGED <<stem, pos, error, reports, summary, turn>>
        /\ pc \in {"write", "writing"} /\ pc' \in {"writing", "append"}
    BY <1>9 DEF OpenReport, WriteReport, Go, locals
  <2> QED BY <2>2, <2>3, <2>4
<1>10. CASE Raise
  BY <1>10 DEF Raise, Diagnosing, files
<1>11. CASE Exit \/ Interrupt
  <2>1. Fresh /\ UNCHANGED <<stem, reports, files, turn>> /\ pc' = "idle" /\ pos' \in Nat \ {0}
    BY <1>11 DEF Exit, Interrupt, Gone
  <2> QED BY <1>0, <2>1 DEF files
<1>12. CASE UNCHANGED vars
  BY <1>12 DEF vars, locals, files
<1> QED
  BY <1>1, <1>2, <1>3, <1>4, <1>5, <1>6, <1>7, <1>8, <1>9, <1>10, <1>11, <1>12, <1>13 DEF Next

\* The steps of one image and the end of the process leave the list alone.
Quiet ==
  /\ UNCHANGED <<stem, reports, summary, turn>>
  /\ pc' # "summary" \/ pc = "summary"
  /\ \/ pc # "idle" /\ UNCHANGED <<mode, pos>>
     \/ pc' = "idle"
     \/ UNCHANGED <<mode, pos, pc>>

LEMMA QuietStep ==
  ASSUME [Next]_vars, ~Start, ~AppendReport, ~OpenSummary, ~WriteSummary PROVE Quiet
BY DEF Next, vars, locals, files, NextImage, LoadFile, DetectBoxes, ReadImage, ExportCrop,
       Exported, MapBoxes, ResolvePool, LegacyDiffs, PoolSingleDiffs, Compare, Stability,
       AskFullImage, OpenReport, WriteReport, Raise, Diagnosing, Exit, Interrupt, Gone, Fresh, Go, Quiet

LEMMA OrderedStep == IInv /\ [Next]_vars => Ordered' /\ SummaryCovers'
<1> SUFFICES ASSUME Typed, Ordered, SummaryCovers, [Next]_vars
             PROVE  Ordered' /\ SummaryCovers'
  BY DEF IInv
<1> USE DiagnosisAssumption
<1>1. CASE Start
  BY <1>1 DEF Start, Go, locals, files, Images, Ordered, SummaryCovers
<1>2. CASE AppendReport
  <2>1. CASE mode = "batch"
    <3>1. reports' = Append(reports, Report) /\ pos' = pos + 1 /\ turn' = turn
          /\ summary' = summary /\ mode' = mode /\ pc' = "image"
      BY <1>2, <2>1 DEF AppendReport, files
    <3>2. Report.image = pos /\ Report.turn = turn
      BY DEF Report
    <3>3. Len(reports) = pos - 1 /\ pos \in Images /\ reports \in Seq(Entry)
      BY <1>2, <2>1 DEF AppendReport, Ordered, Typed
    <3>4. \A i \in 1..Len(reports') : reports'[i].image = i /\ reports'[i].turn = turn
      <4> SUFFICES ASSUME NEW i \in 1..Len(reports')
                   PROVE  reports'[i].image = i /\ reports'[i].turn = turn
        OBVIOUS
      <4>1. CASE i = pos
        BY <4>1, <3>1, <3>2, <3>3 DEF Images
      <4>2. CASE i # pos
        BY <4>2, <3>1, <3>3 DEF Ordered, Images
      <4> QED BY <4>1, <4>2
    <3>5. Len(reports') = pos' - 1 /\ pos' <= NImages + 1
      BY <3>1, <3>3 DEF Images
    <3> QED BY <3>1, <3>4, <3>5, <2>1 DEF Ordered, SummaryCovers
  <2>2. CASE mode # "batch"
    BY <1>2, <2>2 DEF AppendReport, Gone, files, Ordered, SummaryCovers
  <2> QED BY <2>1, <2>2
<1>3. CASE OpenSummary
  <2>1. mode = "batch" /\ Len(reports) = NImages
    BY <1>3 DEF OpenSummary, Go, Ordered, Typed, Images
  <2>2. UNCHANGED <<mode, pos, reports, turn>> /\ pc = "image" /\ pc' = "summary"
        /\ summary'.whole = FALSE
    BY <1>3 DEF OpenSummary, Go, locals, Torn
  <2> QED BY <2>1, <2>2 DEF Ordered, SummaryCovers
<1>4. CASE WriteSummary
  <2>1. Len(reports) = NImages /\ summary'.holds = reports /\ reports' = reports
        /\ turn' = turn /\ pc' = "idle"
    BY <1>4 DEF WriteSummary, Gone, Ordered, Whole
  <2>2. Ordered'
    BY <2>1 DEF Ordered
  <2>3. \A i \in Images : reports[i].image = i /\ reports[i].turn = reports[1].turn
    BY <2>1 DEF Ordered, Images
  <2> QED BY <2>1, <2>2, <2>3 DEF SummaryCovers
<1>5. CASE ~Start /\ ~AppendReport /\ ~OpenSummary /\ ~WriteSummary
  <2>1. Quiet
    BY <1>5, QuietStep
  <2> QED BY <2>1 DEF Quiet, Ordered, SummaryCovers
<1> QED BY <1>1, <1>2, <1>3, <1>4, <1>5

LEMMA KeptSame ==
  ASSUME NEW s, Kept(s), UNCHANGED <<stem, reports, turn>>, details'[s] = details[s],
         pc = "idle" => pc' = "idle",
         pc = "append" => pc' = "idle" \/ UNCHANGED <<pc, error, mode>>
  PROVE  Kept(s)'
<1>1. Done(s)' = Done(s) /\ Last(Done(s)') = Last(Done(s))
  BY DEF Done, Last
<1>2. Broken(s) => Broken(s)'
  BY <1>1 DEF Broken
<1> QED BY <1>1, <1>2 DEF Kept

\* A list that gets one more report: which reports of s are without error.
LEMMA DoneAppend ==
  ASSUME Typed, NEW s, NEW r \in Entry, reports' = Append(reports, r), UNCHANGED stem
  PROVE  LET n == Len(reports) + 1 IN
         /\ \A i \in 1..Len(reports) : reports'[i] = reports[i]
         /\ Done(s)' = IF ~r.error /\ stem[r.image] = s THEN Done(s) \cup {n} ELSE Done(s)
         /\ reports'[n] = r /\ \A i \in Done(s) : i < n
BY DEF Typed, Done

LEMMA DetailsStep == IInv /\ [Next]_vars => DetailsInv'
<1> SUFFICES ASSUME Typed, Ordered, DetailsInv, [Next]_vars, NEW s \in Stems
             PROVE  /\ Writing(s)' => details'[s] = Torn(Report)'
                    /\ Pending(s)' => details'[s] = Whole(Report)'
                    /\ ~Writing(s)' /\ ~Pending(s)' => Kept(s)'
  BY DEF IInv, DetailsInv
<1> USE DiagnosisAssumption
<1>0. /\ Writing(s) => details[s] = Torn(Report)
      /\ Pending(s) => details[s] = Whole(Report)
      /\ ~Writing(s) /\ ~Pending(s) => Kept(s)
  BY DEF DetailsInv
<1>1. CASE Start
  <2>1. Done(s)' = {} /\ details' = details /\ turn' = turn + 1 /\ pc' = "image"
    BY <1>1 DEF Start, Go, files, Done
  <2>2. details[s] = Nil \/ details[s].holds.turn < turn'
    BY <2>1 DEF Typed, File, Entry
  <2> QED BY <2>1, <2>2 DEF Writing, Pending, Kept
<1>2. CASE AppendReport /\ mode = "batch"
  <2>1. /\ reports' = Append(reports, Report) /\ pc = "append" /\ pc' = "image"
        /\ UNCHANGED <<stem, details, turn>> /\ Report \in Entry
    BY <1>2, ReportTyped DEF AppendReport, files
  <2>2. Report.error = error /\ Report.image = pos
    BY DEF Report
  <2> DEFINE n == Len(reports) + 1
  <2>3. /\ \A i \in 1..Len(reports) : reports'[i] = reports[i]
        /\ Done(s)' = IF ~error /\ stem[pos] = s THEN Done(s) \cup {n} ELSE Done(s)
        /\ reports'[n] = Report /\ \A i \in Done(s) : i < n
        /\ n \in Nat /\ Len(reports') = n
    BY <2>1, <2>2, DoneAppend DEF Typed
  <2> HIDE DEF n
  <2>4. CASE Pending(s)
    <3>1. Done(s)' = Done(s) \cup {n}
      BY <2>3, <2>4 DEF Pending
    <3>2. Done(s) \subseteq Nat
      BY DEF Done
    <3>3. Last(Done(s)') = n
      BY <2>3, <3>1, <3>2 DEF Last
    <3>4. details[s] = Whole(Report) /\ details' = details
      BY <1>0, <2>1, <2>4
    <3> QED BY <3>1, <3>3, <3>4, <2>1, <2>3 DEF Kept, Writing, Pending, Whole, Last
  <2>5. CASE ~Pending(s)
    <3>1. Done(s)' = Done(s) /\ \A i \in Done(s) : reports'[i] = reports[i]
      BY <2>1, <2>3, <2>5, <1>2 DEF Pending, Done, Typed
    <3>2. Kept(s)
      BY <1>0, <2>1, <2>5 DEF Writing
    <3>3. ASSUME Broken(s) PROVE Kept(s)'
      <4> DEFINE i == details[s].holds.image
      <4>1. /\ details[s] # Nil /\ ~details[s].whole /\ details[s].holds.turn = turn
            /\ stem[i] = s /\ i \in 1..n /\ \A k \in Done(s) : k < i
            /\ \/ i <= Len(reports) /\ reports[i].error
               \/ i = n /\ error
        BY <2>1, <3>3 DEF Broken, n
      <4>2. i <= Len(reports') /\ reports'[i].error
        <5>1. CASE i = n /\ error
          <6>1. i <= Len(reports')
            BY <2>3, <5>1
          <6>2. reports'[i] = Report
            BY <2>3, <5>1
          <6> QED BY <2>2, <5>1, <6>1, <6>2, Zenon
        <5>2. CASE i <= Len(reports) /\ reports[i].error
          BY <2>3, <4>1, <5>2 DEF n
        <5> QED BY <4>1, <5>1, <5>2
      <4>3. i \in 1..(Len(reports') + 1)
        BY <2>3, <4>1
      <4>4. details'[s] = details[s] /\ turn' = turn /\ stem' = stem
        BY <2>1
      <4>5. Broken(s)'
        <5> HIDE DEF i
        <5>1. details'[s].holds.image = i
          BY <4>4 DEF i
        <5>2. details'[s] # Nil /\ ~details'[s].whole /\ details'[s].holds.turn = turn'
          BY <4>1, <4>4
        <5>3. stem'[i] = s /\ \A k \in Done(s)' : k < i
          BY <3>1, <4>1, <4>4
        <5> QED BY <4>2, <4>3, <5>1, <5>2, <5>3 DEF Broken
      <4> QED BY <4>5 DEF Kept
    <3>4. ASSUME ~Broken(s) PROVE Kept(s)'
      <4>1. Last(Done(s)') = Last(Done(s))
        BY <3>1 DEF Last
      <4>2. details'[s] = details[s] /\ turn' = turn
        BY <2>1
      <4>3. \/ /\ Done(s) # {} /\ Last(Done(s)) \in Done(s)
               /\ details[s] = Whole(reports[Last(Done(s))])
            \/ Done(s) = {} /\ (details[s] = Nil \/ details[s].holds.turn < turn)
        BY <3>2, <3>4 DEF Kept
      <4>4. CASE Done(s) = {}
        BY <3>1, <4>2, <4>3, <4>4 DEF Kept
      <4>5. CASE Done(s) # {}
        <5>1. reports'[Last(Done(s))] = reports[Last(Done(s))]
          BY <3>1, <4>3, <4>5
        <5>2. details'[s] = Whole(reports[Last(Done(s))])' /\ Last(Done(s)') \in Done(s)'
          BY <3>1, <4>1, <4>2, <4>3, <4>5, <5>1 DEF Whole
        <5> QED BY <3>1, <4>5, <5>2 DEF Kept
      <4> QED BY <4>4, <4>5
    <3>5. ~Writing(s)' /\ ~Pending(s)'
      BY <2>1 DEF Writing, Pending
    <3> QED BY <3>3, <3>4, <3>5
  <2> QED BY <2>4, <2>5
<1>3. CASE OpenReport
  <2>1. /\ pc = "write" /\ pc' = "writing" /\ details' = [details EXCEPT ![Dir] = Torn(Report)]
        /\ UNCHANGED <<stem, mode, pos, issues, error, reports, turn>>
    BY <1>3 DEF OpenReport, Go, locals
  <2>2. Torn(Report)' = Torn(Report)
    BY <2>1 DEF Report, Torn
  <2>3. CASE Writing(s)'
    <3>1. Dir = s /\ ~Pending(s)'
      BY <2>1, <2>3 DEF Writing, Pending, Dir
    <3> QED BY <3>1, <2>1, <2>2, <2>3 DEF Typed
  <2>4. CASE ~Writing(s)'
    <3>1. Dir # s /\ ~Pending(s)'
      BY <2>1, <2>4 DEF Writing, Pending, Dir
    <3>2. details'[s] = details[s]
      BY <3>1, <2>1 DEF Typed
    <3>3. Kept(s)
      BY <1>0, <2>1 DEF Writing, Pending
    <3>4. Kept(s)'
      BY <3>2, <3>3, <2>1, KeptSame
    <3> QED BY <3>1, <3>4, <2>4
  <2> QED BY <2>3, <2>4
<1>4. CASE WriteReport
  <2>1. /\ pc = "writing" /\ pc' = "append" /\ details' = [details EXCEPT ![Dir] = Whole(Report)]
        /\ UNCHANGED <<stem, mode, pos, issues, error, reports, turn>> /\ ~error
    BY <1>4 DEF WriteReport, Go, locals, Typed
  <2>2. Whole(Report)' = Whole(Report)
    BY <2>1 DEF Report, Whole
  <2>3. CASE Pending(s)'
    <3>1. Dir = s /\ ~Writing(s)'
      BY <2>1, <2>3 DEF Writing, Pending, Dir
    <3> QED BY <3>1, <2>1, <2>2, <2>3 DEF Typed
  <2>4. CASE ~Pending(s)'
    <3>1. Dir # s /\ ~Writing(s) /\ ~Writing(s)'
      BY <2>1, <2>4 DEF Writing, Pending, Dir
    <3>2. details'[s] = details[s]
      BY <3>1, <2>1 DEF Typed
    <3>3. Kept(s)
      BY <1>0, <2>1, <3>1 DEF Pending
    <3>4. Kept(s)'
      BY <3>2, <3>3, <2>1, KeptSame
    <3> QED BY <3>1, <3>4, <2>4
  <2> QED BY <2>3, <2>4
<1>5. CASE pc = "writing" /\ (Raise \/ Interrupt)
  <2>1. /\ UNCHANGED <<stem, reports, turn, details>>
        /\ \/ pc' = "append" /\ error' = TRUE /\ mode' = mode
           \/ pc' = "idle"
    BY <1>5 DEF Raise, Interrupt, Gone, files
  <2>2. ~Writing(s)' /\ ~Pending(s)'
    BY <2>1 DEF Writing, Pending
  <2>3. CASE Writing(s)
    <3>1. details[s] = Torn(Report) /\ Report.image = pos /\ Report.turn = turn
      BY <1>0, <2>3 DEF Report
    <3>2. Len(reports) + 1 = pos /\ mode = "batch" /\ stem[pos] = s
      BY <1>5, <2>3 DEF Writing, Ordered, Typed
    <3>3. Report \in Entry
      BY <1>5, ReportTyped
    <3>4. details[s] # Nil /\ details[s].whole = FALSE /\ details[s].holds = Report
      <4>1. details[s].whole = FALSE /\ details[s].holds = Report
        BY <3>1 DEF Torn
      <4>2. Torn(Report) \in File(Entry)
        BY <3>3 DEF Torn, File
      <4> QED BY <3>1, <4>1, <4>2, NoFileAssumption
    <3>5. Done(s)' = Done(s) /\ \A k \in Done(s) : k < pos
      BY <2>1, <3>2 DEF Done
    <3>6. pos \in 1..(Len(reports) + 1)
      BY <3>2 DEF Typed
    <3>7. Broken(s)'
      BY <2>1, <3>1, <3>2, <3>4, <3>5, <3>6 DEF Broken
    <3> QED BY <2>2, <3>7 DEF Kept
  <2>4. CASE ~Writing(s)
    <3>1. Kept(s)
      BY <1>0, <1>5, <2>4 DEF Pending
    <3>2. Kept(s)'
      BY <1>5, <2>1, <3>1, KeptSame
    <3> QED BY <2>2, <3>2
  <2> QED BY <2>3, <2>4
<1>6. CASE /\ ~Start /\ ~(AppendReport /\ mode = "batch") /\ ~OpenReport /\ ~WriteReport
           /\ ~(pc = "writing" /\ (Raise \/ Interrupt))
  <2>1. UNCHANGED <<stem, reports, turn, details>>
    BY <1>6 DEF Next, vars, locals, files, NextImage, AppendReport, OpenSummary, WriteSummary,
                  LoadFile, DetectBoxes, ReadImage, ExportCrop, Exported, MapBoxes, ResolvePool,
                  LegacyDiffs, PoolSingleDiffs, Compare, Stability, AskFullImage,
                  Raise, Exit, Interrupt
  <2>2. UNCHANGED vars \/
          /\ ~Writing(s) /\ ~Pending(s) /\ ~Writing(s)' /\ ~Pending(s)'
          /\ pc # "idle" /\ (pc = "append" => pc' = "idle")
    BY <1>6 DEF Next, Writing, Pending, NextImage, AppendReport, OpenSummary, WriteSummary,
                  LoadFile, DetectBoxes, ReadImage, ExportCrop, Exported, MapBoxes, ResolvePool,
                  LegacyDiffs, PoolSingleDiffs, Stability, AskFullImage,
                  Raise, Diagnosing, Exit, Interrupt, Gone, Go
  <2>3. CASE UNCHANGED vars
    <3>1. UNCHANGED <<stem, mode, pc, pos, issues, error, turn, details, reports>>
      BY <2>3 DEF vars, locals, files
    <3>2. Torn(Report)' = Torn(Report) /\ Whole(Report)' = Whole(Report)
          /\ (Writing(s)' <=> Writing(s)) /\ (Pending(s)' <=> Pending(s))
      BY <3>1 DEF Report, Torn, Whole, Writing, Pending
    <3>3. Kept(s) => Kept(s)'
      BY <3>1, KeptSame
    <3> QED BY <3>1, <3>2, <3>3, <1>0
  <2>4. CASE ~UNCHANGED vars
    <3>1. Kept(s)
      BY <1>0, <2>2, <2>4
    <3>2. Kept(s)'
      BY <2>1, <2>2, <2>4, <3>1, KeptSame
    <3> QED BY <2>2, <2>4, <3>2
  <2> QED BY <2>3, <2>4
<1> QED BY <1>1, <1>2, <1>3, <1>4, <1>5, <1>6

LEMMA Invariant == Spec => []IInv
<1>1. IInv /\ [Next]_vars => IInv'
  BY TypedStep, OrderedStep, DetailsStep DEF IInv
<1> QED BY InitInv, <1>1, PTL DEF Spec

\* A summary that is whole has every image of one batch, whichever of them raised,
\* for any number of images and runs.
THEOREM SummaryComplete == Spec => []SummaryCovers
<1>1. IInv => SummaryCovers
  BY DEF IInv
<1> QED BY Invariant, <1>1, PTL

\* What is done is on disk and whole, wherever the batch ends, unless a later
\* image with the same stem has torn it.
THEOREM DetailsOnDisk == Spec => []DetailsKept
<1>1. IInv => DetailsKept
  <2> SUFFICES ASSUME IInv, NEW s \in Stems,
                      ~(pc \in {"writing", "append"} /\ mode = "batch" /\ stem[pos] = s)
               PROVE  \/ TornLater(s)
                      \/ Done(s) # {} /\ details[s] = Whole(reports[Last(Done(s))])
                      \/ Done(s) = {} /\ (details[s] = Nil \/ details[s].holds.turn < turn)
    BY DEF DetailsKept
  <2>1. Kept(s)
    BY DEF IInv, DetailsInv, Writing, Pending
  <2>2. Broken(s) => TornLater(s)
    <3> SUFFICES ASSUME Broken(s) PROVE TornLater(s)
      OBVIOUS
    <3>1. ~(pc = "append" /\ mode = "batch" /\ details[s].holds.image = Len(reports) + 1)
      <4> SUFFICES ASSUME pc = "append", mode = "batch",
                          details[s].holds.image = Len(reports) + 1
                   PROVE  FALSE
        OBVIOUS
      <4>1. pos = Len(reports) + 1
        BY DEF IInv, Ordered, Typed
      <4> QED BY <4>1 DEF Broken
    <3> QED BY <3>1 DEF Broken, TornLater
  <2> QED BY <2>1, <2>2 DEF Kept
<1> QED BY Invariant, <1>1, PTL

-----------------------------------------------------------------------------
(* What the variables hold of one image                                    *)

\* The rest of what TypeOK says, beside Typed and Ordered.
Shaped ==
  /\ mode \in {"batch", "single"} /\ flags \subseteq Flags
  /\ pc \in {"idle", "image", "boxes", "read", "export", "map", "pool", "legacy",
             "single", "repeat", "full", "print", "write", "writing", "append", "summary"}
  /\ pos \in 1..(NImages + 1)
  /\ boxes \in Seq(Nat) /\ Len(boxes) <= MaxBoxes
  /\ issues \subseteq Issues
  /\ turn \in 0..MaxTurns

\* load_boxes gives every box a number.
LEMMA NumberedBoxes ==
  ASSUME NEW n \in 0..MaxBoxes, NEW file \in [1..n -> {Nil} \cup 0..(MaxBoxes - 1)]
  PROVE  Numbered(file) \in Seq(Nat) /\ Len(Numbered(file)) = n
<1> USE DiagnosisAssumption
<1>1. Len(file) = n
  <2>1. file \in Seq({Nil} \cup 0..(MaxBoxes - 1))
    OBVIOUS
  <2> QED
    BY <2>1
<1>2. Numbered(file) \in [1..n -> Nat]
  BY <1>1 DEF Numbered
<1> HIDE DEF Numbered
<1>3. Numbered(file) \in Seq(Nat)
  BY <1>2
<1> QED
  BY <1>2, <1>3

LEMMA ImageInit == Init => Shaped
<1> SUFFICES ASSUME Init PROVE Shaped
  OBVIOUS
<1> USE DiagnosisAssumption
<1>1. boxes = <<>> /\ issues = {} /\ pos = 1 /\ turn = 0 /\ pc = "idle"
      /\ mode = "batch" /\ flags = {}
  BY DEF Init
<1>2. boxes \in Seq(Nat) /\ Len(boxes) <= MaxBoxes
  <2>1. <<>> \in Seq(Nat) /\ Len(<<>>) = 0
    OBVIOUS
  <2> QED
    BY <1>1, <2>1
<1>3. pos \in 1..(NImages + 1) /\ turn \in 0..MaxTurns
  BY <1>1
<1> QED
  BY <1>1, <1>2, <1>3, Zenon DEF Shaped

LEMMA ShapedStep == IInv /\ Shaped /\ [Next]_vars => Shaped'
<1> SUFFICES ASSUME Typed, Ordered, Shaped, [Next]_vars PROVE Shaped'
  BY DEF IInv
<1> USE DiagnosisAssumption
<1>0. ASSUME Fresh
      PROVE  /\ boxes' \in Seq(Nat) /\ Len(boxes') <= MaxBoxes
             /\ issues' \subseteq Issues
  <2>1. <<>> \in Seq(Nat) /\ Len(<<>>) = 0
    OBVIOUS
  <2> QED
    BY <1>0, <2>1 DEF Fresh
<1>1. CASE Start
  <2>1. /\ turn < MaxTurns /\ turn' = turn + 1 /\ flags' \subseteq Flags /\ pc' = "image"
        /\ mode' \in {"batch", "single"} /\ pos' \in {1} \cup Images
        /\ UNCHANGED locals
    BY <1>1 DEF Start, Go
  <2> QED
    BY <2>1 DEF Shaped, locals, Images
<1>2. CASE NextImage
  BY <1>2 DEF NextImage, Go, Shaped, locals
<1>3. CASE AppendReport
  <2>1. Fresh /\ turn' = turn /\ pc' \in {"idle", "image"} /\ pos' \in 1..(NImages + 1)
        /\ mode' \in {"batch", "single"} /\ flags' \subseteq Flags
    <3>1. CASE mode = "batch"
      <4>1. /\ Fresh /\ turn' = turn /\ pc' = "image" /\ pos' = pos + 1 /\ pc = "append"
            /\ UNCHANGED <<mode, flags>>
        BY <1>3, <3>1 DEF AppendReport
      <4>2. pos \in Images
        BY <4>1 DEF Typed
      <4> QED
        BY <4>1, <4>2 DEF Images, Shaped
    <3>2. CASE mode # "batch"
      BY <1>3, <3>2 DEF AppendReport, Gone
    <3> QED
      BY <3>1, <3>2
  <2> QED
    BY <1>0, <2>1 DEF Shaped
<1>4. CASE WriteSummary \/ Exit \/ Interrupt
  <2>1. Fresh /\ turn' = turn /\ pc' = "idle" /\ pos' = 1 /\ mode' = "batch" /\ flags' = {}
    BY <1>4 DEF WriteSummary, Exit, Interrupt, Gone
  <2> QED
    BY <1>0, <2>1 DEF Shaped
<1>5. CASE LoadFile
  <2>0. PICK n \in 0..MaxBoxes :
          \E file \in [1..n -> {Nil} \cup 0..(MaxBoxes - 1)] : boxes' = Numbered(file)
    BY <1>5 DEF LoadFile
  <2>1. PICK file \in [1..n -> {Nil} \cup 0..(MaxBoxes - 1)] : boxes' = Numbered(file)
    BY <2>0
  <2>2. boxes' \in Seq(Nat) /\ Len(boxes') <= MaxBoxes
    BY <2>1, NumberedBoxes
  <2> QED
    BY <1>5, <2>2 DEF LoadFile, Go, Shaped
<1>6. CASE DetectBoxes
  <2>1. PICK n \in 1..MaxBoxes : boxes' = [i \in 1..n |-> i - 1]
    BY <1>6 DEF DetectBoxes
  <2>2. boxes' \in Seq(Nat) /\ Len(boxes') <= MaxBoxes
    <3>1. boxes' \in [1..n -> Nat]
      BY <2>1
    <3> QED
      BY <2>1, <3>1
  <2> QED
    BY <1>6, <2>2 DEF DetectBoxes, Go, Shaped
<1>7. CASE ReadImage \/ ExportCrop \/ Exported
  BY <1>7 DEF ReadImage, ExportCrop, Exported, Go, locals, Shaped
<1>8. CASE MapBoxes
  <2>1. issues' \subseteq Issues
    BY <1>8 DEF MapBoxes, Issues
  <2>2. UNCHANGED <<mode, flags, pos, boxes, turn>> /\ pc' = "pool"
    BY <1>8 DEF MapBoxes, Go
  <2> QED
    BY <2>1, <2>2 DEF Shaped
<1>9. CASE ResolvePool \/ AskFullImage \/ OpenSummary \/ OpenReport \/ WriteReport
  BY <1>9 DEF ResolvePool, AskFullImage, OpenSummary, OpenReport, WriteReport, Go, locals, Shaped
<1>10. ASSUME NEW issue \in Issues, Compare(issue),
              Go("legacy", "single") \/ Go("single", "repeat")
       PROVE  Shaped'
  <2>1. issues' \subseteq Issues
    BY <1>10 DEF Compare, Shaped
  <2>2. UNCHANGED <<mode, flags, pos, boxes, turn>> /\ pc' \in {"single", "repeat"}
    BY <1>10 DEF Compare, Go
  <2> QED
    BY <2>1, <2>2 DEF Shaped
<1>11. CASE LegacyDiffs \/ PoolSingleDiffs
  BY <1>10, <1>11 DEF LegacyDiffs, PoolSingleDiffs, Issues
<1>12. CASE Stability
  <2>1. issues' \subseteq Issues
    BY <1>12 DEF Stability, Shaped, Issues
  <2>2. UNCHANGED <<mode, flags, pos, boxes, turn>> /\ pc' \in {"write", "full"}
    BY <1>12 DEF Stability, Go
  <2> QED
    BY <2>1, <2>2 DEF Shaped
<1>13. CASE Raise
  BY <1>13 DEF Raise, Shaped
<1>14. CASE UNCHANGED vars
  BY <1>14 DEF vars, locals, Shaped
<1> QED
  BY <1>1, <1>2, <1>3, <1>4, <1>5, <1>6, <1>7, <1>8, <1>9, <1>11, <1>12, <1>13, <1>14 DEF Next

\* Reports, boxes and files keep their types, for any folder and any answers.
THEOREM DiagnosisTyped == Spec => []TypeOK
<1>1. IInv /\ Shaped => TypeOK
  BY DEF IInv, Typed, Shaped, TypeOK
<1> QED
  BY <1>1, ImageInit, ShapedStep, Invariant, PTL DEF Spec
=============================================================================
