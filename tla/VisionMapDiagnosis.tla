------------------------- MODULE VisionMapDiagnosis -------------------------
(***************************************************************************)
(* The diagnosis script src/scripts/diagnose_vision_map.py: for each image *)
(* of a folder it finds boxes (a file, or YOLO), asks a model for a label  *)
(* of each box in several ways, compares the answers, and leaves           *)
(* <stem>/report.json for the image and, at the end, batch_summary.json.   *)
(* The script is run several times with the same output directory.         *)
(*                                                                         *)
(* One process, one image after the other.  What is hard is which of its   *)
(* results are on disk when something raises: an Exception is the error of *)
(* one image, SystemExit is not an Exception and ends the batch, and       *)
(* Path.write_text truncates a file before it writes it.                   *)
(*                                                                         *)
(* The model, YOLO and the mapping of app.agent may answer anything, so of *)
(* the answers only the issues they raise are kept.  A crop is modelled in *)
(* one dimension: width and height go through the same expressions.        *)
(***************************************************************************)
EXTENDS Integers, Sequences

CONSTANTS NImages,   \* images in the folder, in the order of their names
          Stems,     \* their names without suffix
          Root,      \* the output directory itself
          Nil,       \* no box_index; no file
          MaxBoxes,  \* bound on the boxes of an image
          Repeats,   \* --repeats
          MaxTurns,  \* bound on the runs of the script
          Sizes,     \* widths of images, in pixels
          Offsets,   \* coordinates of boxes, in fractions of a pixel
          Widths,    \* widths of boxes, in fractions of a pixel
          Unit       \* fractions in a pixel

ASSUME DiagnosisAssumption ==
  /\ NImages \in Nat \ {0} /\ MaxBoxes \in Nat /\ Repeats \in Nat /\ MaxTurns \in Nat
  /\ Sizes \subseteq Nat \ {0} /\ Offsets \subseteq Int /\ Widths \subseteq Nat
  /\ Unit \in Nat \ {0}
  /\ Root \notin Stems

VARIABLES
  stem,       \* the folder: stem of each image
  mode,       \* "batch" (--folder) or "single" (--image)
  flags,      \* which of --batch-quick, --batch-quiet, --legacy-full-pool, --boxes
  pc, pos,    \* where the script is; the image it is at
  \* the ImageDiagReport of that image and the locals it is made of
  boxes,      \* box_index of each box
  issues,     \* the lists of the report that are not empty
  error,      \* report.error is not None
  crop,       \* the last crop: the box, the image, and the pixels cut out
  \* the batch, and the files
  reports,    \* the reports of the batch so far
  details,    \* report.json of each directory, and whether it is whole
  summary,    \* batch_summary.json, and whether it is whole
  turn        \* history: which run of the script this is

locals == <<boxes, issues, error, crop>>
files  == <<details, summary>>
vars   == <<stem, mode, flags, pc, pos, locals, reports, files, turn>>

Images  == 1..NImages
Flags   == {"quick", "quiet", "legacy", "file"}
Issues  == {"duplicate", "legacy", "single", "unstable"}

\* The part of a report that is told apart here.
Entry == [image : Images, turn : 1..MaxTurns, ok : BOOLEAN, error : BOOLEAN]

\* A file that is not whole has been truncated and not written to its end; what
\* it was to hold is history.
File(contents) == [holds : contents, whole : BOOLEAN]

Torn(x)  == [holds |-> x, whole |-> FALSE]
Whole(x) == [holds |-> x, whole |-> TRUE]

\* None is not a file.
ASSUME NoFileAssumption == Nil \notin File(Entry)

TypeOK ==
  /\ stem \in [Images -> Stems]
  /\ mode \in {"batch", "single"} /\ flags \subseteq Flags
  /\ pc \in {"idle", "image", "boxes", "read", "export", "map", "pool", "legacy",
             "single", "repeat", "full", "print", "write", "writing", "append", "summary"}
  /\ pos \in 1..(NImages + 1)
  /\ boxes \in Seq(Nat) /\ Len(boxes) <= MaxBoxes
  /\ issues \subseteq Issues
  /\ error \in BOOLEAN
  /\ reports \in Seq(Entry)
  /\ details \in [Stems \cup {Root} -> File(Entry) \cup {Nil}]
  /\ summary \in File(Seq(Entry)) \cup {Nil}
  /\ turn \in 0..MaxTurns

NoCrop == [x |-> 0, w |-> 0, size |-> 1, left |-> 0, right |-> 1]

Init ==
  /\ stem \in [Images -> Stems]
  /\ mode = "batch" /\ flags = {} /\ pc = "idle" /\ pos = 1
  /\ boxes = <<>> /\ issues = {} /\ error = FALSE /\ crop = NoCrop
  /\ reports = <<>>
  /\ details = [d \in Stems \cup {Root} |-> Nil] /\ summary = Nil
  /\ turn = 0

-----------------------------------------------------------------------------
(* Helpers                                                                 *)

Go(from, to) == pc = from /\ pc' = to

Least(a, b) == IF a <= b THEN a ELSE b
Most(a, b)  == IF a >= b THEN a ELSE b

\* int() of a float: towards zero.
Trunc(a) == IF a >= 0 THEN a \div Unit ELSE -((-a) \div Unit)

\* crop_pil: the pixels left..right-1 of an image, for a box from x to x + w.
Left(x, size) == Most(0, Least(Trunc(x), size - 1))

\* Mutation: the right edge is not clamped to the image.
RightUnclamped(x, w, size) == Most(Left(x, size) + 1, Trunc(x + w))

Right(x, w, size) == Most(Left(x, size) + 1, Least(Trunc(x + w), size))

\* Mutation: a box without box_index is left without.
NumberedNot(file) == file

\* load_boxes: a box without box_index gets its position.
Numbered(file) == [i \in 1..Len(file) |-> IF file[i] = Nil THEN i - 1 ELSE file[i]]

\* The last of a set of positions.
Last(S) == CHOOSE i \in S : \A k \in S : k <= i

\* Mutation: every image of a batch writes into the output directory itself.
DirRoot == Root

\* Where the files of the image go.
Dir == IF mode = "batch" THEN stem[pos] ELSE Root

\* A fresh ImageDiagReport for the next image.
Fresh ==
  /\ boxes' = <<>> /\ issues' = {} /\ error' = FALSE /\ crop' = NoCrop

\* The process is gone, and with it all that is not in a file.
Gone == pc' = "idle" /\ mode' = "batch" /\ flags' = {} /\ pos' = 1 /\ Fresh

Report == [image |-> pos, turn |-> turn, ok |-> ~error /\ issues = {}, error |-> error]

-----------------------------------------------------------------------------
(* The batch                                                               *)

\* main_async, run_folder_batch: a new process.
Start ==
  /\ Go("idle", "image")
  /\ turn < MaxTurns
  /\ turn' = turn + 1
  /\ flags' \in SUBSET Flags
  /\ mode' \in {"batch", "single"}
  /\ pos' \in IF mode' = "batch" THEN {1} ELSE Images
  /\ reports' = <<>>
  /\ UNCHANGED <<stem, locals, files>>

\* The next image.
NextImage ==
  /\ pos <= NImages
  /\ Go("image", "boxes")
  /\ UNCHANGED <<stem, mode, flags, pos, locals, reports, files, turn>>

\* Mutation: a report with an error is not kept.
AppendGoodOnly ==
  /\ pc = "append"
  /\ \/ /\ mode = "batch" /\ pc' = "image"
        /\ reports' = IF error THEN reports ELSE Append(reports, Report)
        /\ pos' = pos + 1 /\ Fresh /\ UNCHANGED <<mode, flags>>
     \/ mode = "single" /\ Gone /\ UNCHANGED reports
  /\ UNCHANGED <<stem, files, turn>>

\* diagnose_single_image has returned.
AppendReport ==
  /\ pc = "append"
  /\ \/ /\ mode = "batch" /\ pc' = "image"
        /\ reports' = Append(reports, Report)
        /\ pos' = pos + 1 /\ Fresh /\ UNCHANGED <<mode, flags>>
     \/ mode = "single" /\ Gone /\ UNCHANGED reports
  /\ UNCHANGED <<stem, files, turn>>

\* write_text: the file is opened and with that empty ...
OpenSummary ==
  /\ pos > NImages
  /\ Go("image", "summary")
  /\ summary' = Torn(reports)
  /\ UNCHANGED <<stem, mode, flags, pos, locals, reports, details, turn>>

\* ... then written and closed.
WriteSummary ==
  /\ pc = "summary"
  /\ summary' = Whole(reports)
  /\ Gone
  /\ UNCHANGED <<stem, reports, details, turn>>

-----------------------------------------------------------------------------
(* One image: diagnose_single_image                                        *)

\* load_boxes with --boxes: whatever the file says, an empty list included.
LoadFile ==
  /\ "file" \in flags
  /\ Go("boxes", "read")
  /\ \E n \in 0..MaxBoxes :
       \E file \in [1..n -> {Nil} \cup 0..(MaxBoxes - 1)] : boxes' = Numbered(file)
  /\ UNCHANGED <<stem, mode, flags, pos, issues, error, crop, reports, files, turn>>

\* detect_boxes_yolo: the boxes are numbered as they pass the filter, none of
\* them is SystemExit.
DetectBoxes ==
  /\ "file" \notin flags
  /\ Go("boxes", "read")
  /\ \E n \in 1..MaxBoxes : boxes' = [i \in 1..n |-> i - 1]
  /\ UNCHANGED <<stem, mode, flags, pos, issues, error, crop, reports, files, turn>>

\* The image is read; crops are exported unless the batch is quiet.
ReadImage ==
  /\ Go("read", IF mode = "batch" /\ "quiet" \in flags THEN "map" ELSE "export")
  /\ UNCHANGED <<stem, mode, flags, pos, locals, reports, files, turn>>

\* phase_export_crops: crop_pil of some box.  The later phases crop again, with
\* the same function.
ExportCrop ==
  /\ pc = "export" /\ boxes # <<>> /\ crop = NoCrop
  /\ \E x \in Offsets, w \in Widths, size \in Sizes :
       crop' = [x |-> x, w |-> w, size |-> size,
                left |-> Left(x, size), right |-> Right(x, w, size)]
  /\ UNCHANGED <<stem, mode, flags, pc, pos, boxes, issues, error, reports, files, turn>>

\* All crops are written.  --skip-llm, for a single image, ends here.
Exported ==
  /\ Go("export", "map") \/ (mode = "single" /\ Go("export", "append"))
  /\ crop' = NoCrop
  /\ UNCHANGED <<stem, mode, flags, pos, boxes, issues, error, reports, files, turn>>

\* map_detection_boxes_to_labels_unified gives a box no label, one or several,
\* and a label to any number of boxes: duplicate_labels_from_mappings may find
\* one whatever the boxes.
MapBoxes ==
  /\ Go("map", "pool")
  /\ issues' \in SUBSET {"duplicate"}
  /\ UNCHANGED <<stem, mode, flags, pos, boxes, error, crop, reports, files, turn>>

\* resolve_label_pool; the pool may be smaller than the list of candidates.
ResolvePool ==
  /\ \/ mode = "batch" /\ Go("pool", "single")
     \/ mode = "batch" /\ "legacy" \in flags /\ Go("pool", "legacy")
     \/ mode = "single" /\ Go("pool", IF "quick" \in flags THEN "write" ELSE "print")
  /\ UNCHANGED <<stem, mode, flags, pos, locals, reports, files, turn>>

\* Each box is asked for once more, and its answer may differ from the production
\* mapping of its box_index.  The list of differences is kept only when it is
\* complete.
Compare(issue) ==
  /\ \/ boxes # <<>> /\ issues' = issues \cup {issue}
     \/ UNCHANGED issues
  /\ UNCHANGED <<stem, mode, flags, pos, boxes, error, crop, reports, files, turn>>

LegacyDiffs == Go("legacy", "single") /\ Compare("legacy")

PoolSingleDiffs == Go("single", "repeat") /\ Compare("single")

\* collect_stability_issues: each box several times, once with --batch-quick.
\* The answers are compared with each other, not with the production mapping.
Stability ==
  /\ Go("repeat", IF "quick" \in flags THEN "write" ELSE "full")
  /\ \/ boxes # <<>> /\ Repeats > 1 /\ "quick" \notin flags
        /\ issues' = issues \cup {"unstable"}
     \/ UNCHANGED issues
  /\ UNCHANGED <<stem, mode, flags, pos, boxes, error, crop, reports, files, turn>>

\* phase_full_image_return; in single mode the phases 4 to 6, which only print.
AskFullImage ==
  /\ Go("full", "write") \/ Go("print", "write")
  /\ UNCHANGED <<stem, mode, flags, pos, locals, reports, files, turn>>

\* write_text: the file is opened and with that empty ...
OpenReport ==
  /\ Go("write", "writing")
  /\ details' = [details EXCEPT ![Dir] = Torn(Report)]
  /\ UNCHANGED <<stem, mode, flags, pos, locals, reports, summary, turn>>

\* ... then written and closed.
WriteReport ==
  /\ Go("writing", "append")
  /\ details' = [details EXCEPT ![Dir] = Whole(Report)]
  /\ UNCHANGED <<stem, mode, flags, pos, locals, reports, summary, turn>>

-----------------------------------------------------------------------------
(* Errors                                                                  *)

Diagnosing == {"boxes", "read", "export", "map", "pool", "legacy", "single",
               "repeat", "full", "print", "write", "writing"}

\* except Exception: the report has an error and is not written.  An error of
\* the write itself (a full disk, a text that cannot be encoded) comes after the
\* file was truncated: whatever report it held is lost.
Raise ==
  /\ pc \in Diagnosing
  /\ pc' = "append"
  /\ error' = TRUE
  /\ UNCHANGED <<stem, mode, flags, pos, boxes, issues, crop, reports, files, turn>>

\* SystemExit: no checkpoint, no box, or the YOLO process failed.
Exit ==
  /\ pc = "boxes"
  /\ Gone
  /\ UNCHANGED <<stem, reports, files, turn>>

\* The process is interrupted, or cannot write the summary; a file it was
\* writing stays torn.  Between the two steps of "append" it makes no difference:
\* the list is lost with the process.
Interrupt ==
  /\ pc \notin {"idle", "append"}
  /\ Gone
  /\ UNCHANGED <<stem, reports, files, turn>>

-----------------------------------------------------------------------------
Next ==
  \/ Start \/ NextImage \/ AppendReport \/ OpenSummary \/ WriteSummary
  \/ LoadFile \/ DetectBoxes \/ ReadImage \/ ExportCrop \/ Exported
  \/ MapBoxes \/ ResolvePool \/ LegacyDiffs \/ PoolSingleDiffs \/ Stability
  \/ AskFullImage \/ OpenReport \/ WriteReport
  \/ Raise \/ Exit \/ Interrupt

Spec == Init /\ [][Next]_vars

-----------------------------------------------------------------------------
\* batch_summary.json, if it is there and whole, is the summary of one run and has
\* every image of the folder in its place, whichever of them raised
\* (run_folder_batch).  A run that ends while it writes the summary leaves it
\* torn, and the one of an earlier run is lost.
SummaryCovers ==
  summary # Nil /\ summary.whole =>
    LET list == summary.holds IN
    /\ Len(list) = NImages
    /\ \A i \in Images : list[i].image = i /\ list[i].turn = list[1].turn

\* The images of the current batch that are done without error, by stem.
Done(s) == {i \in 1..Len(reports) : ~reports[i].error /\ stem[reports[i].image] = s}

\* The report.json of stem s was torn by a later image of the batch than those
\* that are done: the write raised, and its report has an error, or the process
\* ended in it.
TornLater(s) ==
  LET d == details[s]
      i == d.holds.image IN
  /\ d # Nil /\ ~d.whole /\ d.holds.turn = turn
  /\ stem[i] = s /\ \A k \in Done(s) : k < i
  /\ \/ i <= Len(reports) /\ reports[i].error
     \/ i = Len(reports) + 1 /\ pc = "idle"

\* The details of an image that is done are on disk and whole, also when a later
\* image ends the batch, until another image with its stem is written: if that
\* write fails, both are lost.  A directory none of whose images is done or torn
\* keeps what an earlier run left there.
DetailsKept ==
  \A s \in Stems : ~(pc \in {"writing", "append"} /\ mode = "batch" /\ stem[pos] = s) =>
    \/ TornLater(s)
    \/ Done(s) # {} /\ details[s] = Whole(reports[Last(Done(s))])
    \/ Done(s) = {} /\ (details[s] = Nil \/ details[s].holds.turn < turn)

\* A crop lies in the image, is not empty, and has every pixel of the image
\* that lies in the box, also for a box that reaches or lies beyond the image.
CropCovers ==
  /\ 0 <= crop.left /\ crop.left < crop.right /\ crop.right <= crop.size
  /\ \A p \in 0..(crop.size - 1) :
       crop.x <= p * Unit /\ (p + 1) * Unit <= crop.x + crop.w
         => crop.left <= p /\ p < crop.right
=============================================================================
