------------------------------- MODULE PartFiles -------------------------------
(***************************************************************************)
(* The files of one capture after their download: what is read of a part   *)
(* (inspect_stream() of iq_merge.py, xdat_header.py), what the check of    *)
(* the capture makes of them (validate_capture() of cellular_quality.py),  *)
(* and their merging (plan_merge() and the bytes merge_parts() writes).    *)
(*                                                                         *)
(* A file is                                                               *)
(*   [stem, part, copy: its name; part 0 is a name without a number,       *)
(*    there, lost: bytes missing at its end, negative when it grew,        *)
(*    xhdr: of the header beside an XDAT file, "none", "bad" or "good",    *)
(*    wrote: what the sensor wrote in it],                                 *)
(* and what was written is                                                 *)
(*   [kind: "wave", "float", "xdat", "encoded" or "other", header: bytes   *)
(*    before the samples, data: bytes of samples, chunks: sizes of the     *)
(*    chunks after them, riff: the size its header states, align, fmt,     *)
(*    start, stamped: its first chunk says when it starts, tuning: 0 when  *)
(*    not said, spoilt: frames that are clipped].                          *)
(* Times count frames.                                                     *)
(***************************************************************************)
EXTENDS Integers, Sequences, SequencesExt, FiniteSets, FiniteSetsExt, TLC

CONSTANTS
  Folders,       \* sequences of files, as they are given to the check and to the merge
  Requests,      \* [frames, tuning, names]: of the capture; 0, 0 and {} when not known
  BlockFrames,   \* BLOCK_FRAMES
  GapTolerance,  \* TIME_GAP_TOLERANCE_S
  JoinTolerance, \* CONTINUITY_TOLERANCE_S
  LongSlack,     \* DURATION_LONG_SLACK_S
  RiffMax,       \* RIFF_MAX_BYTES
  Comment,       \* the chunk that names the merge
  CommentBound   \* what plan_merge() reckons for it

ASSUME PartFilesAssumption ==
  /\ BlockFrames \in Nat \ {0}
  /\ {GapTolerance, JoinTolerance, LongSlack, RiffMax, Comment, CommentBound} \subseteq Nat
  /\ Comment <= CommentBound

VARIABLES
  paths,
  asked,
  quality, \* the CaptureQuality, NoQuality before
  plan,    \* the MergePlan, NoPlan before
  merged   \* the output of the merge: "none", "refused" or "written"

file_vars == <<paths, asked, quality, plan, merged>>

NoQuality == [level |-> "none", errors |-> {}, warnings |-> {}]
NoPlan == [errors |-> {"none"}, parts |-> <<>>, continuity |-> "none", rf64 |-> FALSE]

Smaller(a, b) == IF a < b THEN a ELSE b
Away(a, b) == IF a < b THEN b - a ELSE a - b
Total(s) == FoldLeft(LAMBDA a, b : a + b, 0, s)
Padded(n) == n + (n % 2)
Name(f) == <<f.stem, f.part, f.copy>>

----------------------------------------------------------------------------
(* What is read of a part *)

ChunkHeader == 8
Written(w) == w.header + (IF w.kind \in {"wave", "float"} THEN Padded(w.data) ELSE w.data) + Total(w.chunks)
Size(f) == Written(f.wrote) - f.lost

Unread(why) == [why |-> why, frames |-> 0, problems |-> {}, stamped |-> FALSE]

(* A copy that was clipped or grew does not match the size in its header *)
SizeAsStated(f) == f.wrote.riff + 8 = Size(f)

(* inspect_stream(): every byte is accounted for; a copy that was clipped or grew has a problem *)
InspectStream(f) ==
  LET w == f.wrote
      held == Size(f) - w.header
      tail == held - Padded(w.data)
      complete == {k \in 0..Len(w.chunks) : Total(SubSeq(w.chunks, 1, k)) <= tail}
      rest == tail - Total(SubSeq(w.chunks, 1, Max(complete)))
      found == {p \in {"unsupported", "truncated", "middle", "no samples", "cut short"} :
                  \/ p = "unsupported" /\ w.kind = "float"
                  \/ p = "truncated" /\ w.data > held
                  \/ p = "middle" /\ w.data % w.align # 0
                  \/ p = "no samples" /\ w.data = 0
                  \/ p = "cut short" /\ tail > 0 /\ rest >= ChunkHeader}
  IN IF held < 0 \/ w.kind \notin {"wave", "float"} THEN Unread("broken")
     ELSE [why |-> "",
           frames |-> Smaller(w.data, held) \div w.align,
           problems |-> IF found = {} /\ ~SizeAsStated(f) THEN {"riff size"} ELSE found,
           stamped |-> w.stamped /\ tail > 0 /\ Max(complete) > 0]

(* inspect_xdat(): the samples alone, as the header beside them describes them *)
InspectXdat(f) ==
  LET w == f.wrote
      found == {p \in {"middle", "truncated", "more samples", "no samples"} :
                  \/ p = "middle" /\ Size(f) % w.align # 0
                  \/ p = "truncated" /\ Size(f) < w.data
                  \/ p = "more samples" /\ Size(f) > w.data
                  \/ p = "no samples" /\ Size(f) \div w.align = 0}
  IN CASE f.xhdr = "none" -> Unread("no header")
       [] f.xhdr = "bad" -> Unread("broken")
       [] f.xhdr = "good" /\ w.kind = "encoded" -> Unread("not decoded")
       [] OTHER -> [why |-> "", frames |-> Size(f) \div w.align, problems |-> found, stamped |-> w.stamped]

Inspect(f) == IF f.wrote.kind \in {"xdat", "encoded"} THEN InspectXdat(f) ELSE InspectStream(f)

----------------------------------------------------------------------------
(* The check of a capture *)

(* _block_offsets(): the beginning, the middle and the end *)
BlockOffsetsShort(n) == \* MUTANT the last block starts one block too early
  IF n <= 0 THEN {} ELSE IF n <= BlockFrames THEN {0} ELSE {0, (n - BlockFrames) \div 2, n - 2 * BlockFrames} \ {-1, -2}
BlockOffsets(n) ==
  IF n <= 0 THEN {} ELSE IF n <= BlockFrames THEN {0} ELSE {0, (n - BlockFrames) \div 2, n - BlockFrames}

LookedAt(n) == UNION {o..(Smaller(o + BlockFrames, n) - 1) : o \in BlockOffsets(n)}

FlagOf(problem) ==
  CASE problem \in {"truncated", "cut short", "middle"} -> "truncated"
    [] problem = "no samples" -> "empty"
    [] problem = "unsupported" -> "corrupt"
    [] OTHER -> "container_warning"

(* validate_file(): [flags, frames, stamped] *)
ValidateFile(f) ==
  LET i == Inspect(f)
      only(flag) == [flags |-> {flag}, frames |-> 0, stamped |-> FALSE]
  IN CASE ~f.there -> only("missing_file")
       [] f.there /\ Size(f) = 0 -> only("empty")
       [] f.there /\ Size(f) # 0 /\ f.wrote.kind = "other" -> only("not_wave")
       [] f.there /\ Size(f) # 0 /\ f.wrote.kind # "other" /\ i.why \in {"no header", "not decoded"} -> only("not_wave")
       [] f.there /\ Size(f) # 0 /\ f.wrote.kind # "other" /\ i.why = "broken" -> only("corrupt")
       [] OTHER -> [flags |-> {FlagOf(p) : p \in i.problems} \cup
                              (IF f.wrote.spoilt \cap LookedAt(i.frames) = {} THEN {} ELSE {"clipping"}),
                    frames |-> i.frames,
                    stamped |-> i.stamped]

FileErrors == {"empty", "truncated", "corrupt", "missing_file"}

(* files.sort(): by number, those without one last, then by name *)
InOrder(s) ==
  SortSeq(s, LAMBDA a, b :
    LET x == IF a.part = 0 THEN 9 ELSE a.part
        y == IF b.part = 0 THEN 9 ELSE b.part
    IN x < y \/ (x = y /\ (a.stem < b.stem \/ (a.stem = b.stem /\ a.copy < b.copy))))

Numbers(s) == {s[i].part : i \in DOMAIN s} \ {0}
MissingBetween(s) == IF Numbers(s) = {} THEN {} ELSE (Min(Numbers(s))..Max(Numbers(s))) \ Numbers(s)

(* How much later than expected the part g starts, n frames having been read of the part f before it *)
Late(f, n, g) == g.wrote.start - (f.wrote.start + n)

Checked(files) == [i \in DOMAIN files |-> ValidateFile(files[i])]

(* validate_capture() of files in their order, each checked *)
ValidateCapture(files, checked, want) ==
  LET held == Total([i \in DOMAIN files |-> checked[i].frames])
      flags == UNION {checked[i].flags : i \in DOMAIN files}
      unchecked == {i \in DOMAIN files : "not_wave" \in checked[i].flags}
      late(i) == Late(files[i], checked[i].frames, files[i + 1])
      joined == {i \in 1..(Len(files) - 1) : checked[i].stamped /\ checked[i + 1].stamped /\ checked[i].frames > 0}
      errors == (flags \cap FileErrors) \cup
        {e \in {"no_files", "missing_part", "tuning_mismatch"} :
           \/ e = "no_files" /\ files = <<>>
           \/ e = "missing_part" /\ (MissingBetween(files) # {} \/ ~(want.names \subseteq {Name(files[i]) : i \in DOMAIN files}))
           \/ e = "tuning_mismatch" /\ want.tuning # 0 /\ \E i \in DOMAIN files :
                checked[i].stamped /\ files[i].wrote.tuning \notin {0, want.tuning}}
      warnings == (flags \cap {"clipping"}) \cup
        {e \in {"time_gap", "time_overlap", "short_duration", "long_duration"} :
           \/ e = "time_gap" /\ \E i \in joined : late(i) > GapTolerance
           \/ e = "time_overlap" /\ \E i \in joined : late(i) < 0 - GapTolerance
           \/ e = "short_duration" /\ want.frames > 0 /\ held > 0 /\ 100 * held < 95 * want.frames
           \/ e = "long_duration" /\ want.frames > 0 /\ held > want.frames + LongSlack}
  IN [level |-> IF errors # {} THEN "error" ELSE IF warnings # {} THEN "warning"
                ELSE IF Cardinality(unchecked) = Len(files) THEN "not_checked" ELSE "ok",
      errors |-> errors,
      warnings |-> warnings]

----------------------------------------------------------------------------
(* The plan of a merge *)

RiffHeader == 44
Rf64Header == 80

(* _output_bytes() *)
OutputBytes(data, trailer, rf64) == (IF rf64 THEN Rf64Header ELSE RiffHeader) + Padded(data) + trailer

(* _check_join() *)
Join(a, b) ==
  LET late == b.wrote.start - (a.wrote.start + Inspect(a).frames)
  IN IF ~(Inspect(a).stamped /\ Inspect(b).stamped) THEN "unknown"
     ELSE IF Away(late, 0) <= JoinTolerance THEN "verified" ELSE IF late > 0 THEN "gap" ELSE "overlap"

(* The chunks of the output: the first part's own and the comment *)
Trailer(parts, comment) == (IF Inspect(parts[1]).stamped THEN <<Head(parts[1].wrote.chunks)>> ELSE <<>>) \o <<comment>>

MissingFromStart(s) == IF Numbers(s) = {} THEN {} ELSE (1..Max(Numbers(s))) \ Numbers(s)

Readable(s) == SelectSeq(s, LAMBDA f : f.there /\ InspectStream(f).why = "")
Inspected(parts) == [i \in DOMAIN parts |-> InspectStream(parts[i])]

(* plan_merge() of the files of s, of which those that can be read are parts, as read *)
PlanMerge(s, parts, at) ==
  LET joins == {Join(parts[i], parts[i + 1]) : i \in 1..(Len(parts) - 1)}
      data == Total([i \in DOMAIN parts |-> at[i].frames * parts[1].wrote.align])
      listed == {e \in {"unreadable", "none readable", "other recordings", "not numbered", "twice", "missing", "problem",
                        "format", "tuning", "not continuous"} :
                   \/ e = "unreadable" /\ Len(parts) # Len(s)
                   \/ e = "none readable" /\ parts = <<>>
                   \/ e = "other recordings" /\ Cardinality({parts[i].stem : i \in DOMAIN parts}) > 1
                   \/ e = "not numbered" /\ \E i \in DOMAIN parts : parts[i].part = 0
                   \/ e = "twice" /\ \E i, j \in DOMAIN parts : i < j /\ parts[i].part = parts[j].part /\ parts[i].part # 0
                   \/ e = "missing" /\ MissingFromStart(parts) # {}
                   \/ e = "problem" /\ \E i \in DOMAIN parts : at[i].problems # {}
                   \/ e = "format" /\ \E i \in DOMAIN parts : parts[i].wrote.fmt # parts[1].wrote.fmt
                   \/ e = "tuning" /\ (\A i \in DOMAIN parts : at[i].stamped) /\ Cardinality({parts[i].wrote.tuning : i \in DOMAIN parts}) > 1
                   \/ e = "not continuous" /\ joins \cap {"gap", "overlap"} # {}}
  IN [errors |-> IF listed = {} /\ Len(parts) < 2 THEN {"only one"} ELSE listed,
      parts |-> parts,
      continuity |-> IF joins \cap {"gap", "overlap"} # {} THEN "broken" ELSE IF "unknown" \in joins THEN "unknown" ELSE "verified",
      rf64 |-> parts # <<>> /\ OutputBytes(data, Total(Trailer(parts, CommentBound)), FALSE) > RiffMax]

(* _riff_header(), the samples of every part, _trailer_bytes() *)
MergedFile(p) ==
  LET first == p.parts[1]
      data == Total([i \in DOMAIN p.parts |-> Inspect(p.parts[i]).frames * first.wrote.align])
      chunks == Trailer(p.parts, Comment)
      stated == (IF p.rf64 THEN 4 + 36 ELSE 4) + 24 + 8 + Padded(data) + Total(chunks)
  IN [stem |-> first.stem, part |-> 0, copy |-> 0, there |-> TRUE, lost |-> 0, xhdr |-> "none",
      wrote |-> [first.wrote EXCEPT !.header = IF p.rf64 THEN Rf64Header ELSE RiffHeader, !.data = data,
                                    !.chunks = chunks, !.riff = stated, !.stamped = Inspect(first).stamped, !.spoilt = {}]]

Frames(p) == Total([i \in DOMAIN p.parts |-> Inspect(p.parts[i]).frames])

(* _verify_output(): the output is read like any part *)
Verifies(p, f) == InspectStream(f).problems = {} /\ InspectStream(f).frames = Frames(p)

----------------------------------------------------------------------------
PartFilesInit ==
  /\ paths \in Folders
  /\ asked \in Requests
  /\ quality = NoQuality /\ plan = NoPlan /\ merged = "none"

(* run_quality_checks() of the downloaded files *)
CheckCapture ==
  /\ quality = NoQuality
  /\ \E files \in {InOrder(paths)} : \E checked \in {Checked(files)} :
       quality' = ValidateCapture(files, checked, asked)
  /\ UNCHANGED <<paths, asked, plan, merged>>

PlanParts ==
  /\ quality # NoQuality /\ plan = NoPlan
  /\ \E parts \in {InOrder(Readable(paths))} : \E at \in {Inspected(parts)} : plan' = PlanMerge(paths, parts, at)
  /\ UNCHANGED <<paths, asked, quality, merged>>

(* merge_parts(): too large a file for its header, or one that does not verify, is not kept *)
MergeParts ==
  /\ plan.errors = {} /\ merged = "none"
  /\ \E f \in {MergedFile(plan)} :
       merged' = IF (~plan.rf64 /\ f.wrote.riff > RiffMax) \/ ~Verifies(plan, f) THEN "refused" ELSE "written"
  /\ UNCHANGED <<paths, asked, quality, plan>>

PartFilesNext == CheckCapture \/ PlanParts \/ MergeParts

----------------------------------------------------------------------------
Decodable(f) == f.wrote.kind \in {"wave", "float"} \/ (f.wrote.kind = "xdat" /\ f.xhdr # "none")
HasItsSamples(f) == f.there /\ Size(f) >= f.wrote.header + f.wrote.data
Follows(f, g) == g.part = f.part + 1 /\ f.part # 0

(* A capture is reported sound only when every sample of the parts that can be read is on the computer, none is
   missing between them or from the sensor's list, no time is missing between two of them, neither end of one is
   clipped, and together they hold what was asked (5 % less passes). *)
SoundIsWhole ==
  quality.level = "ok" =>
    /\ \E i \in DOMAIN paths : Decodable(paths[i])
    /\ \A i \in DOMAIN paths : Decodable(paths[i]) =>
         HasItsSamples(paths[i]) /\ {0, paths[i].wrote.data \div paths[i].wrote.align - 1} \cap paths[i].wrote.spoilt = {}
    /\ asked.names \subseteq {Name(paths[i]) : i \in DOMAIN paths}
    /\ MissingBetween(paths) = {}
    /\ \A i, j \in DOMAIN paths :
         /\ Numbers(paths) = DOMAIN paths
         /\ Follows(paths[i], paths[j]) /\ paths[i].wrote.stamped /\ paths[j].wrote.stamped
         /\ Inspect(paths[i]).stamped /\ Inspect(paths[j]).stamped
         => Away(paths[j].wrote.start, paths[i].wrote.start + Inspect(paths[i]).frames) <= GapTolerance
    /\ (asked.frames > 0 /\ \A i \in DOMAIN paths : Decodable(paths[i])) =>
         95 * asked.frames <= 100 * Total([i \in DOMAIN paths |-> Inspect(paths[i]).frames])

(* A capture that is complete, as asked and without a defect anywhere is never reported otherwise. *)
WholeIsSound ==
  /\ quality # NoQuality /\ paths # <<>>
  /\ \A i \in DOMAIN paths : Decodable(paths[i]) /\ paths[i].wrote.kind # "float" /\ paths[i].there /\ paths[i].lost = 0
       /\ paths[i].xhdr # "bad" /\ paths[i].wrote.spoilt = {} /\ paths[i].wrote.tuning \in {0, asked.tuning}
       /\ paths[i].wrote.data > 0 /\ paths[i].wrote.data % paths[i].wrote.align = 0
  /\ Numbers(paths) = DOMAIN paths
  /\ asked.names \subseteq {Name(paths[i]) : i \in DOMAIN paths}
  /\ \A i, j \in DOMAIN paths : Follows(paths[i], paths[j]) => paths[j].wrote.start = paths[i].wrote.start + Inspect(paths[i]).frames
  /\ asked.frames \in {0, Total([i \in DOMAIN paths |-> Inspect(paths[i]).frames])}
  => quality.level = "ok"

(* The order in which the files were downloaded makes no difference to what is said of the capture. *)
OrderIsNoMatter ==
  quality # NoQuality =>
    \A files \in {InOrder(Reverse(paths))} : \A checked \in {Checked(files)} :
      ValidateCapture(files, checked, asked) = quality

(* What is planned to be merged is the beginning of one recording: its parts from the first on, each once and
   whole, each starting where the one before ends as far as both say when they start. *)
MergeIsOneRecording ==
  plan.errors = {} =>
    /\ \A i \in DOMAIN plan.parts :
         /\ plan.parts[i].part = i /\ plan.parts[i].stem = plan.parts[1].stem
         /\ plan.parts[i].wrote.fmt = plan.parts[1].wrote.fmt
         /\ plan.parts[i].lost = 0
    /\ \A i \in 1..(Len(plan.parts) - 1) :
         LET a == plan.parts[i].wrote b == plan.parts[i + 1].wrote
         IN (a.stamped /\ b.stamped) => Away(b.start, a.start + a.data \div a.align) <= JoinTolerance
    /\ plan.continuity = "verified" => \A i \in DOMAIN plan.parts : plan.parts[i].wrote.stamped

(* The output of every planned merge passes its own verification and fits the header that was chosen for it. *)
MergeReadsBack == merged # "refused"

(* What is said of downloaded parts, and made of them, is true of what the sensor wrote. *)
PartsAreJudgedRight == SoundIsWhole /\ WholeIsSound /\ OrderIsNoMatter /\ MergeIsOneRecording /\ MergeReadsBack
=============================================================================
