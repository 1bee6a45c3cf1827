------------------------------- MODULE FileRisk -------------------------------
(***************************************************************************)
(* What the file viewer says of one file: its group, MIME type, warnings,  *)
(* risk and way of preview (file-viewer/main.js, renderPreview).           *)
(*                                                                         *)
(* A file is the features these functions tell apart; its bytes are not    *)
(* modelled.  Extensions stand for their class: text, active, risky.       *)
(***************************************************************************)
EXTENDS Naturals

VARIABLES
  file,    \* the features of the file
  report   \* what analyzeFile returned last

vars == <<file, report>>

Images      == {"PNG", "JPEG", "GIF", "WebP"}
Videos      == {"MPEG", "MP4"}
Audios      == {"MP3", "WAV"}
Archives    == {"ZIP", "SevenZip", "RAR", "Gzip"}
Executables == {"PE", "ELF", "MachO", "JavaClass"}
Documents   == {"PDF"}

\* What detectSignature returns, by short names; each set above stands for a
\* substring that is tested for.
Signatures ==
  Images \cup Videos \cup Audios \cup Archives \cup Executables \cup Documents
    \cup {"Ogg", "SQLite", "Unknown"}

TextExtensions   == {".txt", ".js", ".svg", ".html"}
ActiveExtensions == {".svg", ".html", ".htm"}
RiskyExtensions  == {".js", ".exe"}
Extensions == TextExtensions \cup ActiveExtensions \cup RiskyExtensions \cup {".png"}

\* size is the sample's: none, up to 4096 bytes, or more.  plain: no NUL and
\* hardly a control byte.  dense: entropy above 7.5 bits a byte.
Files ==
  {f \in [signature : Signatures, extension : Extensions, double : BOOLEAN,
          size : {"none", "small", "large"}, plain : BOOLEAN, dense : BOOLEAN] :
     f.size = "none" => f.signature = "Unknown" /\ f.plain /\ ~f.dense}

IsLikelyText(f) == f.extension \in TextExtensions \/ f.size = "none" \/ f.plain

\* Mutant of ClassifyFile: a vector image counts as an image.
ClassifyFileAnyImage(f) ==
  IF f.signature \in Images \/ f.extension = ".svg" THEN "image" ELSE "binary"

ClassifyFile(f) ==
  CASE f.signature \in Images /\ f.extension # ".svg" -> "image"
    [] f.signature \in Videos -> "video"
    [] f.signature \in Audios -> "audio"
    [] f.signature \in Documents -> "document"
    [] f.signature \in Archives -> "archive"
    [] f.signature \in Executables -> "executable"
    [] OTHER -> IF IsLikelyText(f) THEN "text" ELSE "binary"

\* The type of a MIME type, as far as a preview depends on it.
DetectMimeType(f) ==
  CASE f.signature \in Images -> "image"
    [] f.signature \in Videos -> "video"
    [] f.signature \in Audios -> "audio"
    [] f.signature \in Archives \cup Documents \cup {"Ogg", "SQLite"} -> "application"
    [] OTHER -> IF f.extension \in ActiveExtensions THEN "active"
         ELSE IF ClassifyFile(f) = "text" THEN "text" ELSE "application"

BuildWarnings(f) ==
  {w \in {"extension", "double", "signature", "active", "unknown", "entropy"} :
     \/ w = "extension" /\ f.extension \in RiskyExtensions
     \/ w = "double"    /\ f.double
     \/ w = "signature" /\ f.signature \in Executables
     \/ w = "active"    /\ f.extension \in ActiveExtensions
     \/ w = "unknown"   /\ f.signature = "Unknown" /\ f.size # "none"
     \/ w = "entropy"   /\ f.dense /\ f.size = "large"}

Points(condition, n) == IF condition THEN n ELSE 0

\* The score before it is cut off at 100.
RawScore(f) ==
  LET warned == BuildWarnings(f) IN
    Points(ClassifyFile(f) = "executable", 85)
    + Points(ClassifyFile(f) = "archive", 25)
    + Points(f.signature = "Unknown", 18)
    + Points(f.dense, 15)
    + Points(f.extension \in ActiveExtensions, 30)
    + Points("extension" \in warned, 35) + Points("signature" \in warned, 35)
    + Points("double" \in warned, 25) + Points("entropy" \in warned, 12)
    + Points("active" \in warned, 8) + Points("unknown" \in warned, 8)

Level(score) ==
  IF score >= 75 THEN "high" ELSE IF score >= 40 THEN "medium"
  ELSE IF score >= 15 THEN "low" ELSE "minimal"

\* renderPreview
Preview(f) ==
  LET group == ClassifyFile(f) IN
    IF group \in {"image", "audio", "video", "text"} THEN group ELSE "hex"

Report(f) ==
  [group |-> ClassifyFile(f), mime |-> DetectMimeType(f), warnings |-> BuildWarnings(f),
   level |-> Level(RawScore(f)), preview |-> Preview(f)]

NoReport == [group |-> "none", mime |-> "none", warnings |-> {}, level |-> "none", preview |-> "none"]

Init == file \in Files /\ report = NoReport

\* analyzeFile, each time the file is opened.
Analyze == report' = Report(file) /\ UNCHANGED file

Next == Analyze

Spec == Init /\ [][Next]_vars

-----------------------------------------------------------------------------
(* Properties                                                              *)

\* A file that goes to an <img>, <audio> or <video> element has a MIME type of
\* that kind: the table of MIME types and the order of classifyFile agree, and
\* no vector image is rendered as one.
MediaAreMedia ==
  report.preview \in {"image", "audio", "video"} =>
    report.mime = report.preview /\ (report.preview = "image" => file.extension # ".svg")

\* What can be run is never rated below what its kind deserves: a known
\* executable is high whatever its name, a risky name is never minimal.
ExecutableIsHigh ==
  report # NoReport =>
    /\ file.signature \in Executables => report.level = "high"
    /\ file.extension \in RiskyExtensions => report.level # "minimal"

\* A high rating comes with a warning that says why, and a file rated minimal
\* with none: the pill "No obvious local indicators" does not stand beside a
\* high risk, nor a warning beside "minimal".
HighIsExplained ==
  /\ report.level = "high" => report.warnings # {}
  /\ report.level = "minimal" => report.warnings = {}

\* Together: the rating, what it rests on and the preview fit each other.
RatingIsSound == MediaAreMedia /\ ExecutableIsHigh /\ HighIsExplained
=============================================================================
