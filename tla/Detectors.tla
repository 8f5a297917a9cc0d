------------------------------ MODULE Detectors ------------------------------
(***************************************************************************)
(* The detectors, the pipeline build_pipeline puts them in, and the merge  *)
(* of their verdicts.  A file is what the detectors can see of it, a       *)
(* context what the scan has handed over.  Offsets count bytes from 0.     *)
(***************************************************************************)
EXTENDS Integers, Sequences, FiniteSets, SequencesExt

CONSTANTS
  Lookback,       \* how far from its end a PDF is searched, 1024
  LargeBytes      \* the size from which entropy counts, 1 MiB

(* A file has                                                              *)
(*   ext, size   as the directory gives them                               *)
(*   opens       whether CreateFile succeeds                               *)
(*   readable    the number of leading bytes that can be read              *)
(*   head, tail  whether it begins and ends as its type should             *)
(*   body        PNG chunks, JPEG bytes, MP4 boxes, PDF tokens, ZIP entries*)
(*   dull        whether the entropy of its bytes is below 1               *)
(*   baseline    "none", "same" or "rot", what the loaded manifest says    *)
(*   throws      detectors in which an exception is thrown                 *)
(* and a FileContext has the file, size and ext as they were set, the      *)
(* lengths of buffer and footer, and the flags of the code.                *)

severity(v) ==
  IF v \in {"Ok", "Skipped"} THEN 0 ELSE IF v = "Suspect" THEN 1 ELSE 3

-----------------------------------------------------------------------------
(* What FileReader makes of a file: an empty one is mapped as well, and a  *)
(* stream hands over what can be read before it fails.                     *)
MappedFile(file) == [ok |-> file.opens, size |-> file.size]
stream_file(file) == [failed |-> ~file.opens \/ file.readable < file.size,
                      got |-> IF file.opens THEN file.readable ELSE 0]

minBytes ==
  (".png" :> 8) @@ (".zip" :> 22) @@ (".gz" :> 18) @@ (".jpg" :> 4) @@
  (".jpeg" :> 4) @@ (".pdf" :> 5) @@ (".docx" :> 22) @@ (".xlsx" :> 22)

(* Faulty: an empty file is as good as any without a least size.           *)
SizeDetectorEmptyOk(fc) ==
  IF fc.ext \in DOMAIN minBytes /\ fc.size < minBytes[fc.ext] THEN "Corrupt" ELSE "Ok"

SizeDetector(fc) ==
  IF fc.size = 0 THEN "Suspect"
  ELSE IF fc.ext \in DOMAIN minBytes /\ fc.size < minBytes[fc.ext] THEN "Corrupt"
  ELSE "Ok"

(* Lengths of the signatures at the head and the tail.                     *)
kSigs ==
  (".png" :> <<8, 8>>) @@ (".jpg" :> <<3, 2>>) @@ (".jpeg" :> <<3, 2>>) @@
  (".gz" :> <<2, 0>>) @@ (".pdf" :> <<4, 0>>) @@ (".zip" :> <<4, 0>>)

MagicDetector(fc) ==
  LET inBuffer == fc.bufferLoaded /\ fc.buffer > 0
      size == IF inBuffer THEN fc.buffer ELSE fc.file.size
      headLen == kSigs[fc.ext][1]
      tailLen == kSigs[fc.ext][2]
      inFooter == fc.footerLoaded /\ fc.footer >= tailLen
      inData == ~fc.isStreaming /\ size >= tailLen
  IN  IF fc.ext \notin DOMAIN kSigs THEN "Skipped"
      ELSE IF ~inBuffer /\ ~MappedFile(fc.file).ok THEN "Unreadable"
      ELSE IF size < headLen \/ ~fc.file.head THEN "Suspect"
      ELSE IF tailLen = 0 THEN "Ok"
      ELSE IF inFooter \/ inData THEN IF fc.file.tail THEN "Ok" ELSE "Suspect"
      ELSE IF fc.isStreaming THEN "Unreadable"
      ELSE "Suspect"

(* The whole file is hashed from the buffer, or read again from the disk.  *)
IoHashDetector(fc) ==
  IF fc.hashValid THEN "Ok"
  ELSE IF fc.isPartial THEN "Skipped"
  ELSE IF fc.bufferLoaded /\ fc.buffer > 0 /\ ~fc.isStreaming THEN "Ok"
  ELSE IF stream_file(fc.file).failed THEN "Unreadable" ELSE "Ok"

(* After it the hash is valid, whether the read failed or not, unless it   *)
(* was left by an exception.  Without a byte to count the entropy stays    *)
(* unknown, that is 0.                                                     *)
AfterIoHash(fc, methods) ==
  IF fc.hashValid \/ fc.isPartial \/ "io" \in fc.file.throws THEN fc
  ELSE [fc EXCEPT !.hashValid = TRUE,
          !.entropyKnown = /\ "entropy" \in methods
                           /\ stream_file(fc.file).got > 0]

EntropyDetector(fc) ==
  IF fc.size > LargeBytes /\ (fc.entropyKnown => fc.file.dull) THEN "Suspect"
  ELSE "Ok"

(* What could not be read has another hash than the baseline as well.      *)
ManifestDetector(fc) ==
  IF ~fc.hashValid \/ fc.file.baseline = "none" THEN "Skipped"
  ELSE IF fc.file.baseline = "rot" \/ stream_file(fc.file).failed THEN "Corrupt"
  ELSE "Ok"

-----------------------------------------------------------------------------
(* PNG: chunks [type, upper, len, crcOk] of 12 bytes and their data, after *)
(* the signature; upper is whether bit 5 of the first letter of the type   *)
(* is 0.  A wrong checksum of an ancillary chunk ends the check.           *)
Critical(c) == c.upper

PngChunks(chunks, n) ==
  LET From[k \in 1..Len(chunks) + 1, off \in Nat, sawIHDR \in BOOLEAN] ==
        IF off + 12 > n \/ k > Len(chunks) THEN "Corrupt"
        ELSE LET c == chunks[k] IN
             IF off + 12 + c.len > n THEN "Corrupt"
             ELSE IF ~c.crcOk THEN IF Critical(c) THEN "Corrupt" ELSE "Suspect"
             ELSE IF c.type = "IHDR" /\ (sawIHDR \/ off # 8) THEN "Corrupt"
             ELSE IF c.type = "IEND" THEN IF sawIHDR THEN "Ok" ELSE "Corrupt"
             ELSE From[k + 1, off + 12 + c.len, sawIHDR \/ c.type = "IHDR"]
  IN  From[1, 8, FALSE]

(* PNG and ZIP look at the buffer when it holds the file.                  *)
InBuffer(fc) == fc.bufferLoaded /\ ~fc.isStreaming
Seen(fc) == IF InBuffer(fc) THEN fc.buffer ELSE fc.file.size

PngDetector(fc) ==
  IF ~InBuffer(fc) /\ ~MappedFile(fc.file).ok THEN "Unreadable"
  ELSE IF Seen(fc) < 8 \/ ~fc.file.head THEN "Corrupt"
  ELSE PngChunks(fc.file.body, Seen(fc))

(* Faulty: the byte after 255 is not looked at.                            *)
NextMarkerStuffed(p, from) ==
  LET M == {k \in from..Len(p) - 2 : p[k + 1] = 255}
  IN  IF M = {} THEN Len(p) ELSE CHOOSE k \in M : \A m \in M : k <= m

(* JPEG: from marker to marker.  After a start of scan (218) the next byte *)
(* 255 that no 0 follows is looked for.  All markers from 192 to 254 are   *)
(* taken to have a length, the restart markers 208 to 215 among them.      *)
NextMarker(p, from) ==
  LET M == {k \in from..Len(p) - 2 : p[k + 1] = 255 /\ p[k + 2] # 0}
  IN  IF M = {} THEN Len(p) ELSE CHOOSE k \in M : \A m \in M : k <= m

JpegMarkers(p) ==
  LET From[off \in Nat] ==
        IF off + 2 > Len(p) \/ p[off + 1] # 255 THEN "Suspect"
        ELSE LET marker == p[off + 2] IN
             IF marker = 217 THEN "Ok"
             ELSE IF marker \in 192..254 \/ marker = 1
             THEN IF off + 4 > Len(p) THEN "Corrupt"
                  ELSE LET next == off + 2 + 256 * p[off + 3] + p[off + 4] IN
                       IF next > Len(p) THEN "Corrupt"
                       ELSE From[IF marker = 218 THEN NextMarker(p, next) ELSE next]
             ELSE From[off + 2]
  IN  From[2]

JpegDetector(fc) ==
  LET p == fc.file.body IN
  IF ~MappedFile(fc.file).ok THEN "Unreadable"
  ELSE IF Len(p) < 4 \/ p[1] # 255 \/ p[2] # 216 THEN "Corrupt"
  ELSE JpegMarkers(p)

(* MP4: boxes [type, len, large].  A box of length 0 goes to the end of    *)
(* the file; the loop leaves at it before it has noted its type.           *)
Mp4Boxes(boxes, n) ==
  LET From[k \in 1..Len(boxes) + 1, off \in Nat, saw \in SUBSET STRING] ==
        IF off + 8 > n \/ k > Len(boxes) \/ boxes[k].len = 0
           \/ (boxes[k].len = 1 /\ off + 16 <= n /\ boxes[k].large = 0)
        THEN IF {"ftyp", "moov"} \subseteq saw THEN "Ok" ELSE "Corrupt"
        ELSE LET b == boxes[k]
                 len == IF b.len = 1 THEN b.large ELSE b.len
                 least == IF b.len = 1 THEN 16 ELSE 8
             IN  IF off + least > n \/ len < least \/ off + len > n THEN "Corrupt"
                 ELSE From[k + 1, off + len, saw \cup {b.type}]
  IN  From[1, 0, {}]

Mp4Detector(fc) ==
  IF ~MappedFile(fc.file).ok THEN "Unreadable"
  ELSE IF fc.file.size < 8 THEN "Corrupt"
  ELSE Mp4Boxes(fc.file.body, fc.file.size)

(* Only the header of these is looked at.                                  *)
HeaderDetector(fc, headLen) ==
  IF ~MappedFile(fc.file).ok THEN "Unreadable"
  ELSE IF fc.file.size < headLen \/ ~fc.file.head THEN "Corrupt" ELSE "Ok"
MkvDetector(fc) == HeaderDetector(fc, 4)
FlacDetector(fc) == HeaderDetector(fc, 4)
SqliteDetector(fc) == HeaderDetector(fc, 16)

(* PDF: tokens [is, at, value].  The first startxref near the end is the   *)
(* one that counts; it must point to a token xref or to a digit.           *)
PdfTokens(p, n) ==
  LET tail == {k \in DOMAIN p : p[k].at >= n - Lookback}
      In(word) == {k \in tail : p[k].is = word}
      first == CHOOSE k \in In("startxref") : \A m \in In("startxref") : k <= m
      target == {t \in DOMAIN p : p[t].at = p[first + 1].value
                                   /\ p[t].is \in {"xref", "number"}}
  IN  /\ In("%%EOF") # {}
      /\ In("startxref") # {}
      /\ first < Len(p) /\ p[first + 1].is = "number"
      /\ p[first + 1].value \in 1..n - 4 /\ target # {}
      /\ In("trailer") \cup In("obj") # {}

PdfDetector(fc) ==
  IF ~MappedFile(fc.file).ok THEN "Unreadable"
  ELSE IF /\ fc.file.size >= 5 /\ fc.file.head
          /\ PdfTokens(fc.file.body, fc.file.size)
       THEN "Ok"
       ELSE "Corrupt"

(* ZIP: entries by what miniz says of them; one that fails decides, and    *)
(* what cannot be verified makes the archive suspect.                      *)
ZipEntries(entries) ==
  IF {"no stat", "bad"} \cap Range(entries) # {} THEN "Corrupt"
  ELSE IF {"encrypted", "other method"} \cap Range(entries) # {} THEN "Suspect"
  ELSE "Ok"

ZipDetector(fc) ==
  IF ~InBuffer(fc) /\ ~MappedFile(fc.file).ok THEN "Unreadable"
  ELSE IF Seen(fc) < fc.file.size \/ ~fc.file.tail THEN "Corrupt"
  ELSE ZipEntries(fc.file.body)

(* GZIP: miniz takes windows of 15 bits, with or without its own header,   *)
(* and refuses the 16 + 15 that asks zlib for gzip; the loop that inflates *)
(* is never entered.                                                       *)
InflateInit(windowBits) == windowBits \in {15, -15}

GzipDetector(fc) ==
  IF ~MappedFile(fc.file).ok THEN "Unreadable"
  ELSE IF fc.file.size < 18 \/ ~fc.file.head THEN "Corrupt"
  ELSE IF ~InflateInit(16 + 15) THEN "Skipped"
  ELSE IF fc.file.tail THEN "Ok" ELSE "Corrupt"

-----------------------------------------------------------------------------
(* The extensions a detector applies to; the others apply to every file,   *)
(* the manifest when one is loaded.                                        *)
Extensions ==
  {<<"png", {".png"}>>, <<"gzip", {".gz"}>>,
   <<"zip", {".zip", ".docx", ".xlsx", ".jar", ".apk"}>>,
   <<"jpeg", {".jpg", ".jpeg"}>>, <<"pdf", {".pdf"}>>,
   <<"mp4", {".mp4", ".m4v", ".mov"}>>, <<"mkv", {".mkv", ".webm"}>>,
   <<"flac", {".flac"}>>, <<"sqlite", {".sqlite", ".db", ".sqlite3"}>>}

Applies(det, fc, manifestLoaded) ==
  /\ \A pair \in Extensions : pair[1] = det => fc.ext \in pair[2]
  /\ det = "manifest" => manifestLoaded

Cost(det) ==
  IF det = "size" THEN 0 ELSE IF det = "magic" THEN 1
  ELSE IF det \in {"io", "sqlite", "manifest", "entropy"} THEN 3 ELSE 2

ByMethod(c) ==
  LET If(wanted, s) == IF wanted THEN s ELSE <<>>
      M(name) == name \in c.methods
  IN  If(M("size"), <<"size">>) \o If(M("magic"), <<"magic">>)
      \o If(M("io") \/ M("manifest") \/ M("entropy") \/ c.writeManifest, <<"io">>)
      \o If(M("struct"), <<"png", "gzip", "zip", "jpeg", "pdf", "mp4", "mkv",
                           "flac", "sqlite">>)
      \o If(M("manifest"), <<"manifest">>) \o If(M("entropy"), <<"entropy">>)

(* The place of the k-th detector of s when they are sorted by cost.       *)
(* Faulty: a sort that is not stable turns equal costs round.              *)
PlaceUnstable(s, k) ==
  Cardinality({j \in DOMAIN s : \/ Cost(s[j]) < Cost(s[k])
                                \/ Cost(s[j]) = Cost(s[k]) /\ j >= k})

(* Detectors of equal cost keep their order.                               *)
Place(s, k) ==
  Cardinality({j \in DOMAIN s : \/ Cost(s[j]) < Cost(s[k])
                                \/ Cost(s[j]) = Cost(s[k]) /\ j <= k})

build_pipeline(c) ==
  LET s == ByMethod(c)
  IN  [n \in DOMAIN s |-> s[CHOOSE k \in DOMAIN s : Place(s, k) = n]]

Check(det, fc) ==
  IF det \in fc.file.throws THEN "Unreadable"
  ELSE IF det = "size" THEN SizeDetector(fc)
  ELSE IF det = "magic" THEN MagicDetector(fc)
  ELSE IF det = "io" THEN IoHashDetector(fc)
  ELSE IF det = "png" THEN PngDetector(fc)
  ELSE IF det = "gzip" THEN GzipDetector(fc)
  ELSE IF det = "zip" THEN ZipDetector(fc)
  ELSE IF det = "jpeg" THEN JpegDetector(fc)
  ELSE IF det = "pdf" THEN PdfDetector(fc)
  ELSE IF det = "mp4" THEN Mp4Detector(fc)
  ELSE IF det = "mkv" THEN MkvDetector(fc)
  ELSE IF det = "flac" THEN FlacDetector(fc)
  ELSE IF det = "sqlite" THEN SqliteDetector(fc)
  ELSE IF det = "manifest" THEN ManifestDetector(fc)
  ELSE EntropyDetector(fc)

(* Faulty: the last verdict of a detector wins, whatever came before.      *)
WorseLast(worst, v) == IF v = "Skipped" THEN worst ELSE v

(* The more severe of two verdicts, the first when they are as severe.     *)
Worse(worst, v) == IF severity(v) > severity(worst) THEN v ELSE worst

(* The loop of a worker over its pipeline, up to the first Corrupt unless  *)
(* --all-checks: the worst verdict so far and what is known of the file.   *)
RunDetector(det, state, c, manifestLoaded) ==
  IF (state.worst = "Corrupt" /\ ~c.allChecks) \/ ~Applies(det, state.fc, manifestLoaded)
  THEN state
  ELSE [worst |-> Worse(state.worst, Check(det, state.fc)),
        fc |-> IF det = "io" THEN AfterIoHash(state.fc, c.methods) ELSE state.fc]

Judge(pipeline, fc, c, manifestLoaded) ==
  LET After[n \in 0..Len(pipeline)] ==
        IF n = 0 THEN [worst |-> "Ok", fc |-> fc]
        ELSE RunDetector(pipeline[n], After[n - 1], c, manifestLoaded)
  IN  After[Len(pipeline)].worst

=============================================================================
