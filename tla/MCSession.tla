------------------------------ MODULE MCSession ------------------------------
(***************************************************************************)
(* Runs over sample files, with the command lines, disks and machines that *)
(* make a difference.                                                      *)
(***************************************************************************)
EXTENDS Session

SomeLists == ("size,io" :> {"size", "io"}) @@ ("magic,struct" :> {"magic", "struct"})
               @@ ("size,magic,io,struct,entropy" :>
                     {"size", "magic", "io", "struct", "entropy"})
SomeNumbers == ("3" :> 3) @@ ("16" :> 16) @@ ("64" :> 64) @@ ("60" :> 60)
AllDashed == TakesValue \cup DOMAIN Switch \cup DOMAIN Mode
               \cup {"--help", "-h", "--version", "--unknown"}
BitsOf(n, width) == {b \in 0..width - 1 : (n \div 2 ^ b) % 2 = 1}
SomeByte(k) == BitsOf((5 * k + k \div 3) % 16, 4)
SomePolyC == BitsOf(611, 10)
SomePolyIeee == BitsOf(849, 10)

-----------------------------------------------------------------------------
(* A whole file of this type and size, read well.                          *)
File(ext, size, body) ==
  [ext |-> ext, size |-> size, body |-> body, readable |-> size,
   opens |-> TRUE, head |-> TRUE, tail |-> TRUE, dull |-> FALSE, baseline |-> "none",
   throws |-> {}, cached |-> FALSE, state |-> "whole"]
Damaged(f) == [f EXCEPT !.state = "damaged"]
Cut(f, n) == [Damaged(f) EXCEPT !.size = n, !.readable = n, !.tail = FALSE]
Cuts(f, lengths) == [k \in DOMAIN lengths |-> Cut(f, lengths[k])]

(* Types that begin with a lower-case letter; XyZz is one no reader knows. *)
Lower == {"tEXt"}
Chunk(type, len, crcOk) ==
  [type |-> type, upper |-> type \notin Lower, len |-> len, crcOk |-> crcOk]
Ihdr == Chunk("IHDR", 13, TRUE)
Iend == Chunk("IEND", 0, TRUE)
PngOf(c) == File(".png", 60, <<Ihdr, c, Iend>>)
Png == PngOf(Chunk("IDAT", 3, TRUE))
Pngs ==
  <<Png, PngOf(Chunk("tEXt", 3, TRUE)), PngOf(Chunk("XyZz", 3, TRUE)),
    Damaged(PngOf(Chunk("IDAT", 3, FALSE))), Damaged(PngOf(Chunk("XyZz", 3, FALSE))),
    Damaged(PngOf(Chunk("tEXt", 3, FALSE))), Damaged(PngOf(Chunk("IDAT", 900, TRUE))),
    Damaged(File(".png", 60, <<Chunk("IDAT", 3, TRUE), Ihdr, Iend>>)),
    [Damaged(Png) EXCEPT !.head = FALSE]>>
  \o Cuts(Png, <<0, 7, 8, 20, 33, 47, 48, 59>>)

Soi == <<255, 216>>
Eoi == <<255, 217>>
App == <<255, 224, 0, 3, 7>>
Scan(data) == <<255, 218, 0, 2>> \o data
Jpg(body) == File(".jpg", Len(body), body)
Jpeg == Jpg(Soi \o App \o Scan(<<9, 255, 0, 9>>) \o Eoi)
Jpegs ==
  <<Jpeg, Jpg(Soi \o Scan(<<9, 9>>) \o App \o Scan(<<255, 0>>) \o Eoi),
    Jpg(Soi \o Scan(<<9, 255, 208, 9, 9, 9>>) \o Eoi),
    Damaged(Jpg(Soi \o App \o Scan(<<9, 255, 0, 8>>) \o Eoi))>>
  \o [n \in 1..Jpeg.size |->
        [Cut(Jpeg, n - 1) EXCEPT !.body = SubSeq(Jpeg.body, 1, n - 1), !.head = (n > 3)]]

Box(type, len) == [type |-> type, len |-> len, large |-> 0]
Ftyp == Box("ftyp", 12)
Mp4 == File(".mp4", 50, <<Ftyp, Box("moov", 20), Box("mdat", 18)>>)
Mp4s ==
  <<Mp4, [Mp4 EXCEPT !.body[3].len = 0],
    [Mp4 EXCEPT !.body = <<Ftyp, Box("mdat", 18), Box("moov", 0)>>],
    [Mp4 EXCEPT !.body[3] = [type |-> "mdat", len |-> 1, large |-> 18]],
    [Damaged(Mp4) EXCEPT !.body[2] = [type |-> "moov", len |-> 1, large |-> 15]],
    [Damaged(Mp4) EXCEPT !.body[2].len = 7], Damaged(Mp4)>>
  \o Cuts(Mp4, <<7, 12, 15, 31, 32, 41, 49>>)

Token(is, at, value) == [is |-> is, at |-> at, value |-> value]
Pdf(first, second) ==
  File(".pdf", 64,
    <<Token("number", 6, 1), Token("obj", 10, 0), Token("startxref", 14, 0),
      Token("number", 24, first), Token("xref", 28, 0), Token("trailer", 34, 0),
      Token("startxref", 42, 0), Token("number", 52, second), Token("%%EOF", 56, 0)>>)
Pdfs ==
  <<Pdf(6, 28), Pdf(28, 28), Pdf(0, 28), Damaged(Pdf(61, 28)), Damaged(Pdf(35, 28)),
    [Cut(Pdf(28, 28), 56) EXCEPT !.body = SubSeq(@, 1, 8)],
    [Damaged(Pdf(28, 28)) EXCEPT !.head = FALSE]>>

Plain(size) == File(".txt", size, <<>>)
Others ==
  <<File(".zip", 40, <<"dir", "good", "good">>),
    Damaged(File(".zip", 40, <<"good", "encrypted", "bad">>)),
    Damaged(File(".docx", 40, <<"no stat">>)), Damaged(File(".jar", 40, <<"other method">>)),
    Cut(File(".zip", 40, <<"good">>), 30),
    File(".apk", 40, <<"good", "encrypted">>), File(".xlsx", 40, <<"other method", "dir">>),
    File(".gz", 30, <<>>), Cut(File(".gz", 30, <<>>), 25), Cut(File(".gz", 30, <<>>), 17),
    File(".mkv", 30, <<>>), File(".flac", 30, <<>>), File(".db", 30, <<>>),
    Cut(File(".mkv", 30, <<>>), 3), [Damaged(File(".flac", 30, <<>>)) EXCEPT !.head = FALSE],
    [Damaged(File(".db", 30, <<>>)) EXCEPT !.head = FALSE],
    Plain(37), Plain(0), Cut(Plain(30), 0),
    [Damaged(File(".zip", 30, <<>>)) EXCEPT !.throws = {"zip"}]>>

(* Files with more to them than their format.                              *)
Special ==
  <<[Plain(20) EXCEPT !.baseline = "rot"],
    [Plain(20) EXCEPT !.baseline = "rot", !.cached = TRUE],
    [Png EXCEPT !.baseline = "same"],
    Damaged([Png EXCEPT !.opens = FALSE]),
    Damaged([Plain(30) EXCEPT !.readable = 0]),
    Damaged([Plain(30) EXCEPT !.readable = 10, !.baseline = "same"]),
    [Plain(64) EXCEPT !.dull = TRUE],
    Cut(Png, 47)>>
Rotten == 1
Sound == 3
Truncated == 8

AllFiles == Special \o Pngs \o Jpegs \o Mp4s \o Pdfs \o Others
Samples == Len(Special) + 1..Len(AllFiles)

-----------------------------------------------------------------------------
Disk(seek, bench, disks, cpus) ==
  [seek |-> seek, bench |-> bench, disks |-> disks, cpus |-> cpus,
   sse |-> cpus > 1, address |-> (3 * cpus + disks) % 8]
SsdDisk == Disk("no", "cannot", 1, 4)
HddDisk == Disk("yes", "cannot", 2, 1)
HddSse == [HddDisk EXCEPT !.sse = TRUE, !.address = 5]

Run(words, files, device) ==
  [argv |-> words, files |-> files, device |-> device, mayQuit |-> FALSE]

(* Every sample alone, on an SSD and on an HDD.                            *)
SampleRuns ==
  {Run(<<"D:\\", "--hdd-block-size", "64">>, {f}, d) : f \in Samples, d \in {SsdDisk, HddSse}}

(* Every line of up to three of these words, over nothing.                 *)
SomeWords == {"D:\\", "size,io", "--methods", "--manifest", "--write-manifest", "--report",
          "--report-only", "--delete-all", "--yes", "--threads", "3", "--unknown"}
LineRuns == {Run(w, {}, SsdDisk) : w \in BoundedSeq(SomeWords, 3)}

(* Every two options, those that take a value with a word of their own.    *)
PairRuns ==
  {Run(<<o, p>>, {}, SsdDisk) :
     o \in DOMAIN Switch \cup DOMAIN Mode, p \in DOMAIN Switch \cup DOMAIN Mode}
  \cup {Run(<<o, v, p, w>>, {}, SsdDisk) :
          o \in TakesValue, v \in {"3", "hdd", "csv"},
          p \in TakesValue, w \in {"16", "off", "ssd", "json"}}

(* Every disk and machine.                                                 *)
DeviceRuns ==
  {Run(w, {Sound}, Disk(seek, bench, disks, cpus)) :
     w \in { <<>>, <<"--threads", "3", "--readers", "3">>, <<"--disk-profile", "hdd">>,
             <<"--disk-profile", "network">>, <<"--help">> },
     seek \in {"yes", "no", "unknown"}, bench \in {"slow", "fast", "cannot"},
     disks \in 0..2, cpus \in {0, 1, 3}}

(* Options that change what is found, over files of every kind.            *)
MixedRuns ==
  {Run(<<"--hdd-block-size", block>> \o w, {f, g}, d) :
     block \in {"none", "16", "64"}, f \in DOMAIN Special, g \in {Rotten, Truncated},
     d \in {SsdDisk, HddDisk, HddSse},
     w \in { <<>>, <<"--all-checks", "--manifest", "b">>,
             <<"--methods", "size,io", "--manifest", "b", "--scan-cache", "c">>,
             <<"--manifest", "b", "--header-first">>,
             <<"--header-first", "--methods", "size,magic,io,struct,entropy">>,
             <<"--methods", "size,magic,io,struct,entropy", "--max-size", "60">>,
             <<"--write-manifest", "b">>, <<"--header-first", "--methods", "magic,struct">> }}

(* Runs that are interrupted.                                              *)
QuitRuns ==
  {[Run(w, {Rotten, Sound, Truncated}, d) EXCEPT !.mayQuit = TRUE] :
     w \in { <<>>, <<"--header-first">> }, d \in {SsdDisk, HddDisk}}

AllRuns == SampleRuns \cup DeviceRuns \cup MixedRuns \cup QuitRuns
             \cup LineRuns \cup PairRuns

(* A truncated PNG in two passes; two manifests on a line.                 *)
TwoPassRuns == {r \in MixedRuns : "--header-first" \in Range(r.argv)}
TwoManifests == LineRuns \cup {Run(<<"--write-manifest", "n", "--manifest", "b">>, {}, SsdDisk)}

=============================================================================
