------------------------------- MODULE Session -------------------------------
(***************************************************************************)
(* A run of the program as its user sees it: wmain of main.cpp from the    *)
(* command line to the exit code.  A file is scanned in one step here;     *)
(* ScanPipeline has the threads and queues of a pass, Manifest the times   *)
(* and hashes, ReviewUI what follows.                                      *)
(***************************************************************************)
EXTENDS CommandLine, Detectors, Crc32c

CONSTANTS
  Setups,       \* the runs considered
  FileAt,       \* the files of all runs, a sequence: a file is its number
  ByteAt(_),    \* the k-th byte of a file
  NoPath        \* the path of a context that was moved from

(* A run is given                                                          *)
(*   argv      the command line                                            *)
(*   files     the numbers of the files the walk finds.  Detectors says    *)
(*             what a file has; besides, whether the scan cache knows its  *)
(*             mtime, and its state, "whole" or "damaged"                  *)
(*   device    [seek, bench, disks, cpus]: what the system says of the     *)
(*             disk and the machine; [sse, address]: the instructions it   *)
(*             has and where its buffers lie                               *)
(*   mayQuit   whether SIGINT may come                                     *)
ASSUME SessionAssumption ==
  /\ \A s \in Setups :
       /\ s.argv \in Seq(STRING)
       /\ s.files \subseteq DOMAIN FileAt
       /\ s.device.disks \in Nat /\ s.device.cpus \in Nat /\ s.device.address \in Nat
  /\ NoPath \notin DOMAIN FileAt
  /\ \A f \in DOMAIN FileAt :
       /\ FileAt[f].size \in Nat /\ FileAt[f].readable \in 0..FileAt[f].size
       /\ FileAt[f].state \in {"whole", "damaged"}
       /\ \A k \in 1..FileAt[f].size : ByteAt(k) \in Bytes

VARIABLES
  setup,                          \* which of the Setups; fixed
  pc, isSsd, pass, todo, quit,
  scanned,                        \* every result, flagged or not
  findings, flagged,
  saved, exit                     \* the file save_manifest wrote; exit code

sessionVars == <<setup, pc, isSsd, pass, todo, quit, scanned, findings, flagged, saved, exit>>
vars == <<commandLineVars, sessionVars>>

D == setup.device

Init ==
  /\ setup \in Setups
  /\ argv = setup.argv /\ i = 1 /\ cfg = Default /\ rootSet = FALSE
  /\ pc = "parse" /\ isSsd = TRUE /\ pass = "none" /\ todo = {} /\ quit = FALSE
  /\ scanned = {} /\ findings = {} /\ flagged = 0
  /\ saved = NoPath /\ exit = 0

Parse == pc = "parse" /\ ParseWord /\ UNCHANGED sessionVars

Leave ==
  /\ pc = "parse" /\ ~Parsed /\ argv[i] \in Leaves
  /\ pc' = "done"
  /\ UNCHANGED <<commandLineVars, setup, isSsd, pass, todo, quit, scanned, findings,
                 flagged, saved, exit>>

-----------------------------------------------------------------------------
(* The walk leaves out what the scan cache knows the mtime of.             *)
Unchanged(f) == cfg.scanCachePath # "" /\ FileAt[f].cached

(* What DiskUtils finds out about the disk.  A benchmark that cannot be    *)
(* made says there is a penalty.                                           *)
device_has_seek_penalty == D.seek = "yes"
known == D.seek # "unknown"

(* Faulty: a benchmark that cannot be made says SSD.                       *)
run_seek_benchmark_hopeful == D.bench = "slow"

run_seek_benchmark == D.bench \in {"slow", "cannot"}
get_volume_disk_numbers == 1..D.disks

StartUp ==
  /\ pc = "parse" /\ Parsed
  /\ isSsd' = IF cfg.diskProfile = "Auto"
              THEN IF known THEN ~device_has_seek_penalty ELSE ~run_seek_benchmark
              ELSE cfg.diskProfile # "Hdd"
  /\ cfg' = [cfg EXCEPT
       !.threads = IF @ = 0 THEN Max({IF isSsd' THEN 2 ELSE 1, D.cpus}) ELSE @,
       !.readers = IF ~isSsd' /\ @ = 0
                   THEN Max({1, Cardinality(get_volume_disk_numbers)}) ELSE @]
  /\ pass' = IF cfg.headerFirst THEN "header" ELSE "full"
  /\ todo' = {f \in setup.files : ~Unchanged(f)}
  /\ pc' = "scan"
  /\ UNCHANGED <<argv, i, rootSet, setup, quit, scanned, findings, flagged, saved, exit>>

(* The file named is taken to be there; load_manifest passes over one that *)
(* cannot be opened, and nothing is compared then.                         *)
manifestLoaded == cfg.manifestPath # "" /\ ~cfg.writeManifest

-----------------------------------------------------------------------------
(* The context of a file; a second pass makes it from the path alone.      *)
Context(f) ==
  [path |-> f, file |-> f,
   size |-> IF pass = "second" THEN 0 ELSE FileAt[f].size,
   ext |-> IF pass = "second" THEN "" ELSE FileAt[f].ext,
   buffer |-> 0, footer |-> 0, bufferLoaded |-> FALSE, footerLoaded |-> FALSE,
   isStreaming |-> FALSE, isPartial |-> FALSE, hashValid |-> FALSE,
   entropyKnown |-> FALSE, parts |-> <<>>]

(* What the detectors find behind a path: an empty one cannot be opened    *)
(* and is in no manifest.                                                  *)
Opened(fc) ==
  [fc EXCEPT !.file = IF fc.path # NoPath THEN FileAt[fc.file]
                      ELSE [FileAt[fc.file] EXCEPT !.opens = FALSE, !.baseline = "none"]]

Block == cfg.hddBlockSize
Least(a, b) == IF a < b THEN a ELSE b
Part(from, to) == [k \in 1..to - from |-> ByteAt(from + k)]

(* Header pass of an HDD scan: the first block, and the last one of a file *)
(* longer than that.  A block of no bytes has no buffer.                   *)
HeaderContext(f) ==
  LET size == FileAt[f].size
      readable == FileAt[f].readable
      got == Least(Block, readable)
      footerOff == size - Block
      fgot == IF readable > footerOff THEN readable - footerOff ELSE 0
      header == [Context(f) EXCEPT !.isPartial = TRUE, !.isStreaming = size > Block,
                   !.buffer = got, !.bufferLoaded = Block > 0, !.parts = <<Part(0, got)>>]
  IN  IF size <= Block \/ Block = 0 THEN header
      ELSE [header EXCEPT !.footer = fgot, !.footerLoaded = TRUE,
              !.parts = Append(@, Part(footerOff, footerOff + fgot))]

(* Full pass of an HDD scan: a file of one block arrives with its content. *)
(* Of a longer one the first block stays behind without a last chunk, and  *)
(* the others make up a file of their own with an empty path.  The hash is *)
(* taken on the way when the entropy method counts bytes.                  *)
FullContext(f) ==
  LET size == Context(f).size
      from == IF size > Block THEN Block ELSE 0
      counted == "entropy" \in cfg.methods /\ size > from
      blocks == from \div Block..(IF size = 0 THEN 0 ELSE (size - 1) \div Block)
      whole == [Context(f) EXCEPT !.buffer = size - from, !.bufferLoaded = TRUE,
                  !.hashValid = counted, !.entropyKnown = counted,
                  !.parts = [k \in 1..Cardinality(blocks) |->
                     LET at == from + (k - 1) * Block
                     IN  Part(at, Least(size, at + Block))]]
  IN  IF from = 0 THEN whole
      ELSE [whole EXCEPT !.path = NoPath, !.size = 0, !.ext = ""]

(* What reaches the last chunk of a file: the name alone when nothing is   *)
(* read, nothing when a read fails later.                                  *)
Contexts(f) ==
  IF isSsd \/ ~FileAt[f].opens THEN {Context(f)}
  ELSE IF pass = "header" THEN {HeaderContext(f)}
  ELSE IF FileAt[f].readable = 0 \/ Block = 0
  THEN {[Context(f) EXCEPT !.isStreaming = Context(f).size > Block]}
  ELSE IF FileAt[f].readable < Context(f).size THEN {}
  ELSE {FullContext(f)}

crcOf(fc) ==
  Through(fc.parts, {}, [crc \in Registers |-> [part \in Seq(Bytes) |->
                           crc32c(D.sse, crc, part, D.address)]])

Result(fc) ==
  [pass |-> pass, fc |-> fc, crc |-> crcOf(fc),
   worst |-> Judge(build_pipeline(cfg), Opened(fc), cfg, manifestLoaded)]

(* Faulty: a file of just the greatest size is left out.                   *)
WithinMaxSizeOff(fc) == ~(cfg.maxFileBytes # 0 /\ fc.size >= cfg.maxFileBytes)

WithinMaxSize(fc) == ~(cfg.maxFileBytes # 0 /\ fc.size > cfg.maxFileBytes)

ScanFile(f) ==
  /\ pc = "scan" /\ ~quit /\ f \in todo
  /\ todo' = todo \ {f}
  /\ LET results == {Result(fc) : fc \in {c \in Contexts(f) : WithinMaxSize(c)}}
         bad == {r \in results : severity(r.worst) >= 1}
     IN  /\ scanned' = scanned \cup results
         /\ findings' = findings \cup bad
         /\ flagged' = flagged + Cardinality(bad)
  /\ UNCHANGED <<commandLineVars, setup, pc, isSsd, pass, quit, saved, exit>>

(* The second pass takes the paths the first has flagged; its findings     *)
(* replace the first ones.  A scan that is interrupted leaves the rest.    *)
EndPass ==
  /\ pc = "scan" /\ (todo = {} \/ quit)
  /\ IF pass = "header" /\ findings # {}
     THEN /\ pass' = "second"
          /\ todo' = {f \in setup.files : \E r \in findings : r.fc.path = f}
          /\ findings' = {}
          /\ UNCHANGED pc
     ELSE /\ pc' = "finish" /\ todo' = {}
          /\ UNCHANGED <<pass, findings>>
  /\ UNCHANGED <<commandLineVars, setup, isSsd, quit, scanned, flagged, saved, exit>>

(* Faulty: the exit code is the number of findings.                        *)
ExitCodeCount == flagged

ExitCode == IF flagged > 0 THEN 1 ELSE 0

Finish ==
  /\ pc = "finish"
  /\ saved' = IF cfg.writeManifest /\ cfg.manifestPath # "" THEN cfg.manifestPath
              ELSE NoPath
  /\ exit' = ExitCode
  /\ pc' = "done"
  /\ UNCHANGED <<commandLineVars, setup, isSsd, pass, todo, quit, scanned, findings,
                 flagged>>

Sigint ==
  /\ setup.mayQuit /\ pc = "scan" /\ ~quit
  /\ quit' = TRUE
  /\ UNCHANGED <<commandLineVars, setup, pc, isSsd, pass, todo, scanned, findings,
                 flagged, saved, exit>>

Done == pc = "done" /\ UNCHANGED vars

Next ==
  \/ Parse \/ Leave \/ StartUp
  \/ \E f \in setup.files : ScanFile(f)
  \/ EndPass \/ Finish \/ Sigint \/ Done

Spec == Init /\ [][Next]_vars

-----------------------------------------------------------------------------
(* The run stays in its phases, and a finding is a flagged result.         *)
TypeOK ==
  /\ pc \in {"parse", "scan", "finish", "done"}
  /\ pass \in {"none", "header", "full", "second"}
  /\ i \in 1..Len(argv) + 2 /\ cfg.threads \in Nat /\ cfg.readers \in Nat
  /\ todo \subseteq setup.files /\ findings \subseteq scanned
  /\ flagged <= Cardinality(scanned) /\ exit \in {0, 1}

(* When all words are read, the configuration is the one the whole line    *)
(* says, field by field: the first word that is neither option nor value   *)
(* is the root, switches hold wherever they stand, the last mode, number,  *)
(* name and choice win, --methods starts the list anew and --manifest adds *)
(* to it; a word used as a value is never an option as well.  StartUp puts *)
(* a number of threads or readers of its own only where the line says 0.   *)
ParsedAsRead ==
  Parsed =>
    /\ cfg.allChecks <=> IsOn("--all-checks")
    /\ cfg.includeSuspect <=> IsOn("--include-suspect")
    /\ cfg.permanent <=> IsOn("--permanent")
    /\ cfg.assumeYes <=> IsOn("--yes")
    /\ cfg.forceSystem <=> IsOn("--force-system")
    /\ cfg.noProgress <=> IsOn("--no-progress")
    /\ cfg.followLinks <=> IsOn("--follow-links")
    /\ cfg.physicalOrder <=> IsOn("--physical-order")
    /\ cfg.noCache <=> IsOn("--no-cache")
    /\ cfg.headerFirst <=> IsOn("--header-first")
    /\ LET m == Options({"--delete-all", "--report-only"}) IN
         cfg.deleteMode = IF m = {} THEN "Interactive"
                          ELSE IF argv[LastOf(m)] = "--delete-all" THEN "All" ELSE "None"
    /\ LET r == {k \in DOMAIN argv : argv[k] \notin Dashed /\ ~IsValue[k]} IN
         cfg.root = IF r = {} THEN Default.root
                    ELSE argv[CHOOSE k \in r : \A m \in r : k <= m]
    /\ cfg.auditLogPath = ValueOf({"--audit-log"})
    /\ cfg.scanCachePath = ValueOf({"--scan-cache"})
    /\ cfg.reportPath = ValueOf({"--report"})
    /\ cfg.manifestPath = ValueOf({"--manifest", "--write-manifest"})
    /\ cfg.writeManifest <=> Valued({"--write-manifest"}) # {}
    /\ LET o == Valued({"--methods"})
           base == IF o = {} THEN Default.methods ELSE ListOf(ValueOf({"--methods"}))
           added == {k \in Valued({"--manifest"}) : \A m \in o : m < k}
       IN  cfg.methods = base \cup (IF added = {} THEN {} ELSE {"manifest"})
    /\ cfg.maxFileBytes = NumberAt("--max-size", 0)
    /\ cfg.hddBlockSize = NumberAt("--hdd-block-size", Default.hddBlockSize)
    /\ LET n == NumberAt("--threads", 0) IN
         pc = "parse" \/ n # 0 => cfg.threads = n
    /\ LET n == NumberAt("--readers", 0) IN
         pc = "parse" \/ n # 0 => cfg.readers = n
    /\ cfg.mftEnum <=> ValueOf({"--mft-enum"}) # "off"
    /\ LET word == ValueOf({"--disk-profile"}) IN
         /\ cfg.diskProfile = "Hdd" <=> word = "hdd"
         /\ cfg.diskProfile = "Ssd" <=> word = "ssd"
         /\ cfg.diskProfile = "Network" <=> word = "network"
         /\ cfg.diskProfile = "Auto" <=> word \notin {"hdd", "ssd", "network"}
    /\ LET word == ValueOf({"--format"}) IN
         /\ cfg.format = "Json" <=> word = "json"
         /\ cfg.format = "Csv" <=> word = "csv"
         /\ cfg.format = "Text" <=> word \notin {"json", "csv"}

(* Each worker queue and the reader queue have a thread, whatever the      *)
(* system says of processors and disks; a disk nothing is known of is read *)
(* the way that is safe for an HDD (DiskUtils.cpp:52).                     *)
ThreadsForTheDisk ==
  pc \in {"scan", "finish"} =>
    /\ cfg.threads >= 1
    /\ ~isSsd => cfg.readers >= 1
    /\ cfg.diskProfile = "Auto" /\ D.seek = "unknown" /\ D.bench = "cannot" => ~isSsd

(* The checksum carried from chunk to chunk is the one of the bytes        *)
(* together, by table or by instructions, wherever the buffer lies.        *)
ChecksumOfParts ==
  \A r \in scanned : LET bytes == FlattenSeq(r.fc.parts) IN
    /\ r.crc = Reference(PolyC, bytes)
    /\ crc32_ieee({}, bytes) = Reference(PolyIeee, bytes)

(* Whole files that are flagged all the same: an empty file, an archive    *)
(* with an entry miniz cannot read, a JPEG with restart markers, an MP4    *)
(* whose moov box goes to the end of the file, a PDF whose first startxref *)
(* is the 0 of a linearized one.                                           *)
FalseAlarm(g) == LET f == FileAt[g] IN
  \/ f.size = 0
  \/ f.ext \in {".zip", ".docx", ".xlsx", ".jar", ".apk"}
       /\ {"encrypted", "other method"} \cap Range(f.body) # {}
  \/ f.ext = ".jpg" /\ \E k \in 1..Len(f.body) - 1 :
       f.body[k] = 255 /\ f.body[k + 1] \in 208..215
  \/ f.ext = ".mp4" /\ \E k \in DOMAIN f.body :
       f.body[k].type = "moov" /\ f.body[k].len = 0
  \/ f.ext = ".pdf" /\ \E k \in DOMAIN f.body : f.body[k] = [is |-> "number",
       at |-> f.body[k].at, value |-> 0]

(* Damage that is not seen: in a GZIP file behind its header, which miniz  *)
(* is never made to read; in the data of a JPEG that has its last marker;  *)
(* in an MP4 cut between two boxes, after moov, or with all of them, in    *)
(* their data; in a file of which only the header is looked at.            *)
Missed(g) == LET f == FileAt[g] IN
  \/ f.ext = ".jpg" /\ Len(f.body) >= 2
       /\ SubSeq(f.body, Len(f.body) - 1, Len(f.body)) = <<255, 217>>
  \/ f.ext \in {".gz", ".mkv", ".flac", ".db"} /\ f.head
  \/ f.ext = ".mp4" /\ \E k \in DOMAIN f.body :
       f.size = FoldLeft(LAMBDA a, b : a + b.len, 0, SubSeq(f.body, 1, k))

(* With the methods of the default and blocks that hold a signature, a     *)
(* file is flagged when it is damaged and not when it is whole, apart from *)
(* the cases named.                                                        *)
VerdictFits ==
  isSsd \/ Block >= 8 =>
  \A r \in scanned : LET f == r.fc.file IN
    r.pass # "second" /\ r.fc.path # NoPath /\ cfg.methods = Default.methods =>
      /\ FileAt[f].state = "whole" /\ ~FalseAlarm(f) => severity(r.worst) = 0
      /\ FileAt[f].state = "damaged" /\ ~Missed(f) => severity(r.worst) >= 1

(* The short circuit, the order of the pipeline and the merge do not       *)
(* matter: the severity kept is the greatest that any detector of the run  *)
(* gives the file, those that need the hash having it.                     *)
VerdictIsWorst ==
  \A r \in scanned :
    LET fc == Opened(r.fc)
        on == {d \in Range(build_pipeline(cfg)) : Applies(d, fc, manifestLoaded)}
        seen(d) == IF d \in {"manifest", "entropy"} /\ "io" \in on
                   THEN AfterIoHash(fc, cfg.methods) ELSE fc
    IN  severity(r.worst) = Max({0} \cup {severity(Check(d, seen(d))) : d \in on})

(* Files an HDD scan never judges by their name: those longer than a block *)
(* in a full pass, and those a read fails in the middle of.                *)
NeverJudged(f) ==
  ~isSsd /\ Block > 0 /\ FileAt[f].opens /\ FileAt[f].readable > 0
    /\ (FileAt[f].size > Block \/ FileAt[f].readable < FileAt[f].size)

TooLarge(f) == cfg.maxFileBytes # 0 /\ FileAt[f].size > cfg.maxFileBytes

(* A scan in one pass judges every file that is due once, and tells by its *)
(* exit code whether there are findings.                                   *)
EachFileOnce ==
  pc = "done" /\ pass = "full" /\ ~quit =>
    /\ \A f \in setup.files :
         Cardinality({r \in scanned : r.fc.path = f}) =
           IF Unchanged(f) \/ TooLarge(f) \/ NeverJudged(f) THEN 0 ELSE 1
    /\ exit = IF findings = {} THEN 0 ELSE 1
    /\ flagged = Cardinality(findings)

(* The second pass knows neither size nor type of a file; with the size    *)
(* method what the first pass has flagged is a finding still.              *)
FlaggedStays ==
  pc = "done" /\ pass = "second" /\ ~quit /\ "size" \in cfg.methods =>
    \A r \in scanned : r.pass = "header" /\ severity(r.worst) >= 1 =>
      \E x \in findings : x.fc.path = r.fc.path

(* --manifest, wherever it stands before or after other options, leads to  *)
(* a finding for every file whose content has rotted, unless its mtime is  *)
(* in the scan cache, the header pass on an HDD has left it unhashed, the  *)
(* run was to write a manifest or to use other methods, or the name of the *)
(* manifest is empty.                                                      *)
RotIsFlagged ==
  pc = "done" /\ ~quit /\ Parsed /\ Valued({"--manifest"}) # {}
    /\ argv[LastOf(Valued({"--manifest"})) + 1] # ""
    /\ Valued({"--write-manifest"}) = {}
    /\ (\A k \in Valued({"--methods"}) : k < LastOf(Valued({"--manifest"})))
    /\ (isSsd \/ pass = "full") =>
    \A f \in setup.files :
      FileAt[f].baseline = "rot" /\ ~Unchanged(f) /\ ~NeverJudged(f) /\ ~TooLarge(f) =>
      \E r \in findings : r.fc.path = f

(* "Phase 2: Full pass on ... candidates" (main.cpp:297): what the first   *)
(* pass has found Corrupt or Unreadable is as severe after the second.     *)
PhasesAgree ==
  pc = "done" /\ pass = "second" /\ ~quit =>
    \A r \in scanned : r.pass = "header" /\ severity(r.worst) = 3 =>
      \E x \in findings : x.fc.path = r.fc.path /\ severity(x.worst) = 3

(* "--manifest <f>  Compare against baseline <f>" (Config.cpp:18): only a  *)
(* file named with --write-manifest is written.                            *)
BaselineKept ==
  saved # NoPath => \E k \in Valued({"--write-manifest"}) : argv[k + 1] = saved

=============================================================================
