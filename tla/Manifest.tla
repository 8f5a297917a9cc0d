------------------------------ MODULE Manifest ------------------------------
(***************************************************************************)
(* The manifest and the scan cache over several runs of the program: what  *)
(* main.cpp records of a file, what ManifestDetector.cpp makes of it in a  *)
(* later run, and what the world does to the files in between and          *)
(* meanwhile.  A file is written (new content, new mtime), decays (new     *)
(* content, same mtime: bit-rot), or is locked.  Each worker handles its   *)
(* file in the order of the pipeline: the structural detectors look at the *)
(* content (cost 2), IoHashDetector hashes it and ManifestDetector         *)
(* compares (cost 3), and worker_proc records.                             *)
(***************************************************************************)
EXTENDS Integers, FiniteSets

CONSTANTS
  Files,
  Contents,    \* what a file may contain; a hash is the content hashed
  Broken,      \* the contents that a structural detector calls Corrupt
  NoHash,      \* the hash of a file that could not be read to its end
  MaxWrites,   \* bound: an mtime is the number of writes so far
  MaxRuns,     \* bound: runs of the program
  MayLock      \* whether a file may be locked by another program

Times == 0..MaxWrites
Hashes == Contents \cup {NoHash}
Modes == {"write", "compare", "plain"}

(* A line of the manifest and of the scan cache.  raced is history: the    *)
(* file was written between the walk and the recording.                    *)
Entries == [mtime : Times, hash : Hashes, raced : BOOLEAN]
CacheLines == [mtime : Times, raced : BOOLEAN]
NoEntry == [mtime |-> -1, hash |-> NoHash, raced |-> FALSE]
NoLine == [mtime |-> -1, raced |-> FALSE]

ASSUME ManifestAssumption ==
  /\ IsFiniteSet(Files)
  /\ Broken \subseteq Contents
  /\ NoHash \notin Contents
  /\ MaxWrites \in Nat /\ MaxRuns \in Nat
  /\ MayLock \in BOOLEAN

VARIABLES
  content, mtime, locked,     \* the files on disk
  decayed,                    \* history: decayed since it was last written
  manifest, cacheFile,        \* the two files the program keeps, per path
  run, runs,                  \* "off", "scan" or "saved"; number of runs
  mode, caching, quit,        \* --write-manifest / --manifest, --scan-cache
  gManifest, scanCache,       \* what the run has loaded (and added)
  collected,                  \* manifestCollected
  stage,                      \* how far the worker of each file is
  hash, hashValid, worst,     \* of its FileContext and its Finding
  alarm,                      \* files found to have "silent bit-rot"
  skipped,                    \* files left out because of the scan cache
  changed                     \* history: what happened to a file since Walk

diskVars == <<content, mtime, locked, decayed, changed>>
savedVars == <<manifest, cacheFile>>
runVars == <<run, runs, mode, caching, quit, gManifest>>
fileVars == <<hash, hashValid, worst>>
recordVars == <<scanCache, collected>>
vars == <<diskVars, savedVars, runVars, fileVars, recordVars, stage, alarm,
          skipped>>

Init ==
  /\ content \in [Files -> Contents]
  /\ mtime = [f \in Files |-> 0]
  /\ locked = {}
  /\ decayed = {}
  /\ manifest = [f \in Files |-> NoEntry]
  /\ cacheFile = [f \in Files |-> NoLine]
  /\ run = "off" /\ runs = 0
  /\ mode = "plain" /\ caching = FALSE /\ quit = FALSE
  /\ gManifest = [f \in Files |-> NoEntry]
  /\ scanCache = [f \in Files |-> NoLine]
  /\ collected = [f \in Files |-> NoEntry]
  /\ stage = [f \in Files |-> "done"]
  /\ hash = [f \in Files |-> NoHash]
  /\ hashValid = {}
  /\ worst = [f \in Files |-> "Ok"]
  /\ alarm = {} /\ skipped = {}
  /\ changed = [f \in Files |-> {}]

-----------------------------------------------------------------------------
(* The world, at any time.                                                 *)

(* Some program writes the file.                                           *)
Write(f) ==
  /\ mtime[f] < MaxWrites
  /\ \E c \in Contents : content' = [content EXCEPT ![f] = c]
  /\ mtime' = [mtime EXCEPT ![f] = @ + 1]
  /\ decayed' = decayed \ {f}
  /\ changed' = [changed EXCEPT ![f] = @ \cup {"write"}]
  /\ UNCHANGED <<locked, savedVars, runVars, fileVars, recordVars, stage, alarm,
                 skipped>>

(* The medium decays.                                                      *)
Decay(f) ==
  /\ f \notin decayed
  /\ \E c \in Contents \ {content[f]} : content' = [content EXCEPT ![f] = c]
  /\ decayed' = decayed \cup {f}
  /\ changed' = [changed EXCEPT ![f] = @ \cup {"decay"}]
  /\ UNCHANGED <<mtime, locked, savedVars, runVars, fileVars, recordVars, stage,
                 alarm, skipped>>

(* Some program opens the file for itself alone, or closes it again.       *)
Lock(f) ==
  /\ MayLock
  /\ locked' = IF f \in locked THEN locked \ {f} ELSE locked \cup {f}
  /\ UNCHANGED <<content, mtime, decayed, changed, savedVars, runVars, fileVars,
                 recordVars, stage, alarm, skipped>>

-----------------------------------------------------------------------------
(* The program.                                                            *)

(* Faulty: the baseline is loaded although one is to be written.           *)
LoadedIfNamed(m) ==
  IF m # "plain" THEN manifest ELSE [f \in Files |-> NoEntry]

(* load_manifest, unless the run is to write one.                          *)
Loaded(m) ==
  IF m = "compare" THEN manifest ELSE [f \in Files |-> NoEntry]

Launch(m, withCache) ==
  /\ run # "scan"
  /\ runs < MaxRuns
  /\ run' = "scan"
  /\ runs' = runs + 1
  /\ mode' = m /\ caching' = withCache /\ quit' = FALSE
  /\ gManifest' = Loaded(m)
  /\ scanCache' = IF withCache THEN cacheFile ELSE [f \in Files |-> NoLine]
  /\ collected' = [f \in Files |-> NoEntry]
  /\ stage' = [f \in Files |-> "walk"]
  /\ hash' = [f \in Files |-> NoHash]
  /\ hashValid' = {}
  /\ worst' = [f \in Files |-> "Ok"]
  /\ alarm' = {} /\ skipped' = {}
  /\ UNCHANGED <<diskVars, savedVars>>

Reaches(f, s) == stage' = [stage EXCEPT ![f] = s]

(* The callback of walk(): a file whose mtime the cache knows is left out. *)
Walk(f) ==
  /\ run = "scan" /\ ~quit
  /\ stage[f] = "walk"
  /\ IF scanCache[f].mtime = mtime[f]
       THEN Reaches(f, "done") /\ skipped' = skipped \cup {f}
       ELSE Reaches(f, "struct") /\ UNCHANGED skipped
  /\ changed' = [changed EXCEPT ![f] = {}]
  /\ UNCHANGED <<content, mtime, locked, decayed, savedVars, runVars, fileVars,
                 recordVars, alarm>>

(* The detectors of cost at most 2.  A Corrupt verdict ends the pipeline   *)
(* before the file is hashed, an Unreadable one does not.                  *)
CheckStructure(f) ==
  LET v == IF f \in locked THEN "Unreadable"
           ELSE IF content[f] \in Broken THEN "Corrupt" ELSE "Ok"
  IN
  /\ stage[f] = "struct"
  /\ worst' = [worst EXCEPT ![f] = v]
  /\ Reaches(f, IF v = "Corrupt" THEN "record" ELSE "io")
  /\ UNCHANGED <<diskVars, savedVars, runVars, hash, hashValid, recordVars,
                 alarm, skipped>>

(* IoHashDetector.  After a failed read the hash of what was read is kept  *)
(* and called valid all the same.                                          *)
Hash(f) ==
  /\ stage[f] = "io"
  /\ hashValid' = hashValid \cup {f}
  /\ IF f \in locked
       THEN /\ hash' = [hash EXCEPT ![f] = NoHash]
            /\ worst' = [worst EXCEPT ![f] = "Unreadable"]
       ELSE /\ hash' = [hash EXCEPT ![f] = content[f]]
            /\ UNCHANGED worst
  /\ Reaches(f, IF mode = "compare" THEN "manifest" ELSE "record")
  /\ UNCHANGED <<diskVars, savedVars, runVars, recordVars, alarm, skipped>>

(* Faulty: a file that was written since counts as decayed.                *)
IsRotAtAnyTime(f) == hash[f] # gManifest[f].hash

(* Faulty: an equal mtime is taken for equal content.                      *)
IsRotIfOlder(f) ==
  hash[f] # gManifest[f].hash /\ mtime[f] < gManifest[f].mtime

(* "content changed, mtime same"                                           *)
IsRot(f) == hash[f] # gManifest[f].hash /\ mtime[f] = gManifest[f].mtime

(* ManifestDetector::check; a Corrupt verdict does not replace an          *)
(* Unreadable one, which is as severe.                                     *)
Compare(f) ==
  LET found == gManifest[f] # NoEntry /\ IsRot(f) IN
  /\ stage[f] = "manifest"
  /\ worst' = [worst EXCEPT ![f] = IF found /\ @ = "Ok" THEN "Corrupt" ELSE @]
  /\ alarm' = IF found THEN alarm \cup {f} ELSE alarm
  /\ Reaches(f, "record")
  /\ UNCHANGED <<diskVars, savedVars, runVars, hash, hashValid, recordVars,
                 skipped>>

(* Faulty: whatever has been hashed goes into the cache.                   *)
CacheableAlways(f) == caching

Cacheable(f) == caching /\ worst[f] = "Ok"

(* The end of the loop body of worker_proc.                                *)
Record(f) ==
  LET raced == "write" \in changed[f]
      known == f \in hashValid
  IN
  /\ stage[f] = "record"
  /\ collected' = IF known /\ mode = "write"
       THEN [collected EXCEPT
              ![f] = [mtime |-> mtime[f], hash |-> hash[f], raced |-> raced]]
       ELSE collected
  /\ scanCache' = IF known /\ Cacheable(f)
       THEN [scanCache EXCEPT ![f] = [mtime |-> mtime[f], raced |-> raced]]
       ELSE scanCache
  /\ Reaches(f, "done")
  /\ UNCHANGED <<diskVars, savedVars, runVars, fileVars, alarm, skipped>>

(* SIGINT: what a worker has begun is finished, the rest is left out.      *)
Interrupt ==
  /\ run = "scan"
  /\ quit' = TRUE
  /\ UNCHANGED <<diskVars, savedVars, run, runs, mode, caching, gManifest,
                 fileVars, recordVars, stage, alarm, skipped>>

(* save_manifest: a baseline is replaced as a whole by what this run has   *)
(* collected, even if the run was interrupted.                             *)
SavedManifest == IF mode = "write" THEN collected ELSE manifest

(* The end of wmain.                                                       *)
Save ==
  /\ run = "scan"
  /\ \A f \in Files : stage[f] = "done" \/ (quit /\ stage[f] = "walk")
  /\ run' = "saved"
  /\ manifest' = SavedManifest
  /\ cacheFile' = IF caching THEN scanCache ELSE cacheFile
  /\ UNCHANGED <<diskVars, runs, mode, caching, quit, gManifest, fileVars,
                 recordVars, stage, alarm, skipped>>

(* The process is killed before it saves.                                  *)
Crash ==
  /\ run = "scan"
  /\ run' = "off"
  /\ stage' = [f \in Files |-> "done"]
  /\ UNCHANGED <<diskVars, savedVars, runs, mode, caching, quit, gManifest,
                 fileVars, recordVars, alarm, skipped>>

World == \E f \in Files : Write(f) \/ Decay(f) \/ Lock(f)

Program ==
  \/ \E m \in Modes, b \in BOOLEAN : Launch(m, b)
  \/ \E f \in Files : Walk(f) \/ CheckStructure(f) \/ Hash(f) \/ Compare(f)
                        \/ Record(f)
  \/ Interrupt \/ Save \/ Crash

Next == World \/ Program

Spec == Init /\ [][Next]_vars

-----------------------------------------------------------------------------
(* A run that does not compare has no baseline in memory, and only one     *)
(* that writes collects a new one (main.cpp:72, 263).                      *)
InItsMode ==
  \A f \in Files : /\ gManifest[f] # NoEntry => mode = "compare"
                   /\ collected[f] # NoEntry => mode = "write"

(* The types, and that the two maps of entries are used in their mode.     *)
TypeOK ==
  /\ content \in [Files -> Contents]
  /\ mtime \in [Files -> Times]
  /\ locked \subseteq Files
  /\ decayed \subseteq Files
  /\ changed \in [Files -> SUBSET {"write", "decay"}]
  /\ manifest \in [Files -> Entries \cup {NoEntry}]
  /\ cacheFile \in [Files -> CacheLines \cup {NoLine}]
  /\ run \in {"off", "scan", "saved"} /\ runs \in 0..MaxRuns
  /\ mode \in Modes /\ caching \in BOOLEAN /\ quit \in BOOLEAN
  /\ gManifest \in [Files -> Entries \cup {NoEntry}]
  /\ scanCache \in [Files -> CacheLines \cup {NoLine}]
  /\ collected \in [Files -> Entries \cup {NoEntry}]
  /\ InItsMode
  /\ stage \in [Files -> {"walk", "struct", "io", "manifest", "record", "done"}]
  /\ hash \in [Files -> Hashes]
  /\ hashValid \subseteq Files
  /\ worst \in [Files -> {"Ok", "Corrupt", "Unreadable"}]
  /\ alarm \subseteq Files /\ skipped \subseteq Files

(* What is reported as "silent bit-rot (content changed, mtime same)"      *)
(* (ManifestDetector.cpp:100) has decayed since it was last written,       *)
(* through any number of runs, writes, crashes and interrupted baselines;  *)
(* save that its line was taken while it was being written, or that it     *)
(* could not be read, now or then (IoHashDetector.cpp:43).                 *)
BitRotIsReal ==
  [][\A f \in alarm' \ alarm :
       \/ f \in decayed
       \/ gManifest[f].raced
       \/ NoHash \in {hash[f], gManifest[f].hash}]_vars

(* The same without the last excuse: Config.cpp:18 has the baseline        *)
(* compared "to detect silent bit-rot", which a file that was merely       *)
(* locked by another program has not suffered.                             *)
BitRotMeansChange ==
  [][\A f \in alarm' \ alarm : f \in decayed \/ gManifest[f].raced]_vars

(* A file that is left out because of the scan cache (main.cpp:149) is not *)
(* broken: it has been judged Ok as it is, unless it decayed or was being  *)
(* written while it was judged.                                            *)
CacheIsHonest ==
  [][\A f \in skipped' \ skipped :
       content[f] \in Broken => f \in decayed \/ scanCache[f].raced]_vars

(* A run with --manifest that is not interrupted calls every file Corrupt  *)
(* whose content is not what the baseline has for its mtime, unless the    *)
(* file was left out, could not be read, or changed meanwhile.             *)
RotIsFound ==
  run = "saved" /\ mode = "compare" /\ ~quit =>
    \A f \in Files \ skipped :
      LET line == gManifest[f] IN
      (/\ line # NoEntry
       /\ line.mtime = mtime[f]
       /\ line.hash # content[f]
       /\ changed[f] = {})
        => worst[f] \in {"Corrupt", "Unreadable"}

=============================================================================
