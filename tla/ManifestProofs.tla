--------------------------- MODULE ManifestProofs ---------------------------
(***************************************************************************)
(* What is reported as bit-rot is real, for any files, contents and number *)
(* of runs and writes.  The argument: a line of the baseline with the      *)
(* mtime the file has now has the content the file has now, or the line    *)
(* was taken during a write or from a failed read, or the file decayed.    *)
(* It needs that times only grow, and where the content that was hashed is *)
(* related to the content on disk while a worker handles the file.         *)
(***************************************************************************)
EXTENDS Manifest, TLAPS

(* The type invariant is inductive: Launch, Record and Save are the        *)
(* actions that move lines between the maps.                               *)
LEMMA TypeStep == TypeOK /\ [Next]_vars => TypeOK'
<1> SUFFICES ASSUME TypeOK, [Next]_vars PROVE TypeOK'
  OBVIOUS
<1> USE ManifestAssumption DEF TypeOK
<1>1. CASE UNCHANGED vars
  BY <1>1
     DEF vars, InItsMode, diskVars, savedVars, runVars, fileVars, recordVars
<1>2. ASSUME NEW f \in Files, Write(f) PROVE TypeOK'
  BY <1>2 DEF Write, InItsMode, Times, savedVars, runVars, fileVars, recordVars
<1>3. ASSUME NEW f \in Files, Decay(f) PROVE TypeOK'
  BY <1>3 DEF Decay, InItsMode, savedVars, runVars, fileVars, recordVars
<1>4. ASSUME NEW f \in Files, Lock(f) PROVE TypeOK'
  BY <1>4 DEF Lock, InItsMode, savedVars, runVars, fileVars, recordVars
<1>5. ASSUME NEW m \in Modes, NEW b \in BOOLEAN, Launch(m, b) PROVE TypeOK'
  <2>1. UNCHANGED <<content, mtime, locked, decayed, changed, manifest,
                    cacheFile>>
    BY <1>5 DEF Launch, diskVars, savedVars
  <2>2. (content \in [Files -> Contents] /\ mtime \in [Files -> Times])'
    BY <2>1
  <2>3. (locked \subseteq Files /\ decayed \subseteq Files)'
    BY <2>1
  <2>4. (changed \in [Files -> SUBSET {"write", "decay"}])'
    BY <2>1
  <2>5. (manifest \in [Files -> Entries \cup {NoEntry}])'
    BY <2>1
  <2>6. (cacheFile \in [Files -> CacheLines \cup {NoLine}])'
    BY <2>1
  <2>7. (run \in {"off", "scan", "saved"} /\ runs \in 0..MaxRuns)'
    BY <1>5 DEF Launch
  <2>8. (mode \in Modes /\ caching \in BOOLEAN /\ quit \in BOOLEAN)'
    BY <1>5 DEF Launch
  <2>9. (gManifest \in [Files -> Entries \cup {NoEntry}])'
    BY <1>5 DEF Launch, Loaded
  <2>10. (scanCache \in [Files -> CacheLines \cup {NoLine}])'
    BY <1>5 DEF Launch
  <2>11. (collected \in [Files -> Entries \cup {NoEntry}])'
    BY <1>5 DEF Launch
  <2>12. InItsMode'
    BY <1>5 DEF Launch, Loaded, InItsMode
  <2>13. (stage \in [Files -> {"walk", "struct", "io", "manifest", "record",
                              "done"}])'
    BY <1>5 DEF Launch
  <2>14. (hash \in [Files -> Hashes] /\ hashValid \subseteq Files)'
    BY <1>5 DEF Launch, Hashes
  <2>15. (worst \in [Files -> {"Ok", "Corrupt", "Unreadable"}])'
    BY <1>5 DEF Launch
  <2>16. (alarm \subseteq Files /\ skipped \subseteq Files)'
    BY <1>5 DEF Launch
  <2> QED
    BY <2>2, <2>3, <2>4, <2>5, <2>6, <2>7, <2>8, <2>9, <2>10, <2>11, <2>12,
       <2>13, <2>14, <2>15, <2>16
<1>6. ASSUME NEW f \in Files, Walk(f) PROVE TypeOK'
  BY <1>6 DEF Walk, InItsMode, Reaches, savedVars, runVars, fileVars, recordVars
<1>7. ASSUME NEW f \in Files, CheckStructure(f) PROVE TypeOK'
  BY <1>7
     DEF CheckStructure, InItsMode, Reaches, diskVars, savedVars, runVars, recordVars
<1>8. ASSUME NEW f \in Files, Hash(f) PROVE TypeOK'
  BY <1>8
     DEF Hash, InItsMode, Hashes, Reaches, diskVars, savedVars, runVars, recordVars
<1>9. ASSUME NEW f \in Files, Compare(f) PROVE TypeOK'
  BY <1>9
     DEF Compare, InItsMode, Reaches, diskVars, savedVars, runVars, recordVars
<1>10. ASSUME NEW f \in Files, Record(f) PROVE TypeOK'
  <2> DEFINE raced == "write" \in changed[f]
             entry == [mtime |-> mtime[f], hash |-> hash[f], raced |-> raced]
             line == [mtime |-> mtime[f], raced |-> raced]
  <2>1. entry \in Entries /\ line \in CacheLines
    BY DEF Entries, CacheLines
  <2>2. \/ UNCHANGED collected
        \/ mode = "write" /\ collected' = [collected EXCEPT ![f] = entry]
    BY <1>10 DEF Record
  <2>3. UNCHANGED scanCache \/ scanCache' = [scanCache EXCEPT ![f] = line]
    BY <1>10 DEF Record
  <2> HIDE DEF entry, line
  <2>4. collected' \in [Files -> Entries \cup {NoEntry}]
    BY <2>1, <2>2
  <2>5. UNCHANGED <<gManifest, mode>>
    BY <1>10 DEF Record, runVars
  <2>8. InItsMode'
    BY <2>2, <2>5 DEF InItsMode
  <2>6. scanCache' \in [Files -> CacheLines \cup {NoLine}]
    BY <2>1, <2>3
  <2>7. UNCHANGED <<diskVars, savedVars, runVars, fileVars, alarm, skipped>>
        /\ stage' = [stage EXCEPT ![f] = "done"]
    BY <1>10 DEF Record, Reaches
  <2> QED
    BY <2>4, <2>6, <2>7, <2>8 DEF diskVars, savedVars, runVars, fileVars
<1>11. CASE Interrupt
  BY <1>11 DEF Interrupt, InItsMode, diskVars, savedVars, fileVars, recordVars
<1>12. CASE Save
  BY <1>12 DEF Save, SavedManifest, InItsMode, diskVars, fileVars, recordVars
<1>13. CASE Crash
  BY <1>13 DEF Crash, InItsMode, diskVars, savedVars, fileVars, recordVars
<1> QED
  BY <1>1, <1>2, <1>3, <1>4, <1>5, <1>6, <1>7, <1>8, <1>9, <1>10, <1>11,
     <1>12, <1>13 DEF Next, World, Program

(* The program starts with its types.                                      *)
LEMMA InitTyped == Init => TypeOK
<1> SUFFICES ASSUME Init PROVE TypeOK
  OBVIOUS
<1>1. /\ mtime \in [Files -> Times] /\ runs \in 0..MaxRuns
      /\ hash \in [Files -> Hashes]
  BY ManifestAssumption DEF Init, Times, Hashes
<1>2. /\ mode \in Modes
      /\ \A f \in Files : gManifest[f] = NoEntry /\ collected[f] = NoEntry
  BY DEF Init, Modes
<1> QED
  BY <1>1, <1>2 DEF Init, TypeOK, InItsMode

(* The state keeps its types for any files, contents and bounds.           *)
THEOREM TypeCorrect == Spec => []TypeOK
BY InitTyped, TypeStep, PTL DEF Spec

-----------------------------------------------------------------------------
(* A line taken for f: it is not from the future, and if its mtime is the  *)
(* one of f it has the content of f, with three excuses.                   *)
Sound(line, f) ==
  /\ line.mtime <= mtime[f]
  /\ line.mtime = mtime[f] =>
       \/ line.hash \in {NoHash, content[f]}
       \/ line.raced
       \/ f \in decayed

LinesSound ==
  \A f \in Files : /\ Sound(manifest[f], f)
                   /\ Sound(gManifest[f], f)
                   /\ Sound(collected[f], f)

(* While a worker handles f: a write makes f newer than its line in the    *)
(* baseline, there is no hash from an earlier run, and one that was read   *)
(* is that of the content, unless f was written or decayed.                *)
InHand(f) ==
  /\ stage[f] \notin {"walk", "done"} /\ "write" \in changed[f] =>
       gManifest[f].mtime < mtime[f]
  /\ stage[f] \in {"walk", "struct", "io"} => f \notin hashValid
  /\ stage[f] = "manifest" \/ (stage[f] = "record" /\ f \in hashValid) =>
       \/ hash[f] \in {NoHash, content[f]}
       \/ "write" \in changed[f]
       \/ f \in decayed

AllInHand == \A f \in Files : InHand(f)

IInv == TypeOK /\ LinesSound /\ AllInHand

(* Times are numbers.                                                      *)
LEMMA TimesAreInts ==
  ASSUME TypeOK, NEW f \in Files
  PROVE  /\ mtime[f] \in Nat
         /\ manifest[f].mtime \in Int
         /\ gManifest[f].mtime \in Int
         /\ collected[f].mtime \in Int
<1>1. \A line \in Entries \cup {NoEntry} : line.mtime \in Int
  BY ManifestAssumption DEF Entries, NoEntry, Times
<1>2. /\ manifest[f] \in Entries \cup {NoEntry}
      /\ gManifest[f] \in Entries \cup {NoEntry}
      /\ collected[f] \in Entries \cup {NoEntry}
  BY DEF TypeOK
<1>3. mtime[f] \in Nat
  BY ManifestAssumption DEF TypeOK, Times
<1> QED
  BY <1>1, <1>2, <1>3

(* No entry is a sound one.                                                *)
LEMMA NoEntryIsSound ==
  ASSUME TypeOK, NEW f \in Files
  PROVE  Sound(NoEntry, f)
BY TimesAreInts DEF Sound, NoEntry

(* A step that touches neither the disk nor the maps keeps lines sound.    *)
LEMMA LinesKept ==
  ASSUME LinesSound,
         UNCHANGED <<content, mtime, decayed, manifest, gManifest, collected>>
  PROVE  LinesSound'
BY DEF LinesSound, Sound

(* Lines stay sound: a write makes the file newer than all of them, decay  *)
(* is an excuse, and what Record adds was in hand.                         *)
LEMMA LinesStep == IInv /\ TypeOK' /\ [Next]_vars => LinesSound'
<1> SUFFICES ASSUME TypeOK, LinesSound, AllInHand, TypeOK', [Next]_vars
             PROVE  LinesSound'
  BY DEF IInv
<1>1. CASE UNCHANGED vars
  BY <1>1, LinesKept DEF vars, diskVars, savedVars, runVars, recordVars
<1>2. ASSUME NEW f \in Files, Write(f) PROVE LinesSound'
  <2>1. UNCHANGED <<manifest, gManifest, collected>>
    BY <1>2 DEF Write, savedVars, runVars, recordVars
  <2>2. /\ mtime' = [mtime EXCEPT ![f] = @ + 1]
        /\ \E c \in Contents : content' = [content EXCEPT ![f] = c]
        /\ decayed' = decayed \ {f}
    BY <1>2 DEF Write
  <2>3. mtime'[f] = mtime[f] + 1
    BY <2>2 DEF TypeOK
  <2>4. /\ Sound(manifest[f], f)' /\ Sound(gManifest[f], f)'
        /\ Sound(collected[f], f)'
    BY <2>1, <2>3, TimesAreInts DEF LinesSound, Sound
  <2>5. ASSUME NEW g \in Files, g # f
        PROVE  /\ mtime'[g] = mtime[g] /\ content'[g] = content[g]
               /\ g \in decayed' <=> g \in decayed
    BY <2>2, <2>5 DEF TypeOK
  <2>6. ASSUME NEW g \in Files, g # f
        PROVE  /\ Sound(manifest[g], g)' /\ Sound(gManifest[g], g)'
               /\ Sound(collected[g], g)'
    BY <2>1, <2>5, <2>6 DEF LinesSound, Sound
  <2> QED
    BY <2>4, <2>6 DEF LinesSound
<1>3. ASSUME NEW f \in Files, Decay(f) PROVE LinesSound'
  <2>1. UNCHANGED <<manifest, gManifest, collected, mtime>>
    BY <1>3 DEF Decay, savedVars, runVars, recordVars
  <2>2. /\ \E c \in Contents : content' = [content EXCEPT ![f] = c]
        /\ decayed' = decayed \cup {f}
    BY <1>3 DEF Decay
  <2>3. \A g \in Files : g \in decayed' \/ (content'[g] = content[g]
                                          /\ g \notin decayed)
    BY <2>2 DEF TypeOK
  <2> QED
    BY <2>1, <2>3 DEF LinesSound, Sound
<1>4. ASSUME NEW f \in Files, Lock(f) PROVE LinesSound'
  BY <1>4, LinesKept DEF Lock, savedVars, runVars, recordVars
<1>5. ASSUME NEW m \in Modes, NEW b \in BOOLEAN, Launch(m, b)
      PROVE  LinesSound'
  <2>1. UNCHANGED <<manifest, mtime, content, decayed>>
    BY <1>5 DEF Launch, diskVars, savedVars
  <2>2. ASSUME NEW f \in Files
        PROVE  /\ collected'[f] = NoEntry
               /\ gManifest'[f] \in {manifest[f], NoEntry}
    BY <1>5 DEF Launch, Loaded
  <2>3. \A f \in Files : Sound(NoEntry, f) /\ Sound(manifest[f], f)
    BY NoEntryIsSound DEF LinesSound
  <2> QED
    BY <2>1, <2>2, <2>3 DEF LinesSound, Sound
<1>6. ASSUME NEW f \in Files, Walk(f) PROVE LinesSound'
  BY <1>6, LinesKept DEF Walk, savedVars, runVars, recordVars
<1>7. ASSUME NEW f \in Files, CheckStructure(f) PROVE LinesSound'
  BY <1>7, LinesKept DEF CheckStructure, diskVars, savedVars, runVars, recordVars
<1>8. ASSUME NEW f \in Files, Hash(f) PROVE LinesSound'
  BY <1>8, LinesKept DEF Hash, diskVars, savedVars, runVars, recordVars
<1>9. ASSUME NEW f \in Files, Compare(f) PROVE LinesSound'
  BY <1>9, LinesKept DEF Compare, diskVars, savedVars, runVars, recordVars
<1>10. ASSUME NEW f \in Files, Record(f) PROVE LinesSound'
  <2> DEFINE raced == "write" \in changed[f]
             entry == [mtime |-> mtime[f], hash |-> hash[f], raced |-> raced]
  <2>1. UNCHANGED <<manifest, gManifest, mtime, content, decayed>>
    BY <1>10 DEF Record, diskVars, savedVars, runVars
  <2>2. CASE UNCHANGED collected
    BY <2>1, <2>2, LinesKept
  <2>3. CASE f \in hashValid /\ collected' = [collected EXCEPT ![f] = entry]
    <3>1. Sound(entry, f)
      <4>1. stage[f] = "record"
        BY <1>10 DEF Record
      <4>2. hash[f] \in {NoHash, content[f]} \/ raced \/ f \in decayed
        BY <2>3, <4>1 DEF AllInHand, InHand
      <4>3. /\ entry.mtime = mtime[f] /\ entry.hash = hash[f]
            /\ entry.raced = raced
        OBVIOUS
      <4> HIDE DEF entry, raced
      <4> QED
        BY <4>2, <4>3, TimesAreInts DEF Sound
    <3>2. /\ collected'[f] = entry
          /\ \A g \in Files \ {f} : collected'[g] = collected[g]
      BY <2>3 DEF TypeOK
    <3> HIDE DEF entry
    <3>3. Sound(collected[f], f)'
      <4>1. collected'[f].mtime = entry.mtime /\ collected'[f].hash = entry.hash
            /\ collected'[f].raced = entry.raced
        BY <3>2
      <4> QED
        BY <2>1, <3>1, <4>1 DEF Sound
    <3>4. \A g \in Files \ {f} : Sound(collected[g], g)'
      BY <2>1, <3>2 DEF LinesSound, Sound
    <3>5. \A g \in Files : Sound(manifest[g], g)' /\ Sound(gManifest[g], g)'
      BY <2>1 DEF LinesSound, Sound
    <3> QED
      BY <3>3, <3>4, <3>5 DEF LinesSound
  <2> QED
    BY <1>10, <2>2, <2>3 DEF Record
<1>11. CASE Interrupt
  BY <1>11, LinesKept DEF Interrupt, diskVars, savedVars, recordVars
<1>12. CASE Save
  <2>1. UNCHANGED <<content, mtime, decayed, gManifest, collected>>
    BY <1>12 DEF Save, diskVars, recordVars
  <2>2. manifest' \in {manifest, collected}
    BY <1>12 DEF Save, SavedManifest
  <2> QED
    BY <2>1, <2>2 DEF LinesSound, Sound
<1>13. CASE Crash
  BY <1>13, LinesKept DEF Crash, diskVars, savedVars, recordVars
<1> QED
  BY <1>1, <1>2, <1>3, <1>4, <1>5, <1>6, <1>7, <1>8, <1>9, <1>10, <1>11,
     <1>12, <1>13 DEF Next, World, Program

(* A step that changes nothing an unfinished file is judged by.            *)
LEMMA HandKept ==
  ASSUME AllInHand, NEW f \in Files,
         mtime'[f] = mtime[f], content'[f] = content[f],
         decayed' = decayed, changed'[f] = changed[f], gManifest' = gManifest,
         stage'[f] \in {stage[f], "done"},
         hash'[f] = hash[f], f \in hashValid' <=> f \in hashValid
  PROVE  InHand(f)'
BY DEF AllInHand, InHand

(* What is known of a file in hand stays true: in particular a write after *)
(* the walk makes it newer than its line in the baseline, which is not     *)
(* from the future.                                                        *)
LEMMA HandStep == IInv /\ TypeOK' /\ [Next]_vars => AllInHand'
<1> SUFFICES ASSUME TypeOK, LinesSound, AllInHand, TypeOK', [Next]_vars,
                    NEW g \in Files
             PROVE  InHand(g)'
  BY DEF IInv, AllInHand
<1> USE DEF TypeOK
<1>1. CASE UNCHANGED vars
  BY <1>1, HandKept DEF vars, diskVars, savedVars, runVars, fileVars
<1>2. ASSUME NEW f \in Files, Write(f) PROVE InHand(g)'
  <2>1. /\ mtime' = [mtime EXCEPT ![f] = @ + 1]
        /\ \E c \in Contents : content' = [content EXCEPT ![f] = c]
        /\ decayed' = decayed \ {f}
        /\ changed' = [changed EXCEPT ![f] = @ \cup {"write"}]
        /\ UNCHANGED <<gManifest, stage, hash, hashValid>>
    BY <1>2 DEF Write, runVars, fileVars
  <2>2. CASE g # f
    <3>1. /\ mtime'[g] = mtime[g] /\ content'[g] = content[g]
          /\ changed'[g] = changed[g]
          /\ g \in decayed' <=> g \in decayed
      BY <2>1, <2>2
    <3> QED
      BY <2>1, <3>1 DEF AllInHand, InHand
  <2>3. CASE g = f
    <3>1. mtime'[g] = mtime[g] + 1 /\ "write" \in changed'[g]
      BY <2>1, <2>3
    <3>2. gManifest[g].mtime < mtime'[g]
      BY <3>1, TimesAreInts DEF LinesSound, Sound
    <3> QED
      BY <2>1, <3>1, <3>2 DEF AllInHand, InHand
  <2> QED
    BY <2>2, <2>3
<1>3. ASSUME NEW f \in Files, Decay(f) PROVE InHand(g)'
  <2>1. /\ \E c \in Contents : content' = [content EXCEPT ![f] = c]
        /\ decayed' = decayed \cup {f}
        /\ changed' = [changed EXCEPT ![f] = @ \cup {"decay"}]
        /\ UNCHANGED <<mtime, gManifest, stage, hash, hashValid>>
    BY <1>3 DEF Decay, runVars, fileVars
  <2>2. /\ g \in decayed' \/ (content'[g] = content[g] /\ g \notin decayed)
        /\ "write" \in changed'[g] <=> "write" \in changed[g]
    BY <2>1
  <2> QED
    BY <2>1, <2>2 DEF AllInHand, InHand
<1>4. ASSUME NEW f \in Files, Lock(f) PROVE InHand(g)'
  BY <1>4, HandKept DEF Lock, runVars, fileVars
<1>5. ASSUME NEW m \in Modes, NEW b \in BOOLEAN, Launch(m, b)
      PROVE  InHand(g)'
  <2>1. stage'[g] = "walk" /\ hashValid' = {}
    BY <1>5 DEF Launch
  <2> QED
    BY <2>1 DEF InHand
<1>6. ASSUME NEW f \in Files, Walk(f) PROVE InHand(g)'
  <2>1. /\ UNCHANGED <<mtime, content, decayed, gManifest, hash, hashValid>>
        /\ changed' = [changed EXCEPT ![f] = {}]
        /\ stage[f] = "walk"
        /\ \E t \in {"struct", "done"} : stage' = [stage EXCEPT ![f] = t]
    BY <1>6 DEF Walk, Reaches, runVars, fileVars
  <2>2. CASE g # f
    <3>1. changed'[g] = changed[g] /\ stage'[g] = stage[g]
      BY <2>1, <2>2
    <3> QED
      BY <2>1, <3>1, HandKept
  <2>3. CASE g = f
    <3>1. changed'[g] = {} /\ stage'[g] \in {"struct", "done"}
      BY <2>1, <2>3
    <3> QED
      BY <2>1, <2>3, <3>1 DEF AllInHand, InHand
  <2> QED
    BY <2>2, <2>3
<1>7. ASSUME NEW f \in Files, CheckStructure(f) PROVE InHand(g)'
  <2>1. /\ UNCHANGED <<mtime, content, decayed, changed, gManifest, hash,
                      hashValid>>
        /\ stage[f] = "struct"
        /\ \E t \in {"record", "io"} : stage' = [stage EXCEPT ![f] = t]
    BY <1>7 DEF CheckStructure, Reaches, diskVars, runVars
  <2>2. \/ stage'[g] = stage[g]
        \/ stage[g] = "struct" /\ stage'[g] \in {"record", "io"}
    BY <2>1
  <2> QED
    BY <2>1, <2>2 DEF AllInHand, InHand
<1>8. ASSUME NEW f \in Files, Hash(f) PROVE InHand(g)'
  <2>1. /\ UNCHANGED <<mtime, content, decayed, changed, gManifest>>
        /\ stage[f] = "io"
        /\ hashValid' = hashValid \cup {f}
        /\ \E h \in {NoHash, content[f]} : hash' = [hash EXCEPT ![f] = h]
        /\ \E t \in {"manifest", "record"} : stage' = [stage EXCEPT ![f] = t]
    BY <1>8 DEF Hash, Reaches, diskVars, runVars
  <2>2. CASE g # f
    <3>1. /\ hash'[g] = hash[g] /\ stage'[g] = stage[g]
          /\ g \in hashValid' <=> g \in hashValid
      BY <2>1, <2>2
    <3> QED
      BY <2>1, <3>1, HandKept
  <2>3. CASE g = f
    <3>1. hash'[g] \in {NoHash, content[g]} /\ g \in hashValid'
      BY <2>1, <2>3
    <3> QED
      BY <2>1, <2>3, <3>1 DEF AllInHand, InHand
  <2> QED
    BY <2>2, <2>3
<1>9. ASSUME NEW f \in Files, Compare(f) PROVE InHand(g)'
  <2>1. /\ UNCHANGED <<mtime, content, decayed, changed, gManifest, hash,
                      hashValid>>
        /\ stage[f] = "manifest"
        /\ stage' = [stage EXCEPT ![f] = "record"]
    BY <1>9 DEF Compare, Reaches, diskVars, runVars
  <2>2. \/ stage'[g] = stage[g]
        \/ stage[g] = "manifest" /\ stage'[g] = "record"
    BY <2>1
  <2> QED
    BY <2>1, <2>2 DEF AllInHand, InHand
<1>10. ASSUME NEW f \in Files, Record(f) PROVE InHand(g)'
  <2>1. /\ UNCHANGED <<mtime, content, decayed, changed, gManifest, hash,
                      hashValid>>
        /\ stage'[g] \in {stage[g], "done"}
    BY <1>10 DEF Record, Reaches, diskVars, runVars, fileVars
  <2> QED
    BY <2>1, HandKept
<1>11. CASE Interrupt
  BY <1>11, HandKept DEF Interrupt, diskVars, fileVars
<1>12. CASE Save
  BY <1>12, HandKept DEF Save, diskVars, fileVars
<1>13. CASE Crash
  <2>1. stage'[g] = "done"
    BY <1>13 DEF Crash
  <2> QED
    BY <2>1 DEF InHand
<1> QED
  BY <1>1, <1>2, <1>3, <1>4, <1>5, <1>6, <1>7, <1>8, <1>9, <1>10, <1>11,
     <1>12, <1>13 DEF Next, World, Program

-----------------------------------------------------------------------------
(* The invariant holds at the start, where nothing is recorded.            *)
LEMMA InitIsSound == Init => IInv
<1> SUFFICES ASSUME Init PROVE IInv
  OBVIOUS
<1>1. TypeOK
  BY InitTyped
<1>2. LinesSound
  BY <1>1, NoEntryIsSound DEF Init, LinesSound
<1>3. AllInHand
  BY DEF Init, AllInHand, InHand
<1> QED
  BY <1>1, <1>2, <1>3 DEF IInv

(* The inductive invariant.                                                *)
THEOREM Invariance == Spec => []IInv
<1>1. IInv /\ [Next]_vars => IInv'
  BY TypeStep, LinesStep, HandStep DEF IInv
<1> QED
  BY <1>1, InitIsSound, PTL DEF Spec

(* An alarm is raised by Compare alone, on a hash and a line that differ   *)
(* and have the same mtime: then the hash is not of what f contains now,   *)
(* and as f has not been written since the walk, it decayed; or the line   *)
(* was not sound.                                                          *)
LEMMA AlarmStep ==
  ASSUME IInv, [Next]_vars, NEW f \in alarm' \ alarm
  PROVE  \/ f \in decayed
         \/ gManifest[f].raced
         \/ NoHash \in {hash[f], gManifest[f].hash}
<1> USE DEF IInv
<1>1. f \in Files /\ Compare(f)
  <2>1. CASE UNCHANGED vars
    BY <2>1 DEF vars
  <2>2. CASE World
    BY <2>2 DEF World, Write, Decay, Lock
  <2>3. ASSUME NEW m \in Modes, NEW b \in BOOLEAN, Launch(m, b) PROVE FALSE
    BY <2>3 DEF Launch
  <2>4. ASSUME NEW g \in Files,
               Walk(g) \/ CheckStructure(g) \/ Hash(g) \/ Record(g)
        PROVE  FALSE
    BY <2>4 DEF Walk, CheckStructure, Hash, Record
  <2>5. CASE Interrupt \/ Save \/ Crash
    BY <2>5 DEF Interrupt, Save, Crash
  <2>6. ASSUME NEW g \in Files, Compare(g) PROVE f = g
    BY <2>6 DEF Compare
  <2> QED
    BY <2>1, <2>2, <2>3, <2>4, <2>5, <2>6 DEF Next, Program
<1>2. /\ stage[f] = "manifest"
      /\ hash[f] # gManifest[f].hash
      /\ mtime[f] = gManifest[f].mtime
  BY <1>1 DEF Compare, IsRot
<1>3. \/ gManifest[f].hash \in {NoHash, content[f]}
      \/ gManifest[f].raced
      \/ f \in decayed
  BY <1>1, <1>2 DEF LinesSound, Sound
<1>4. "write" \notin changed[f]
  BY <1>1, <1>2, TimesAreInts DEF AllInHand, InHand
<1>5. hash[f] \in {NoHash, content[f]} \/ f \in decayed
  BY <1>1, <1>2, <1>4 DEF AllInHand, InHand
<1> QED
  BY <1>2, <1>3, <1>5

(* For any files, contents, runs and writes: what is reported as bit-rot   *)
(* has decayed, unless a line was taken during a write or a read failed.   *)
THEOREM AlarmsAreReal == Spec => BitRotIsReal
<1>1. IInv /\ [Next]_vars =>
        [\A f \in alarm' \ alarm :
           \/ f \in decayed
           \/ gManifest[f].raced
           \/ NoHash \in {hash[f], gManifest[f].hash}]_vars
  BY AlarmStep
<1> QED
  BY <1>1, Invariance, PTL DEF Spec, BitRotIsReal


-----------------------------------------------------------------------------
(* A line of the scan cache is not from the future, and if its mtime is    *)
(* the one of f, then f is not broken, with two excuses.                   *)
Honest(line, f) ==
  /\ line.mtime <= mtime[f]
  /\ line.mtime = mtime[f] =>
       content[f] \notin Broken \/ line.raced \/ f \in decayed

CacheSound ==
  \A f \in Files : Honest(cacheFile[f], f) /\ Honest(scanCache[f], f)

(* What the verdict on f says: Ok, that it is not broken; while it waits   *)
(* to be compared, that its hash is that of its content; after it was      *)
(* compared, that it is what the baseline has.  A run that was saved and   *)
(* not interrupted has handled every file.                                 *)
Judged(f) ==
  /\ stage[f] \in {"io", "manifest", "record"} /\ worst[f] = "Ok" =>
       content[f] \notin Broken \/ "write" \in changed[f] \/ f \in decayed
  /\ stage[f] = "manifest" /\ changed[f] = {} =>
       hash[f] = content[f] \/ worst[f] = "Unreadable"
  /\ (/\ run # "off" /\ mode = "compare" /\ f \notin skipped
      /\ stage[f] \in {"record", "done"}
      /\ gManifest[f] # NoEntry /\ gManifest[f].mtime = mtime[f]
      /\ gManifest[f].hash # content[f] /\ changed[f] = {})
        => worst[f] # "Ok"
  /\ run = "saved" /\ ~quit => stage[f] = "done"

AllJudged == \A f \in Files : Judged(f)

CInv == IInv /\ CacheSound /\ AllJudged

(* Times of the scan cache are numbers; no line of it is an honest one.    *)
LEMMA CacheTimes ==
  ASSUME TypeOK, NEW f \in Files
  PROVE  cacheFile[f].mtime \in Int /\ scanCache[f].mtime \in Int
<1>1. \A line \in CacheLines \cup {NoLine} : line.mtime \in Int
  BY ManifestAssumption DEF CacheLines, NoLine, Times
<1> QED
  BY <1>1 DEF TypeOK

LEMMA NoLineIsHonest ==
  ASSUME TypeOK, NEW f \in Files
  PROVE  Honest(NoLine, f)
BY TimesAreInts DEF Honest, NoLine

LEMMA CacheKept ==
  ASSUME CacheSound, UNCHANGED <<content, mtime, decayed, cacheFile, scanCache>>
  PROVE  CacheSound'
BY DEF CacheSound, Honest

(* The lines of the cache stay honest, by the same argument as those of    *)
(* the baseline: what Record adds was judged Ok while it was in hand.      *)
LEMMA CacheStep == CInv /\ TypeOK' /\ [Next]_vars => CacheSound'
<1> SUFFICES ASSUME TypeOK, CacheSound, AllJudged, TypeOK', [Next]_vars
             PROVE  CacheSound'
  BY DEF CInv, IInv
<1>1. CASE UNCHANGED vars
  BY <1>1, CacheKept DEF vars, diskVars, savedVars, recordVars
<1>2. ASSUME NEW f \in Files, Write(f) PROVE CacheSound'
  <2>1. UNCHANGED <<cacheFile, scanCache>>
    BY <1>2 DEF Write, savedVars, recordVars
  <2>2. /\ mtime' = [mtime EXCEPT ![f] = @ + 1]
        /\ \E c \in Contents : content' = [content EXCEPT ![f] = c]
        /\ decayed' = decayed \ {f}
    BY <1>2 DEF Write
  <2>3. mtime'[f] = mtime[f] + 1
    BY <2>2 DEF TypeOK
  <2>4. Honest(cacheFile[f], f)' /\ Honest(scanCache[f], f)'
    BY <2>1, <2>3, TimesAreInts, CacheTimes DEF CacheSound, Honest
  <2>5. ASSUME NEW g \in Files, g # f
        PROVE  /\ mtime'[g] = mtime[g] /\ content'[g] = content[g]
               /\ g \in decayed' <=> g \in decayed
    BY <2>2, <2>5 DEF TypeOK
  <2>6. ASSUME NEW g \in Files, g # f
        PROVE  Honest(cacheFile[g], g)' /\ Honest(scanCache[g], g)'
    BY <2>1, <2>5, <2>6 DEF CacheSound, Honest
  <2> QED
    BY <2>4, <2>6 DEF CacheSound
<1>3. ASSUME NEW f \in Files, Decay(f) PROVE CacheSound'
  <2>1. UNCHANGED <<cacheFile, scanCache, mtime>>
    BY <1>3 DEF Decay, savedVars, recordVars
  <2>2. /\ \E c \in Contents : content' = [content EXCEPT ![f] = c]
        /\ decayed' = decayed \cup {f}
    BY <1>3 DEF Decay
  <2>3. \A g \in Files : g \in decayed' \/ (content'[g] = content[g]
                                          /\ g \notin decayed)
    BY <2>2 DEF TypeOK
  <2> QED
    BY <2>1, <2>3 DEF CacheSound, Honest
<1>4. ASSUME NEW f \in Files, Lock(f) PROVE CacheSound'
  BY <1>4, CacheKept DEF Lock, savedVars, recordVars
<1>5. ASSUME NEW m \in Modes, NEW b \in BOOLEAN, Launch(m, b)
      PROVE  CacheSound'
  <2>1. UNCHANGED <<cacheFile, mtime, content, decayed>>
    BY <1>5 DEF Launch, diskVars, savedVars
  <2>2. \A f \in Files : scanCache'[f] \in {cacheFile[f], NoLine}
    BY <1>5 DEF Launch
  <2>3. \A f \in Files : Honest(NoLine, f) /\ Honest(cacheFile[f], f)
    BY NoLineIsHonest DEF CacheSound
  <2> QED
    BY <2>1, <2>2, <2>3 DEF CacheSound, Honest
<1>6. ASSUME NEW f \in Files, Walk(f) PROVE CacheSound'
  BY <1>6, CacheKept DEF Walk, savedVars, recordVars
<1>7. ASSUME NEW f \in Files, CheckStructure(f) PROVE CacheSound'
  BY <1>7, CacheKept DEF CheckStructure, diskVars, savedVars, recordVars
<1>8. ASSUME NEW f \in Files, Hash(f) PROVE CacheSound'
  BY <1>8, CacheKept DEF Hash, diskVars, savedVars, recordVars
<1>9. ASSUME NEW f \in Files, Compare(f) PROVE CacheSound'
  BY <1>9, CacheKept DEF Compare, diskVars, savedVars, recordVars
<1>10. ASSUME NEW f \in Files, Record(f) PROVE CacheSound'
  <2> DEFINE raced == "write" \in changed[f]
             line == [mtime |-> mtime[f], raced |-> raced]
  <2>1. UNCHANGED <<cacheFile, mtime, content, decayed>>
    BY <1>10 DEF Record, diskVars, savedVars
  <2>2. CASE UNCHANGED scanCache
    BY <2>1, <2>2, CacheKept
  <2>3. CASE worst[f] = "Ok" /\ scanCache' = [scanCache EXCEPT ![f] = line]
    <3>1. content[f] \notin Broken \/ raced \/ f \in decayed
      BY <1>10, <2>3 DEF Record, AllJudged, Judged
    <3>2. line.mtime = mtime[f] /\ line.raced = raced
      OBVIOUS
    <3>3. /\ scanCache'[f] = line
          /\ \A g \in Files \ {f} : scanCache'[g] = scanCache[g]
      BY <2>3 DEF TypeOK
    <3> HIDE DEF line, raced
    <3>4. scanCache'[f].mtime = mtime[f] /\ scanCache'[f].raced = raced
      BY <3>2, <3>3
    <3>5. Honest(scanCache[f], f)'
      BY <2>1, <3>1, <3>4, TimesAreInts DEF Honest
    <3>6. \A g \in Files \ {f} : Honest(scanCache[g], g)'
      BY <2>1, <3>3 DEF CacheSound, Honest
    <3>7. \A g \in Files : Honest(cacheFile[g], g)'
      BY <2>1 DEF CacheSound, Honest
    <3> QED
      BY <3>5, <3>6, <3>7 DEF CacheSound
  <2> QED
    BY <1>10, <2>2, <2>3 DEF Record, Cacheable
<1>11. CASE Interrupt
  BY <1>11, CacheKept DEF Interrupt, diskVars, savedVars, recordVars
<1>12. CASE Save
  <2>1. UNCHANGED <<content, mtime, decayed, scanCache>>
    BY <1>12 DEF Save, diskVars, recordVars
  <2>2. cacheFile' \in {cacheFile, scanCache}
    BY <1>12 DEF Save
  <2> QED
    BY <2>1, <2>2 DEF CacheSound, Honest
<1>13. CASE Crash
  BY <1>13, CacheKept DEF Crash, diskVars, savedVars, recordVars
<1> QED
  BY <1>1, <1>2, <1>3, <1>4, <1>5, <1>6, <1>7, <1>8, <1>9, <1>10, <1>11,
     <1>12, <1>13 DEF Next, World, Program

(* A step of the program that changes nothing f is judged by.              *)
LEMMA JudgementKept ==
  ASSUME AllJudged, NEW f \in Files,
         mtime'[f] = mtime[f], content'[f] = content[f],
         decayed' = decayed, changed'[f] = changed[f], gManifest' = gManifest,
         run' = run, mode' = mode, quit' = quit, stage'[f] = stage[f],
         f \in skipped' <=> f \in skipped,
         hash'[f] = hash[f], worst'[f] = worst[f]
  PROVE  Judged(f)'
BY DEF AllJudged, Judged

(* A write or decay since the walk is on record, and otherwise the content *)
(* is still what the worker has seen.                                      *)
LEMMA JudgedStep == CInv /\ TypeOK' /\ [Next]_vars => AllJudged'
<1> SUFFICES ASSUME TypeOK, AllJudged, TypeOK', [Next]_vars, NEW g \in Files
             PROVE  Judged(g)'
  BY DEF CInv, IInv, AllJudged
<1> USE DEF TypeOK
<1>1. CASE UNCHANGED vars
  BY <1>1, JudgementKept DEF vars, diskVars, runVars, fileVars
<1>2. ASSUME NEW f \in Files, Write(f) \/ Decay(f) PROVE Judged(g)'
  <2>1. /\ UNCHANGED <<run, mode, quit, gManifest, stage, hash, worst, skipped>>
        /\ \E c \in Contents : content' = [content EXCEPT ![f] = c]
        /\ \/ /\ changed' = [changed EXCEPT ![f] = @ \cup {"write"}]
              /\ mtime' = [mtime EXCEPT ![f] = @ + 1]
              /\ decayed' = decayed \ {f}
           \/ /\ changed' = [changed EXCEPT ![f] = @ \cup {"decay"}]
              /\ decayed' = decayed \cup {f}
              /\ UNCHANGED mtime
    BY <1>2 DEF Write, Decay, runVars, fileVars
  <2>2. CASE g # f
    <3>1. /\ mtime'[g] = mtime[g] /\ content'[g] = content[g]
          /\ changed'[g] = changed[g]
          /\ g \in decayed' <=> g \in decayed
      BY <2>1, <2>2
    <3> QED
      BY <2>1, <3>1 DEF AllJudged, Judged
  <2>3. CASE g = f
    <3>1. \/ changed'[f] = changed[f] \cup {"write"}
          \/ changed'[f] = changed[f] \cup {"decay"} /\ f \in decayed'
      <4> HIDE DEF TypeOK
      <4>1. changed \in [Files -> SUBSET {"write", "decay"}]
        BY DEF TypeOK
      <4> QED
        BY <2>1, <4>1
    <3>2. changed'[g] # {} /\ ("write" \in changed'[g] \/ g \in decayed')
      <4> HIDE DEF TypeOK
      <4> QED
        BY <2>3, <3>1
    <3> QED
      BY <2>1, <3>2 DEF AllJudged, Judged
  <2> QED
    BY <2>2, <2>3
<1>3. ASSUME NEW f \in Files, Lock(f) PROVE Judged(g)'
  BY <1>3, JudgementKept DEF Lock, runVars, fileVars
<1>4. ASSUME NEW m \in Modes, NEW b \in BOOLEAN, Launch(m, b)
      PROVE  Judged(g)'
  <2>1. stage'[g] = "walk" /\ run' = "scan"
    BY <1>4 DEF Launch
  <2> QED
    BY <2>1 DEF Judged
<1>5. ASSUME NEW f \in Files, Walk(f) PROVE Judged(g)'
  <2>1. /\ UNCHANGED <<mtime, content, decayed, run, mode, quit, gManifest,
                      hash, worst>>
        /\ changed' = [changed EXCEPT ![f] = {}]
        /\ run = "scan"
        /\ \/ stage' = [stage EXCEPT ![f] = "struct"] /\ skipped' = skipped
           \/ stage' = [stage EXCEPT ![f] = "done"] /\ skipped' = skipped \cup {f}
    BY <1>5 DEF Walk, Reaches, runVars, fileVars
  <2>2. CASE g # f
    <3>1. /\ changed'[g] = changed[g] /\ stage'[g] = stage[g]
          /\ g \in skipped' <=> g \in skipped
      BY <2>1, <2>2
    <3> QED
      BY <2>1, <3>1, JudgementKept
  <2>3. CASE g = f
    <3>1. stage'[g] = "struct" \/ (stage'[g] = "done" /\ g \in skipped')
      BY <2>1, <2>3
    <3> QED
      BY <2>1, <3>1 DEF Judged
  <2> QED
    BY <2>2, <2>3
<1>6. ASSUME NEW f \in Files, CheckStructure(f) PROVE Judged(g)'
  <2>1. /\ UNCHANGED <<mtime, content, decayed, changed, run, mode, quit,
                      gManifest, hash, skipped>>
        /\ \E v \in {"Ok", "Corrupt", "Unreadable"} :
             /\ v = "Ok" => content[f] \notin Broken
             /\ worst' = [worst EXCEPT ![f] = v]
             /\ stage' = [stage EXCEPT
                            ![f] = IF v = "Corrupt" THEN "record" ELSE "io"]
        /\ stage[f] = "struct"
    BY <1>6 DEF CheckStructure, Reaches, diskVars, runVars
  <2>2. CASE g # f
    <3>1. worst'[g] = worst[g] /\ stage'[g] = stage[g]
      BY <2>1, <2>2
    <3> QED
      BY <2>1, <3>1, JudgementKept
  <2>3. CASE g = f
    <3>1. /\ worst'[g] = "Ok" => content[g] \notin Broken
          /\ \/ stage'[g] = "record" /\ worst'[g] = "Corrupt"
             \/ stage'[g] = "io"
      BY <2>1, <2>3
    <3> QED
      BY <2>1, <2>3, <3>1 DEF AllJudged, Judged
  <2> QED
    BY <2>2, <2>3
<1>7. ASSUME NEW f \in Files, Hash(f) PROVE Judged(g)'
  <2>1. /\ UNCHANGED <<mtime, content, decayed, changed, run, mode, quit,
                      gManifest, skipped>>
        /\ stage[f] = "io"
        /\ stage' = [stage EXCEPT
                       ![f] = IF mode = "compare" THEN "manifest" ELSE "record"]
        /\ \/ worst' = [worst EXCEPT ![f] = "Unreadable"]
           \/ worst' = worst /\ hash' = [hash EXCEPT ![f] = content[f]]
        /\ \E h : hash' = [hash EXCEPT ![f] = h]
    BY <1>7 DEF Hash, Reaches, diskVars, runVars
  <2>2. CASE g # f
    <3>1. worst'[g] = worst[g] /\ stage'[g] = stage[g] /\ hash'[g] = hash[g]
      BY <2>1, <2>2
    <3> QED
      BY <2>1, <3>1, JudgementKept
  <2>3. CASE g = f
    <3>1. /\ \/ worst'[g] = "Unreadable"
             \/ worst'[g] = worst[g] /\ hash'[g] = content[g]
          /\ stage'[g] = IF mode = "compare" THEN "manifest" ELSE "record"
      BY <2>1, <2>3
    <3> QED
      BY <2>1, <2>3, <3>1 DEF AllJudged, Judged
  <2> QED
    BY <2>2, <2>3
<1>8. ASSUME NEW f \in Files, Compare(f) PROVE Judged(g)'
  <2> DEFINE found == gManifest[f] # NoEntry /\ IsRot(f)
  <2>1. /\ UNCHANGED <<mtime, content, decayed, changed, run, mode, quit,
                      gManifest, hash, skipped>>
        /\ stage[f] = "manifest"
        /\ stage' = [stage EXCEPT ![f] = "record"]
        /\ worst' = [worst EXCEPT
                       ![f] = IF found /\ @ = "Ok" THEN "Corrupt" ELSE @]
    BY <1>8 DEF Compare, Reaches, diskVars, runVars
  <2>2. CASE g # f
    <3>1. worst'[g] = worst[g] /\ stage'[g] = stage[g]
      BY <2>1, <2>2
    <3> QED
      BY <2>1, <3>1, JudgementKept
  <2>3. CASE g = f
    <3>1. /\ stage'[g] = "record" /\ worst'[g] \in {worst[g], "Corrupt"}
          /\ found => worst'[g] # "Ok"
      BY <2>1, <2>3
    <3>2. (/\ gManifest[g] # NoEntry /\ gManifest[g].mtime = mtime[g]
           /\ gManifest[g].hash # content[g] /\ changed[g] = {})
             => found \/ worst[g] = "Unreadable"
      BY <2>1, <2>3 DEF AllJudged, Judged, IsRot
    <3> QED
      BY <2>1, <2>3, <3>1, <3>2 DEF AllJudged, Judged
  <2> QED
    BY <2>2, <2>3
<1>9. ASSUME NEW f \in Files, Record(f) PROVE Judged(g)'
  <2>1. /\ UNCHANGED <<mtime, content, decayed, changed, run, mode, quit,
                      gManifest, hash, worst, skipped>>
        /\ stage[f] = "record"
        /\ stage' = [stage EXCEPT ![f] = "done"]
    BY <1>9 DEF Record, Reaches, diskVars, runVars, fileVars
  <2>2. stage'[g] = stage[g] \/ (stage[g] = "record" /\ stage'[g] = "done")
    BY <2>1
  <2> QED
    BY <2>1, <2>2 DEF AllJudged, Judged
<1>10. CASE Interrupt
  BY <1>10 DEF Interrupt, diskVars, fileVars, AllJudged, Judged
<1>11. CASE Save
  <2>1. /\ UNCHANGED <<mtime, content, decayed, changed, mode, quit, gManifest,
                      stage, hash, worst, skipped>>
        /\ run = "scan" /\ run' = "saved"
        /\ stage[g] = "done" \/ quit
    BY <1>11 DEF Save, diskVars, fileVars
  <2> QED
    BY <2>1 DEF AllJudged, Judged
<1>12. CASE Crash
  <2>1. stage'[g] = "done" /\ run' = "off"
    BY <1>12 DEF Crash
  <2> QED
    BY <2>1 DEF Judged
<1> QED
  BY <1>1, <1>2, <1>3, <1>4, <1>5, <1>6, <1>7, <1>8, <1>9, <1>10, <1>11,
     <1>12 DEF Next, World, Program

LEMMA InitJudged == Init => CInv
<1> SUFFICES ASSUME Init PROVE CInv
  OBVIOUS
<1>1. IInv /\ TypeOK
  BY InitIsSound DEF IInv
<1>2. CacheSound
  BY <1>1, NoLineIsHonest DEF Init, CacheSound
<1>3. AllJudged
  BY DEF Init, AllJudged, Judged
<1> QED
  BY <1>1, <1>2, <1>3 DEF CInv

(* The invariant of what the runs know: the lines of both files, the files *)
(* in hand and the verdicts.                                               *)
THEOREM KnowledgeInvariance == Spec => []CInv
<1>1. CInv /\ [Next]_vars => CInv'
  BY TypeStep, LinesStep, HandStep, CacheStep, JudgedStep DEF CInv, IInv
<1> QED
  BY <1>1, InitJudged, PTL DEF Spec

(* For any files, contents, runs and writes: a run with --manifest that is *)
(* not interrupted misses no file whose content is not what the baseline   *)
(* has for its mtime, unless it was left out, unreadable or just changed.  *)
THEOREM RotIsNotMissed == Spec => []RotIsFound
<1>1. CInv => RotIsFound
  <2> SUFFICES ASSUME TypeOK, AllJudged PROVE RotIsFound
    BY DEF CInv, IInv
  <2>1. \A f \in Files : worst[f] \in {"Ok", "Corrupt", "Unreadable"}
    BY DEF TypeOK
  <2> QED
    BY <2>1 DEF RotIsFound, AllJudged, Judged
<1> QED
  BY <1>1, KnowledgeInvariance, PTL

(* A file is left out by the callback of walk() alone, because its line    *)
(* has the mtime of the file.                                              *)
LEMMA SkipStep ==
  ASSUME CInv, [Next]_vars, NEW f \in skipped' \ skipped
  PROVE  content[f] \in Broken => f \in decayed \/ scanCache[f].raced
<1>1. f \in Files /\ Walk(f)
  <2>1. CASE UNCHANGED vars
    BY <2>1 DEF vars
  <2>2. CASE World
    BY <2>2 DEF World, Write, Decay, Lock
  <2>3. ASSUME NEW m \in Modes, NEW b \in BOOLEAN, Launch(m, b) PROVE FALSE
    BY <2>3 DEF Launch
  <2>4. ASSUME NEW g \in Files,
               CheckStructure(g) \/ Hash(g) \/ Compare(g) \/ Record(g)
        PROVE  FALSE
    BY <2>4 DEF CheckStructure, Hash, Compare, Record
  <2>5. CASE Interrupt \/ Save \/ Crash
    BY <2>5 DEF Interrupt, Save, Crash
  <2>6. ASSUME NEW g \in Files, Walk(g) PROVE f = g
    BY <2>6 DEF Walk
  <2> QED
    BY <2>1, <2>2, <2>3, <2>4, <2>5, <2>6 DEF Next, Program
<1>2. scanCache[f].mtime = mtime[f]
  BY <1>1 DEF Walk
<1> QED
  BY <1>1, <1>2 DEF CInv, CacheSound, Honest

(* For any files, contents, runs and writes: a broken file is left out     *)
(* because of the scan cache only if it decayed, or was being written      *)
(* while it was judged.                                                    *)
THEOREM SkippedFilesAreSound == Spec => CacheIsHonest
<1>1. CInv /\ [Next]_vars =>
        [\A f \in skipped' \ skipped :
           content[f] \in Broken => f \in decayed \/ scanCache[f].raced]_vars
  BY SkipStep
<1> QED
  BY <1>1, KnowledgeInvariance, PTL DEF Spec, CacheIsHonest

=============================================================================
