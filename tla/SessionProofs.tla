--------------------------- MODULE SessionProofs ---------------------------
(***************************************************************************)
(* What holds of every run of the program, whatever its command line, its  *)
(* disk and its files: the line is read as it says, the pipeline and the   *)
(* order of its detectors do not matter for the verdict, every file is     *)
(* judged once, what the first pass has flagged stays flagged, what has    *)
(* rotted is flagged and the checksums are those of the bytes.             *)
(***************************************************************************)
EXTENDS Session, FiniteSetTheorems, WellFoundedInduction, TLAPS

-----------------------------------------------------------------------------
(* Induction, stated for sets: a set of numbers that is not empty has a    *)
(* least member, so that one that has 0 and the successor of each of its   *)
(* members up to n has all the numbers up to n.                            *)
LEMMA LeastNumber ==
  ASSUME NEW T, T \subseteq Nat, T # {}
  PROVE  \E x \in T : \A y \in T : x <= y
<1> DEFINE R == OpToRel(<, Nat)
<1>1. IsWellFoundedOn(R, Nat)
  BY NatLessThanWellFounded
<1>2. \A x, y \in Nat : y < x => <<y, x>> \in R
  BY DEF OpToRel
<1> HIDE DEF R
<1>3. PICK x \in T : \A y \in T : <<y, x>> \notin R
  BY <1>1, WFMin, Zenon
<1>4. ASSUME NEW y \in T PROVE x <= y
  <2>1. x \in Nat /\ y \in Nat /\ <<y, x>> \notin R
    BY <1>3
  <2>2. ~(y < x)
    BY <2>1, <1>2, Zenon
  <2> QED
    BY <2>1, <2>2
<1> QED
  BY <1>4

LEMMA UpTo ==
  ASSUME NEW n \in Nat, NEW T, 0 \in T,
         \A k \in 1..n : k - 1 \in T => k \in T
  PROVE  0..n \subseteq T
<1> DEFINE Bad == {k \in 0..n : k \notin T}
<1> SUFFICES ASSUME Bad # {} PROVE FALSE
  OBVIOUS
<1>1. PICK x \in Bad : \A y \in Bad : x <= y
  <2>1. Bad \subseteq Nat
    OBVIOUS
  <2> HIDE DEF Bad
  <2> QED
    BY <2>1, LeastNumber
<1>2. x \in 1..n
  BY <1>1
<1>3. x - 1 \in 0..n /\ x - 1 \notin Bad
  BY <1>1, <1>2
<1> QED
  BY <1>2, <1>3

(* A function defined by recursion over 0..n, whose step is a function g   *)
(* of the number and the value before, exists and has values in S.         *)
Recursive(F, n, a, g) == F = [k \in 0..n |-> IF k = 0 THEN a ELSE g[k][F[k - 1]]]

LEMMA RecursiveExists ==
  ASSUME NEW n \in Nat, NEW S, NEW a \in S, NEW g \in [1..n -> [S -> S]]
  PROVE  \E F \in [0..n -> S] : Recursive(F, n, a, g)
<1> DEFINE T == {m \in 0..n : \E F \in [0..m -> S] : Recursive(F, m, a, g)}
<1>1. 0 \in T
  <2> DEFINE F == [k \in 0..0 |-> a]
  <2>1. F = [k \in 0..0 |-> IF k = 0 THEN a ELSE g[k][F[k - 1]]]
    OBVIOUS
  <2>2. F \in [0..0 -> S] /\ Recursive(F, 0, a, g)
    BY <2>1 DEF Recursive
  <2> QED
    BY <2>2
<1>2. ASSUME NEW m \in 1..n, m - 1 \in T PROVE m \in T
  <2>1. PICK F \in [0..m - 1 -> S] : Recursive(F, m - 1, a, g)
    BY <1>2
  <2> DEFINE G == [k \in 0..m |-> IF k < m THEN F[k] ELSE g[m][F[m - 1]]]
  <2>2. m \in Nat /\ m > 0 /\ m - 1 \in 0..m - 1 /\ F[m - 1] \in S
    BY <2>1
  <2>3. g[m][F[m - 1]] \in S
    BY <2>2
  <2>4. G \in [0..m -> S]
    BY <2>1, <2>2, <2>3
  <2>5. ASSUME NEW k \in 0..m
        PROVE  G[k] = IF k = 0 THEN a ELSE g[k][G[k - 1]]
    <3>1. CASE k = m
      BY <2>2, <3>1
    <3>2. CASE k # m
      <4>1. k \in 0..m - 1 /\ k < m
        BY <2>2, <3>2
      <4>2. F[k] = IF k = 0 THEN a ELSE g[k][F[k - 1]]
        BY <2>1, <4>1 DEF Recursive
      <4>3. k # 0 => k - 1 \in 0..m /\ k - 1 < m
        BY <4>1
      <4> QED
        BY <4>1, <4>2, <4>3
    <3> QED
      BY <3>1, <3>2
  <2>6. Recursive(G, m, a, g)
    BY <2>5, Zenon DEF Recursive
  <2> QED
    BY <2>2, <2>4, <2>6
<1>3. 0..n \subseteq T
  <2> HIDE DEF T
  <2> QED
    BY <1>1, <1>2, UpTo
<1> QED
  BY <1>3

-----------------------------------------------------------------------------
(* The command line.  A word is a value if the word before it takes one    *)
(* and is no value itself.                                                 *)
LEMMA ValueAfterOption ==
  ASSUME argv \in Seq(STRING)
  PROVE  /\ DOMAIN IsValue = 0..Len(argv)
         /\ \A k \in 0..Len(argv) :
              /\ IsValue[k] \in BOOLEAN
              /\ IsValue[k] <=> k > 1 /\ argv[k - 1] \in TakesValue /\ ~IsValue[k - 1]
<1> DEFINE n == Len(argv)
           g == [k \in 1..n |-> [v \in BOOLEAN |->
                   k > 1 /\ argv[k - 1] \in TakesValue /\ ~v]]
           Right(V) == V = [k \in 0..n |->
                              k > 1 /\ argv[k - 1] \in TakesValue /\ ~V[k - 1]]
<1>1. PICK F \in [0..n -> BOOLEAN] : Recursive(F, n, FALSE, g)
  <2>1. n \in Nat /\ g \in [1..n -> [BOOLEAN -> BOOLEAN]]
    OBVIOUS
  <2> HIDE DEF n, g
  <2> QED
    BY <2>1, RecursiveExists
<1>2. Right(F)
  <2>1. ASSUME NEW k \in 0..n
        PROVE  F[k] = (k > 1 /\ argv[k - 1] \in TakesValue /\ ~F[k - 1])
    <3>1. CASE k = 0
      BY <1>1, <3>1 DEF Recursive
    <3>2. CASE k # 0
      <4>1. k \in 1..n /\ F[k - 1] \in BOOLEAN
        BY <1>1, <3>2
      <4>2. F[k] = g[k][F[k - 1]]
        BY <1>1, <3>2, <4>1 DEF Recursive
      <4> QED
        BY <4>1, <4>2
    <3> QED
      BY <3>1, <3>2
  <2> QED
    BY <1>1, <2>1
<1>3. Right(IsValue)
  BY <1>2 DEF IsValue
<1> QED
  BY <1>3

Fields == DOMAIN Default

(* The words before the n-th one, by what they are.                        *)
OptionsTo(n, words) == Options(words) \cap 1..n - 1
ValuedTo(n, words) == Valued(words) \cap 1..n - 1
RootsTo(n) == {k \in 1..n - 1 : argv[k] \notin Dashed /\ ~IsValue[k]}
FirstOf(S) == CHOOSE k \in S : \A m \in S : k <= m

(* What a configuration c has to say of the words before the n-th one.     *)
SwitchesSaid(c, n) ==
  \A w \in DOMAIN Switch : /\ c[Switch[w]] \in BOOLEAN
                           /\ c[Switch[w]] <=> OptionsTo(n, {w}) # {}
ModeSaid(c, n) ==
  c.deleteMode = IF OptionsTo(n, DOMAIN Mode) = {} THEN "Interactive"
                 ELSE Mode[argv[LastOf(OptionsTo(n, DOMAIN Mode))]]
RootSaid(c, n, r) ==
  /\ r <=> RootsTo(n) # {}
  /\ c.root = IF RootsTo(n) = {} THEN Default.root ELSE argv[FirstOf(RootsTo(n))]
ValueTo(n, words) ==
  IF ValuedTo(n, words) = {} THEN "" ELSE argv[LastOf(ValuedTo(n, words)) + 1]
NumberTo(n, option, default) ==
  IF ValuedTo(n, {option}) = {} THEN default ELSE NumberOf(ValueTo(n, {option}))
NamesSaid(c, n) ==
  /\ \A w \in DOMAIN NameOption : c[NameOption[w]] = ValueTo(n, {w})
  /\ c.manifestPath = ValueTo(n, {"--manifest", "--write-manifest"})
  /\ c.writeManifest \in BOOLEAN
  /\ c.writeManifest <=> ValuedTo(n, {"--write-manifest"}) # {}
Base(o) == IF o = {} THEN Default.methods ELSE ListOf(argv[LastOf(o) + 1])
Added(n) ==
  {k \in ValuedTo(n, {"--manifest"}) : \A m \in ValuedTo(n, {"--methods"}) : m < k}
MethodsSaid(c, n) ==
  c.methods = Base(ValuedTo(n, {"--methods"}))
                \cup (IF Added(n) = {} THEN {} ELSE {"manifest"})

ChoicesSaid(c, n) ==
  /\ c.maxFileBytes = NumberTo(n, "--max-size", 0)
  /\ c.hddBlockSize = NumberTo(n, "--hdd-block-size", Default.hddBlockSize)
  /\ c.diskProfile = Profile(ValueTo(n, {"--disk-profile"}))
  /\ c.mftEnum = (ValueTo(n, {"--mft-enum"}) # "off")
  /\ c.format = Format(ValueTo(n, {"--format"}))

Said(c, n, r) ==
  /\ SwitchesSaid(c, n) /\ ModeSaid(c, n) /\ RootSaid(c, n, r)
  /\ NamesSaid(c, n) /\ MethodsSaid(c, n) /\ ChoicesSaid(c, n)

(* The numbers of threads and readers are the line's own while it is read, *)
(* and afterwards if they are not 0.                                       *)
TeamSaid(c, n) ==
  c.threads = NumberTo(n, "--threads", 0) /\ c.readers = NumberTo(n, "--readers", 0)
TeamKept(c, n) ==
  /\ NumberTo(n, "--threads", 0) # 0 => c.threads = NumberTo(n, "--threads", 0)
  /\ NumberTo(n, "--readers", 0) # 0 => c.readers = NumberTo(n, "--readers", 0)

Numbered(c) == \A w \in DOMAIN NumberOption : c[NumberOption[w]] \in Nat

(* While the line is read, the word looked at is no value, and the         *)
(* configuration is what the words before it say.                          *)
LineTyped ==
  /\ argv \in Seq(STRING) /\ i \in 1..Len(argv) + 1 /\ rootSet \in BOOLEAN
  /\ i <= Len(argv) => ~IsValue[i]
  /\ DOMAIN cfg = Fields /\ Numbered(cfg)

LineInv == LineTyped /\ Said(cfg, i, rootSet)

(* The options that set a field, one by one.                               *)
LEMMA OptionWords ==
  /\ DOMAIN Switch =
       {"--all-checks", "--include-suspect", "--permanent", "--yes", "--force-system",
        "--no-progress", "--follow-links", "--physical-order", "--no-cache",
        "--header-first"}
  /\ Switch["--all-checks"] = "allChecks"
  /\ Switch["--include-suspect"] = "includeSuspect"
  /\ Switch["--permanent"] = "permanent"
  /\ Switch["--yes"] = "assumeYes"
  /\ Switch["--force-system"] = "forceSystem"
  /\ Switch["--no-progress"] = "noProgress"
  /\ Switch["--follow-links"] = "followLinks"
  /\ Switch["--physical-order"] = "physicalOrder"
  /\ Switch["--no-cache"] = "noCache"
  /\ Switch["--header-first"] = "headerFirst"
  /\ DOMAIN Mode = {"--delete-all", "--report-only"}
  /\ DOMAIN NameOption = {"--audit-log", "--scan-cache", "--report"}
  /\ NameOption["--audit-log"] = "auditLogPath"
  /\ NameOption["--scan-cache"] = "scanCachePath"
  /\ NameOption["--report"] = "reportPath"
  /\ DOMAIN NumberOption = {"--threads", "--max-size", "--readers", "--hdd-block-size"}
  /\ NumberOption["--threads"] = "threads"
  /\ NumberOption["--max-size"] = "maxFileBytes"
  /\ NumberOption["--readers"] = "readers"
  /\ NumberOption["--hdd-block-size"] = "hddBlockSize"
BY DEF Switch, Mode, NameOption, NumberOption, FieldBy

LEMMA DefaultFields ==
  /\ Fields = {"root", "methods", "allChecks", "includeSuspect", "followLinks",
       "permanent", "assumeYes", "forceSystem", "noProgress", "physicalOrder", "noCache",
       "headerFirst", "mftEnum", "writeManifest", "deleteMode", "format", "diskProfile",
       "reportPath", "manifestPath", "auditLogPath", "scanCachePath", "threads",
       "readers", "maxFileBytes", "hddBlockSize"}
  /\ \A w \in DOMAIN Switch : Default[Switch[w]] = FALSE
  /\ \A w \in DOMAIN NameOption : Default[NameOption[w]] = ""
  /\ Default.deleteMode = "Interactive" /\ Default.manifestPath = ""
  /\ Default.writeManifest = FALSE
  /\ \A w \in DOMAIN NumberOption : Default[NumberOption[w]] \in Nat
  /\ Default.maxFileBytes = 0 /\ Default.threads = 0 /\ Default.readers = 0
  /\ Default.diskProfile = Profile("") /\ Default.format = Format("")
  /\ Default.mftEnum = TRUE
<1>1. \A w \in DOMAIN Switch : Default[Switch[w]] = FALSE
  <2>1. /\ Default["allChecks"] = FALSE /\ Default["includeSuspect"] = FALSE
        /\ Default["permanent"] = FALSE /\ Default["assumeYes"] = FALSE
        /\ Default["forceSystem"] = FALSE /\ Default["noProgress"] = FALSE
        /\ Default["followLinks"] = FALSE /\ Default["physicalOrder"] = FALSE
        /\ Default["noCache"] = FALSE /\ Default["headerFirst"] = FALSE
    BY SMT DEF Default
  <2> QED
    BY <2>1, OptionWords
<1>2. \A w \in DOMAIN NameOption : Default[NameOption[w]] = ""
  <2>1. /\ Default["auditLogPath"] = "" /\ Default["scanCachePath"] = ""
        /\ Default["reportPath"] = ""
    BY SMT DEF Default
  <2>2. ASSUME NEW w \in DOMAIN NameOption PROVE Default[NameOption[w]] = ""
    <3>1. NameOption[w] \in {"auditLogPath", "scanCachePath", "reportPath"}
      BY OptionWords
    <3> QED
      BY <2>1, <3>1, Zenon
  <2> QED
    BY <2>2
<1>3. /\ Default.deleteMode = "Interactive" /\ Default.manifestPath = ""
      /\ Default.writeManifest = FALSE
  BY SMT DEF Default
<1>4. Fields = {"root", "methods", "allChecks", "includeSuspect", "followLinks",
       "permanent", "assumeYes", "forceSystem", "noProgress", "physicalOrder", "noCache",
       "headerFirst", "mftEnum", "writeManifest", "deleteMode", "format", "diskProfile",
       "reportPath", "manifestPath", "auditLogPath", "scanCachePath", "threads",
       "readers", "maxFileBytes", "hddBlockSize"}
  BY SMT DEF Default, Fields
<1>5. \A w \in DOMAIN NumberOption : Default[NumberOption[w]] \in Nat
  <2>1. /\ Default["threads"] \in Nat /\ Default["readers"] \in Nat
        /\ Default["maxFileBytes"] \in Nat /\ Default["hddBlockSize"] \in Nat
    BY SMT DEF Default
  <2>2. ASSUME NEW w \in DOMAIN NumberOption PROVE Default[NumberOption[w]] \in Nat
    <3>1. NumberOption[w] \in {"threads", "readers", "maxFileBytes", "hddBlockSize"}
      BY OptionWords
    <3> QED
      BY <2>1, <3>1, Zenon
  <2> QED
    BY <2>2
<1>6. /\ Default.maxFileBytes = 0 /\ Default.threads = 0 /\ Default.readers = 0
      /\ Default.diskProfile = "Auto" /\ Default.format = "Text" /\ Default.mftEnum = TRUE
  BY SMT DEF Default
<1>7. Profile("") = "Auto" /\ Format("") = "Text"
  BY Zenon DEF Profile, Format
<1> QED
  BY <1>1, <1>2, <1>3, <1>4, <1>5, <1>6, <1>7

(* Each option has a field of its own, and none of them is the field of    *)
(* another kind of option.                                                 *)
Others == {"root", "methods", "mftEnum", "writeManifest", "deleteMode", "format",
           "diskProfile", "manifestPath"}

OptionFields == Fields \ Others

LEMMA FieldNames ==
  /\ \A w \in DOMAIN Switch :
       /\ Switch[w] \in OptionFields
       /\ \A x \in DOMAIN Switch : Switch[x] = Switch[w] => x = w
       /\ \A x \in DOMAIN NameOption : NameOption[x] # Switch[w]
       /\ \A x \in DOMAIN NumberOption : NumberOption[x] # Switch[w]
  /\ \A w \in DOMAIN NameOption :
       /\ NameOption[w] \in OptionFields
       /\ \A x \in DOMAIN NameOption : NameOption[x] = NameOption[w] => x = w
       /\ \A x \in DOMAIN NumberOption : NumberOption[x] # NameOption[w]
  /\ \A w \in DOMAIN NumberOption :
       /\ NumberOption[w] \in OptionFields
       /\ \A x \in DOMAIN NumberOption : NumberOption[x] = NumberOption[w] => x = w
  /\ Others \subseteq Fields
<1>1. /\ Others \subseteq Fields
      /\ {"allChecks", "includeSuspect", "permanent", "assumeYes", "forceSystem",
          "noProgress", "followLinks", "physicalOrder", "noCache", "headerFirst",
          "auditLogPath", "scanCachePath", "reportPath", "threads", "maxFileBytes",
          "readers", "hddBlockSize"} \subseteq OptionFields
  <2>1. Fields =
     {"root", "methods", "allChecks", "includeSuspect", "followLinks",
       "permanent", "assumeYes", "forceSystem", "noProgress", "physicalOrder", "noCache",
       "headerFirst", "mftEnum", "writeManifest", "deleteMode", "format", "diskProfile",
       "reportPath", "manifestPath", "auditLogPath", "scanCachePath", "threads",
       "readers", "maxFileBytes", "hddBlockSize"}
    BY DefaultFields, Zenon
  <2> QED
    BY ONLY <2>1 DEF OptionFields, Others
<1>2. ASSUME NEW w \in DOMAIN Switch PROVE Switch[w] \in OptionFields
  BY <1>1, OptionWords
<1>3. ASSUME NEW w \in DOMAIN Switch, NEW x \in DOMAIN Switch, Switch[x] = Switch[w]
      PROVE  x = w
  BY <1>3, OptionWords
<1>4. ASSUME NEW w \in DOMAIN Switch
      PROVE  /\ \A x \in DOMAIN NameOption : NameOption[x] # Switch[w]
             /\ \A x \in DOMAIN NumberOption : NumberOption[x] # Switch[w]
  BY OptionWords
<1>5. ASSUME NEW w \in DOMAIN NameOption
      PROVE  /\ NameOption[w] \in OptionFields
             /\ \A x \in DOMAIN NameOption : NameOption[x] = NameOption[w] => x = w
             /\ \A x \in DOMAIN NumberOption : NumberOption[x] # NameOption[w]
  BY <1>1, OptionWords
<1>6. ASSUME NEW w \in DOMAIN NumberOption
      PROVE  /\ NumberOption[w] \in OptionFields
             /\ \A x \in DOMAIN NumberOption : NumberOption[x] = NumberOption[w] => x = w
  BY <1>1, OptionWords
<1> QED
  BY ONLY <1>1, <1>2, <1>3, <1>4, <1>5, <1>6

LEMMA OneField ==
  ASSUME NEW c, DOMAIN c = Fields, NEW f \in Fields, NEW v
  PROVE  /\ DOMAIN [c EXCEPT ![f] = v] = Fields
         /\ \A x \in Fields : [c EXCEPT ![f] = v][x] = IF x = f THEN v ELSE c[x]
OBVIOUS

(* What an option with a value, and a word alone, leave in each field.     *)
AfterValue(c, d, a, v) ==
  /\ DOMAIN d = Fields
  /\ \A w \in DOMAIN Switch : d[Switch[w]] = c[Switch[w]]
  /\ d.deleteMode = c.deleteMode /\ d.root = c.root
  /\ \A w \in DOMAIN NameOption :
       d[NameOption[w]] = IF a = w THEN v ELSE c[NameOption[w]]
  /\ d.manifestPath = IF a \in {"--manifest", "--write-manifest"} THEN v
                      ELSE c.manifestPath
  /\ d.writeManifest = IF a = "--write-manifest" THEN TRUE ELSE c.writeManifest
  /\ d.methods = IF a = "--methods" THEN ListOf(v)
                 ELSE IF a = "--manifest" THEN c.methods \cup {"manifest"}
                 ELSE c.methods
  /\ \A w \in DOMAIN NumberOption :
       d[NumberOption[w]] = IF a = w THEN NumberOf(v) ELSE c[NumberOption[w]]
  /\ d.diskProfile = IF a = "--disk-profile" THEN Profile(v) ELSE c.diskProfile
  /\ d.mftEnum = IF a = "--mft-enum" THEN (v # "off") ELSE c.mftEnum
  /\ d.format = IF a = "--format" THEN Format(v) ELSE c.format

AfterWord(c, d, a) ==
  /\ DOMAIN d = Fields
  /\ \A w \in DOMAIN Switch : d[Switch[w]] = IF a = w THEN TRUE ELSE c[Switch[w]]
  /\ d.deleteMode = IF a \in DOMAIN Mode THEN Mode[a] ELSE c.deleteMode
  /\ d.root = c.root
  /\ \A w \in DOMAIN NameOption : d[NameOption[w]] = c[NameOption[w]]
  /\ d.manifestPath = c.manifestPath /\ d.writeManifest = c.writeManifest
  /\ d.methods = c.methods
  /\ \A w \in DOMAIN NumberOption : d[NumberOption[w]] = c[NumberOption[w]]
  /\ d.diskProfile = c.diskProfile /\ d.mftEnum = c.mftEnum /\ d.format = c.format

LEMMA WordSets ==
  ASSUME NEW c, DOMAIN c = Fields, NEW a
  PROVE  AfterWord(c, Alone(c, a), a)
<1>1. CASE a \in DOMAIN Switch
  <2> DEFINE d == [c EXCEPT ![Switch[a]] = TRUE]
  <2>1. Alone(c, a) = d /\ a \notin DOMAIN Mode
    BY <1>1, OptionWords DEF Alone
  <2>2. DOMAIN d = Fields /\ \A x \in Fields : d[x] = IF x = Switch[a] THEN TRUE ELSE c[x]
    BY <1>1, OneField, FieldNames DEF OptionFields
  <2> HIDE DEF d
  <2> QED
    BY <1>1, <2>1, <2>2, FieldNames DEF AfterWord, Others, OptionFields
<1>2. CASE a \in DOMAIN Mode
  <2> DEFINE d == [c EXCEPT !["deleteMode"] = Mode[a]]
  <2>1. Alone(c, a) = d /\ a \notin DOMAIN Switch
    BY <1>2, OptionWords DEF Alone
  <2>2. DOMAIN d = Fields /\ \A x \in Fields : d[x] = IF x = "deleteMode" THEN Mode[a] ELSE c[x]
    BY OneField, FieldNames DEF Others
  <2> HIDE DEF d
  <2> QED
    BY <1>2, <2>1, <2>2, FieldNames DEF AfterWord, Others, OptionFields
<1>3. CASE a \notin DOMAIN Switch /\ a \notin DOMAIN Mode
  BY <1>3 DEF Alone, AfterWord
<1> QED
  BY <1>1, <1>2, <1>3

LEMMA ValueSets ==
  ASSUME NEW c, DOMAIN c = Fields, NEW a \in TakesValue, NEW v
  PROVE  AfterValue(c, WithValue(c, a, v), a, v)
<1> DEFINE Set(f, x) == \A z \in Fields : WithValue(c, a, v)[z] = IF z = f THEN x ELSE c[z]
<1> USE FieldNames DEF Others, OptionFields
<1>1. CASE a = "--methods"
  <2>1. WithValue(c, a, v) = [c EXCEPT !["methods"] = ListOf(v)]
    BY <1>1 DEF WithValue
  <2>2. DOMAIN WithValue(c, a, v) = Fields /\ Set("methods", ListOf(v))
    BY <2>1, OneField
  <2> QED
    BY <1>1, <2>2, OptionWords DEF AfterValue
<1>2. CASE a = "--write-manifest"
  <2>1. WithValue(c, a, v) = [c EXCEPT !["manifestPath"] = v, !["writeManifest"] = TRUE]
    BY <1>2 DEF WithValue
  <2>2. /\ DOMAIN WithValue(c, a, v) = Fields
        /\ \A z \in Fields : WithValue(c, a, v)[z] =
             IF z = "manifestPath" THEN v ELSE IF z = "writeManifest" THEN TRUE ELSE c[z]
    BY <2>1
  <2> QED
    BY <1>2, <2>2, OptionWords DEF AfterValue
<1>3. CASE a = "--manifest"
  <2>1. WithValue(c, a, v) = [c EXCEPT !["manifestPath"] = v,
                                       !["methods"] = @ \cup {"manifest"}]
    BY <1>3 DEF WithValue
  <2>2. /\ DOMAIN WithValue(c, a, v) = Fields
        /\ \A z \in Fields : WithValue(c, a, v)[z] =
             IF z = "manifestPath" THEN v
             ELSE IF z = "methods" THEN c["methods"] \cup {"manifest"} ELSE c[z]
    BY <2>1
  <2> QED
    BY <1>3, <2>2, OptionWords DEF AfterValue
<1>4. CASE a \in DOMAIN NameOption
  <2>1. WithValue(c, a, v) = [c EXCEPT ![NameOption[a]] = v]
    BY <1>4, OptionWords DEF WithValue
  <2>2. DOMAIN WithValue(c, a, v) = Fields /\ Set(NameOption[a], v)
    BY <1>4, <2>1, OneField
  <2>3. /\ a \notin {"--methods", "--manifest", "--write-manifest", "--disk-profile",
                     "--mft-enum", "--format"}
        /\ a \notin DOMAIN NumberOption
    BY <1>4, OptionWords
  <2> QED
    BY <1>4, <2>2, <2>3 DEF AfterValue
<1>5. CASE a \in DOMAIN NumberOption
  <2>1. WithValue(c, a, v) = [c EXCEPT ![NumberOption[a]] = NumberOf(v)]
    BY <1>5, OptionWords DEF WithValue
  <2>2. DOMAIN WithValue(c, a, v) = Fields /\ Set(NumberOption[a], NumberOf(v))
    BY <1>5, <2>1, OneField
  <2>3. /\ a \notin {"--methods", "--manifest", "--write-manifest", "--disk-profile",
                     "--mft-enum", "--format"}
        /\ a \notin DOMAIN NameOption
    BY <1>5, OptionWords
  <2> QED
    BY <1>5, <2>2, <2>3 DEF AfterValue
<1>6. CASE a \in {"--disk-profile", "--mft-enum", "--format"}
  <2>1. /\ a \notin DOMAIN NameOption /\ a \notin DOMAIN NumberOption
        /\ a \notin {"--methods", "--manifest", "--write-manifest"}
    BY <1>6, OptionWords
  <2>2. CASE a = "--disk-profile"
    <3>1. WithValue(c, a, v) = [c EXCEPT !["diskProfile"] = Profile(v)]
      BY <2>1, <2>2 DEF WithValue
    <3>2. DOMAIN WithValue(c, a, v) = Fields /\ Set("diskProfile", Profile(v))
      BY <3>1, OneField
    <3> QED
      BY <2>1, <2>2, <3>2 DEF AfterValue
  <2>3. CASE a = "--mft-enum"
    <3>1. WithValue(c, a, v) = [c EXCEPT !["mftEnum"] = (v # "off")]
      BY <2>1, <2>3 DEF WithValue
    <3>2. DOMAIN WithValue(c, a, v) = Fields /\ Set("mftEnum", v # "off")
      BY <3>1, OneField
    <3> QED
      BY <2>1, <2>3, <3>2 DEF AfterValue
  <2>4. CASE a = "--format"
    <3>1. WithValue(c, a, v) = [c EXCEPT !["format"] = Format(v)]
      BY <2>1, <2>4 DEF WithValue
    <3>2. DOMAIN WithValue(c, a, v) = Fields /\ Set("format", Format(v))
      BY <3>1, OneField
    <3> QED
      BY <2>1, <2>4, <3>2 DEF AfterValue
  <2> QED
    BY ONLY <1>6, <2>2, <2>3, <2>4
<1> QED
  BY ONLY <1>1, <1>2, <1>3, <1>4, <1>5, <1>6 DEF TakesValue

-----------------------------------------------------------------------------
(* What one more word adds to each kind.                                   *)
Only(n, words) == {k \in {n} : argv[k] \in words}

LEMMA OneMoreWord ==
  ASSUME argv \in Seq(STRING), NEW n \in 1..Len(argv), ~IsValue[n],
         ~(argv[n] \in TakesValue /\ n < Len(argv))
  PROVE  /\ \A W : OptionsTo(n + 1, W) = OptionsTo(n, W) \cup Only(n, W)
         /\ \A W : W \subseteq TakesValue => ValuedTo(n + 1, W) = ValuedTo(n, W)
         /\ RootsTo(n + 1) = IF argv[n] \in Dashed THEN RootsTo(n) ELSE RootsTo(n) \cup {n}
         /\ n + 1 <= Len(argv) => ~IsValue[n + 1]
<1>1. Len(argv) \in Nat /\ DOMAIN argv = 1..Len(argv)
  OBVIOUS
<1>2. 1..n + 1 - 1 = (1..n - 1) \cup {n} /\ n \notin 1..n - 1
  BY <1>1
<1>3. ASSUME NEW W PROVE OptionsTo(n + 1, W) = OptionsTo(n, W) \cup Only(n, W)
  BY <1>1, <1>2 DEF OptionsTo, Options, Only
<1>4. ASSUME NEW W, W \subseteq TakesValue PROVE ValuedTo(n + 1, W) = ValuedTo(n, W)
  <2>1. n \notin Valued(W)
    <3>1. argv[n] \in W => n = Len(argv)
      <4> DEFINE L == Len(argv)
      <4>1. L \in Nat /\ n \in 1..L
        BY <1>1
      <4>2. argv[n] \in W => ~(n < L)
        BY <1>4
      <4> HIDE DEF L
      <4>3. argv[n] \in W => n = L
        BY ONLY <4>1, <4>2
      <4> QED
        BY <4>3 DEF L
    <3> QED
      BY <3>1, Zenon DEF Valued, Options
  <2> QED
    BY <1>2, <2>1 DEF ValuedTo
<1>5. RootsTo(n + 1) = IF argv[n] \in Dashed THEN RootsTo(n) ELSE RootsTo(n) \cup {n}
  BY <1>2 DEF RootsTo
<1>6. n + 1 <= Len(argv) => ~IsValue[n + 1]
  <2>1. ASSUME n + 1 <= Len(argv)
        PROVE  n + 1 \in 0..Len(argv) /\ n + 1 - 1 = n /\ n < Len(argv)
    BY <1>1, <2>1
  <2> QED
    BY <2>1, ValueAfterOption
<1> QED
  BY ONLY <1>3, <1>4, <1>5, <1>6

LEMMA OneMoreValue ==
  ASSUME argv \in Seq(STRING), NEW n \in 1..Len(argv), ~IsValue[n],
         argv[n] \in TakesValue, n < Len(argv)
  PROVE  /\ \A W : OptionsTo(n + 2, W) = OptionsTo(n, W) \cup Only(n, W)
         /\ \A W : ValuedTo(n + 2, W) = ValuedTo(n, W) \cup Only(n, W)
         /\ RootsTo(n + 2) = RootsTo(n)
         /\ n + 2 <= Len(argv) => ~IsValue[n + 2]
<1>1. Len(argv) \in Nat /\ DOMAIN argv = 1..Len(argv)
  OBVIOUS
<1>2. /\ 1..n + 2 - 1 = (1..n - 1) \cup {n, n + 1}
      /\ n \notin 1..n - 1 /\ n + 1 \notin 1..n - 1 /\ n # Len(argv) /\ n # n + 1
      /\ n \in DOMAIN argv
  <2>1. ASSUME NEW k PROVE k \in 1..n + 2 - 1 <=> k \in 1..n - 1 \/ k \in {n, n + 1}
    <3>1. n \in Nat /\ n > 0 /\ n + 2 - 1 = n + 1
      OBVIOUS
    <3>2. k \in 1..n + 1 <=> k \in 1..n - 1 \/ k \in {n, n + 1}
      BY ONLY <3>1
    <3> QED
      BY <3>1, <3>2
  <2>2. n \notin 1..n - 1 /\ n + 1 \notin 1..n - 1 /\ n # n + 1
    OBVIOUS
  <2>3. n # Len(argv)
    <3> DEFINE L == Len(argv)
    <3>1. L \in Nat /\ n < L
      BY <1>1
    <3> HIDE DEF L
    <3>2. n # L
      BY <3>1
    <3> QED
      BY <3>2 DEF L
  <2>4. n \in DOMAIN argv
    BY <1>1
  <2> QED
    BY ONLY <2>1, <2>2, <2>3, <2>4
<1>3. IsValue[n + 1]
  <2>1. n + 1 \in 0..Len(argv) /\ n + 1 - 1 = n /\ n + 1 > 1
    BY <1>1
  <2> QED
    BY <2>1, ValueAfterOption
<1>4. ASSUME NEW W PROVE OptionsTo(n + 2, W) = OptionsTo(n, W) \cup Only(n, W)
  <2> DEFINE Old == 1..n - 1
             New == 1..n + 2 - 1
  <2>1. /\ Options(W) \cap New = OptionsTo(n + 2, W)
        /\ Options(W) \cap Old = OptionsTo(n, W)
    BY DEF OptionsTo
  <2>2. n + 1 \notin Options(W) /\ (n \in Options(W) <=> argv[n] \in W)
    BY <1>2, <1>3, Zenon DEF Options
  <2>3. New = Old \cup {n, n + 1} /\ n \notin Old /\ n + 1 \notin Old /\ n # n + 1
    BY <1>2
  <2> HIDE DEF Old, New
  <2> QED
    BY ONLY <2>1, <2>2, <2>3 DEF Only
<1>5. ASSUME NEW W PROVE ValuedTo(n + 2, W) = ValuedTo(n, W) \cup Only(n, W)
  <2> DEFINE Old == 1..n - 1
             New == 1..n + 2 - 1
  <2>1. /\ Valued(W) \cap New = ValuedTo(n + 2, W)
        /\ Valued(W) \cap Old = ValuedTo(n, W)
    BY DEF ValuedTo
  <2>2. n + 1 \notin Valued(W) /\ (n \in Valued(W) <=> argv[n] \in W)
    BY <1>2, <1>3, Zenon DEF Options, Valued
  <2>3. New = Old \cup {n, n + 1} /\ n \notin Old /\ n + 1 \notin Old /\ n # n + 1
    BY <1>2
  <2> HIDE DEF Old, New
  <2> QED
    BY ONLY <2>1, <2>2, <2>3 DEF Only
<1>6. RootsTo(n + 2) = RootsTo(n)
  <2>1. argv[n] \in Dashed
    BY CommandLineAssumption DEF CommandLineAssumption
  <2> QED
    BY <1>2, <1>3, <2>1 DEF RootsTo
<1>7. n + 2 <= Len(argv) => ~IsValue[n + 2]
  <2>1. ASSUME n + 2 <= Len(argv) PROVE n + 2 \in 0..Len(argv) /\ n + 2 - 1 = n + 1
    BY <1>1, <2>1
  <2> QED
    BY <1>3, <2>1, ValueAfterOption
<1> QED
  BY ONLY <1>4, <1>5, <1>6, <1>7

LEMMA LastOfMore ==
  ASSUME NEW n \in Nat, NEW S, S \subseteq 1..n - 1
  PROVE  LastOf(S \cup {n}) = n
<1>1. n \in S \cup {n} /\ \A m \in S \cup {n} : m <= n
  OBVIOUS
<1>2. ASSUME NEW k \in S \cup {n}, \A m \in S \cup {n} : m <= k PROVE k = n
  BY <1>2
<1> QED
  BY <1>1, <1>2 DEF LastOf

LEMMA FirstOfMore ==
  ASSUME NEW n \in Nat, NEW S, S \subseteq 1..n - 1
  PROVE  FirstOf(S \cup {n}) = IF S = {} THEN n ELSE FirstOf(S)
<1>1. CASE S = {}
  BY <1>1 DEF FirstOf
<1>2. CASE S # {}
  <2>1. PICK x \in S : \A y \in S : x <= y
    <3>1. S \subseteq Nat
      OBVIOUS
    <3> QED
      BY <3>1, <1>2, LeastNumber
  <2>2. FirstOf(S) = x
    <3>1. ASSUME NEW k \in S, \A m \in S : k <= m PROVE k = x
      <4>1. k <= x /\ x <= k /\ k \in Nat /\ x \in Nat
        BY <2>1, <3>1
      <4> QED
        BY ONLY <4>1
    <3> QED
      BY <2>1, <3>1 DEF FirstOf
  <2>3. FirstOf(S \cup {n}) = x
    <3>1. x \in S \cup {n} /\ \A m \in S \cup {n} : x <= m
      BY <2>1
    <3>2. ASSUME NEW k \in S \cup {n}, \A m \in S \cup {n} : k <= m PROVE k = x
      <4>1. k <= x /\ x <= k /\ k \in Nat /\ x \in Nat
        BY <2>1, <3>1, <3>2
      <4> QED
        BY ONLY <4>1
    <3> QED
      BY <3>1, <3>2 DEF FirstOf
  <2> QED
    BY <1>2, <2>2, <2>3
<1> QED
  BY <1>1, <1>2

LEMMA LastExists ==
  ASSUME NEW n \in Nat, NEW S, S \subseteq 1..n, S # {}
  PROVE  LastOf(S) \in S /\ \A k \in S : k <= LastOf(S)
<1> DEFINE T == {n - k : k \in S}
<1>1. T \subseteq Nat /\ T # {}
  <2>1. \A k \in S : n - k \in Nat
    OBVIOUS
  <2> QED
    BY <2>1
<1>2. PICK m \in T : \A t \in T : m <= t
  BY <1>1, LeastNumber
<1>3. PICK k \in S : m = n - k
  BY <1>2
<1>4. \A j \in S : j <= k
  <2> SUFFICES ASSUME NEW j \in S PROVE j <= k
    OBVIOUS
  <2>1. m <= n - j
    BY <1>2
  <2> QED
    BY <1>3, <2>1
<1> QED
  BY <1>4 DEF LastOf

(* What a value adds to the numbers and choices, from word n to word m.    *)
LEMMA ChoicesFollow ==
  ASSUME NEW c, NEW d, NEW a, NEW v, NEW n, NEW m, AfterValue(c, d, a, v),
         \A W : ValueTo(m, W) = IF a \in W THEN v ELSE ValueTo(n, W),
         \A w, z : NumberTo(m, w, z) = IF a = w THEN NumberOf(v) ELSE NumberTo(n, w, z)
  PROVE  /\ ChoicesSaid(c, n) => ChoicesSaid(d, m)
         /\ TeamSaid(c, n) => TeamSaid(d, m)
<1>1. \A w \in DOMAIN NumberOption :
        d[NumberOption[w]] = IF a = w THEN NumberOf(v) ELSE c[NumberOption[w]]
  BY DEF AfterValue
<1>2. /\ d["maxFileBytes"] = IF a = "--max-size" THEN NumberOf(v) ELSE c["maxFileBytes"]
      /\ d["hddBlockSize"] =
           IF a = "--hdd-block-size" THEN NumberOf(v) ELSE c["hddBlockSize"]
      /\ d["threads"] = IF a = "--threads" THEN NumberOf(v) ELSE c["threads"]
      /\ d["readers"] = IF a = "--readers" THEN NumberOf(v) ELSE c["readers"]
  BY ONLY <1>1, OptionWords
<1>3. \A w : ValueTo(m, {w}) = IF a = w THEN v ELSE ValueTo(n, {w})
  OBVIOUS
<1>4. ASSUME TeamSaid(c, n) PROVE TeamSaid(d, m)
  BY <1>2, <1>4 DEF TeamSaid
<1>5. ASSUME ChoicesSaid(c, n) PROVE ChoicesSaid(d, m)
  <2>1. /\ d.diskProfile = IF a = "--disk-profile" THEN Profile(v) ELSE c.diskProfile
        /\ d.mftEnum = IF a = "--mft-enum" THEN (v # "off") ELSE c.mftEnum
        /\ d.format = IF a = "--format" THEN Format(v) ELSE c.format
    BY DEF AfterValue
  <2>2. /\ d.maxFileBytes = NumberTo(m, "--max-size", 0)
        /\ d.hddBlockSize = NumberTo(m, "--hdd-block-size", Default.hddBlockSize)
    BY <1>2, <1>5 DEF ChoicesSaid
  <2>3. d.diskProfile = Profile(ValueTo(m, {"--disk-profile"}))
    BY <1>3, <1>5, <2>1 DEF ChoicesSaid
  <2>4. d.mftEnum = (ValueTo(m, {"--mft-enum"}) # "off")
    BY <1>3, <1>5, <2>1 DEF ChoicesSaid
  <2>5. d.format = Format(ValueTo(m, {"--format"}))
    BY <1>3, <1>5, <2>1 DEF ChoicesSaid
  <2> QED
    BY <2>2, <2>3, <2>4, <2>5 DEF ChoicesSaid
<1> QED
  BY <1>4, <1>5

(* A step that takes a value, one that takes a word alone, and one that    *)
(* takes the root.                                                         *)
LEMMA ValueSaid ==
  ASSUME argv \in Seq(STRING), NEW n \in 1..Len(argv), ~IsValue[n],
         argv[n] \in TakesValue, n < Len(argv),
         NEW c, NEW d, NEW r, Said(c, n, r), AfterValue(c, d, argv[n], argv[n + 1])
  PROVE  Said(d, n + 2, r) /\ (TeamSaid(c, n) => TeamSaid(d, n + 2))
<1> DEFINE a == argv[n]
           v == argv[n + 1]
<1>1. /\ \A W : OptionsTo(n + 2, W) = IF a \in W THEN OptionsTo(n, W) \cup {n}
                                      ELSE OptionsTo(n, W)
      /\ \A W : ValuedTo(n + 2, W) = IF a \in W THEN ValuedTo(n, W) \cup {n}
                                     ELSE ValuedTo(n, W)
      /\ RootsTo(n + 2) = RootsTo(n)
  <2>1. \A W : Only(n, W) = IF a \in W THEN {n} ELSE {}
    BY DEF Only
  <2>2. /\ \A W : OptionsTo(n + 2, W) = OptionsTo(n, W) \cup Only(n, W)
        /\ \A W : ValuedTo(n + 2, W) = ValuedTo(n, W) \cup Only(n, W)
        /\ RootsTo(n + 2) = RootsTo(n)
    BY OneMoreValue
  <2> HIDE DEF a
  <2>3. ASSUME NEW W
        PROVE  /\ OptionsTo(n + 2, W) = IF a \in W THEN OptionsTo(n, W) \cup {n}
                                        ELSE OptionsTo(n, W)
               /\ ValuedTo(n + 2, W) = IF a \in W THEN ValuedTo(n, W) \cup {n}
                                       ELSE ValuedTo(n, W)
    BY ONLY <2>1, <2>2
  <2> QED
    BY ONLY <2>2, <2>3
<1>2. /\ \A W : ValuedTo(n, W) \subseteq 1..n - 1
      /\ \A W : LastOf(ValuedTo(n, W) \cup {n}) = n
  <2>1. ASSUME NEW W PROVE ValuedTo(n, W) \subseteq 1..n - 1
    BY DEF ValuedTo
  <2>2. ASSUME NEW W PROVE LastOf(ValuedTo(n, W) \cup {n}) = n
    <3>1. n \in Nat
      OBVIOUS
    <3> QED
      BY ONLY <2>1, <3>1, LastOfMore
  <2> QED
    BY <2>1, <2>2
<1>3. a \notin DOMAIN Switch /\ a \notin DOMAIN Mode
  BY OptionWords DEF TakesValue
<1>4. SwitchesSaid(d, n + 2)
  <2> SUFFICES ASSUME NEW w \in DOMAIN Switch
               PROVE  d[Switch[w]] \in BOOLEAN /\ (d[Switch[w]] <=> OptionsTo(n + 2, {w}) # {})
    BY DEF SwitchesSaid
  <2>1. OptionsTo(n + 2, {w}) = OptionsTo(n, {w}) /\ d[Switch[w]] = c[Switch[w]]
    BY <1>1, <1>3 DEF AfterValue
  <2> QED
    BY <2>1 DEF Said, SwitchesSaid
<1>5. ModeSaid(d, n + 2)
  <2>1. OptionsTo(n + 2, DOMAIN Mode) = OptionsTo(n, DOMAIN Mode)
        /\ d.deleteMode = c.deleteMode
    BY <1>1, <1>3 DEF AfterValue
  <2> QED
    BY <2>1 DEF Said, ModeSaid
<1>6. RootSaid(d, n + 2, r)
  <2>1. d.root = c.root
    BY DEF AfterValue
  <2> QED
    BY <1>1, <2>1 DEF Said, RootSaid
<1>7. /\ \A W : ValueTo(n + 2, W) = IF a \in W THEN v ELSE ValueTo(n, W)
      /\ \A w, z : NumberTo(n + 2, w, z) = IF a = w THEN NumberOf(v) ELSE NumberTo(n, w, z)
  <2>1. ASSUME NEW W
        PROVE  /\ ValueTo(n + 2, W) = IF a \in W THEN v ELSE ValueTo(n, W)
               /\ a \in W => ValuedTo(n + 2, W) # {}
               /\ a \notin W => ValuedTo(n + 2, W) = ValuedTo(n, W)
    <3>1. CASE a \in W
      <4>1. ValuedTo(n + 2, W) = ValuedTo(n, W) \cup {n}
        BY <1>1, <3>1
      <4>2. LastOf(ValuedTo(n + 2, W)) = n /\ ValuedTo(n + 2, W) # {}
        BY <1>2, <4>1
      <4> QED
        BY ONLY <3>1, <4>2 DEF ValueTo
    <3>2. CASE a \notin W
      <4>1. ValuedTo(n + 2, W) = ValuedTo(n, W)
        BY <1>1, <3>2
      <4> QED
        BY <3>2, <4>1 DEF ValueTo
    <3> QED
      BY <3>1, <3>2
  <2>2. ASSUME NEW w, NEW z
        PROVE  NumberTo(n + 2, w, z) = IF a = w THEN NumberOf(v) ELSE NumberTo(n, w, z)
    <3>1. a \in {w} <=> a = w
      OBVIOUS
    <3> HIDE DEF a, v
    <3> QED
      BY <2>1, <3>1 DEF NumberTo
  <2> QED
    BY <2>1, <2>2
<1>8. NamesSaid(d, n + 2)
  <2>1. ASSUME NEW w \in DOMAIN NameOption PROVE d[NameOption[w]] = ValueTo(n + 2, {w})
    <3>1. c[NameOption[w]] = ValueTo(n, {w})
      BY DEF Said, NamesSaid
    <3>2. d[NameOption[w]] = IF a \in {w} THEN v ELSE c[NameOption[w]]
      BY DEF AfterValue
    <3> QED
      BY <1>7, <3>1, <3>2
  <2>2. d.manifestPath = ValueTo(n + 2, {"--manifest", "--write-manifest"})
    BY <1>7 DEF Said, NamesSaid, AfterValue
  <2>3. d.writeManifest \in BOOLEAN
        /\ (d.writeManifest <=> ValuedTo(n + 2, {"--write-manifest"}) # {})
    BY <1>1 DEF AfterValue, Said, NamesSaid
  <2> QED
    BY <2>1, <2>2, <2>3 DEF NamesSaid
<1>9. ChoicesSaid(d, n + 2) /\ (TeamSaid(c, n) => TeamSaid(d, n + 2))
  <2>1. ChoicesSaid(c, n)
    BY DEF Said
  <2> HIDE DEF a, v
  <2>2. AfterValue(c, d, a, v)
    BY DEF a, v
  <2> QED
    BY ONLY <1>7, <2>1, <2>2, ChoicesFollow
<1>10. MethodsSaid(d, n + 2)
  <2> DEFINE O == ValuedTo(n, {"--methods"})
             M == ValuedTo(n, {"--manifest"})
  <2>1. c.methods = Base(O) \cup (IF Added(n) = {} THEN {} ELSE {"manifest"})
        /\ Added(n) = {k \in M : \A m \in O : m < k}
        /\ Added(n + 2) = {k \in ValuedTo(n + 2, {"--manifest"}) :
                             \A m \in ValuedTo(n + 2, {"--methods"}) : m < k}
    BY DEF Said, MethodsSaid, Added
  <2>2. O \subseteq 1..n - 1 /\ M \subseteq 1..n - 1
    BY <1>2
  <2>3. CASE a = "--methods"
    <3>1. /\ d.methods = ListOf(v)
          /\ ValuedTo(n + 2, {"--methods"}) = O \cup {n}
          /\ ValuedTo(n + 2, {"--manifest"}) = M
      BY <1>1, <2>3 DEF AfterValue
    <3>2. Base(O \cup {n}) = ListOf(v)
      BY <1>2 DEF Base
    <3>3. Added(n + 2) = {}
      <4>1. ASSUME NEW k \in M PROVE ~(n < k)
        BY <2>2
      <4> QED
        BY <2>1, <3>1, <4>1
    <3> QED
      BY <3>1, <3>2, <3>3 DEF MethodsSaid
  <2>4. CASE a = "--manifest"
    <3>1. /\ d.methods = c.methods \cup {"manifest"}
          /\ ValuedTo(n + 2, {"--methods"}) = O
          /\ ValuedTo(n + 2, {"--manifest"}) = M \cup {n}
      BY <1>1, <2>4 DEF AfterValue
    <3>2. n \in Added(n + 2)
      <4>1. \A m \in O : m < n
        BY <2>2
      <4> QED
        BY <2>1, <3>1, <4>1
    <3> QED
      BY <2>1, <3>1, <3>2 DEF MethodsSaid
  <2>5. CASE a \notin {"--methods", "--manifest"}
    <3>1. /\ d.methods = c.methods
          /\ ValuedTo(n + 2, {"--methods"}) = O
          /\ ValuedTo(n + 2, {"--manifest"}) = M
      BY <1>1, <2>5 DEF AfterValue
    <3> QED
      BY <2>1, <3>1 DEF MethodsSaid
  <2> QED
    BY <2>3, <2>4, <2>5
<1> QED
  BY <1>4, <1>5, <1>6, <1>8, <1>9, <1>10 DEF Said

(* From one word to another without an option with a value.                *)
Unvalued(n, m) ==
  /\ \A w \in {"--disk-profile", "--mft-enum", "--format"} :
       ValueTo(m, {w}) = ValueTo(n, {w})
  /\ \A z : \A w \in DOMAIN NumberOption : NumberTo(m, w, z) = NumberTo(n, w, z)

LEMMA SameValues ==
  ASSUME NEW n, NEW m, \A W : W \subseteq TakesValue => ValuedTo(m, W) = ValuedTo(n, W)
  PROVE  Unvalued(n, m)
<1>1. \A w \in DOMAIN NumberOption \cup {"--disk-profile", "--mft-enum", "--format"} :
        {w} \subseteq TakesValue
  BY DEF TakesValue
<1>2. \A w \in DOMAIN NumberOption \cup {"--disk-profile", "--mft-enum", "--format"} :
        ValuedTo(m, {w}) = ValuedTo(n, {w})
  BY <1>1
<1> QED
  BY <1>2 DEF Unvalued, ValueTo, NumberTo

LEMMA WordSaid ==
  ASSUME argv \in Seq(STRING), NEW n \in 1..Len(argv), ~IsValue[n],
         ~(argv[n] \in TakesValue /\ n < Len(argv)),
         NEW c, NEW d, NEW r \in BOOLEAN, Said(c, n, r), argv[n] \in Dashed \/ r,
         AfterWord(c, d, argv[n])
  PROVE  Said(d, n + 1, r) /\ (TeamSaid(c, n) => TeamSaid(d, n + 1))
<1> DEFINE a == argv[n]
<1>1. /\ \A W : OptionsTo(n + 1, W) = IF a \in W THEN OptionsTo(n, W) \cup {n}
                                      ELSE OptionsTo(n, W)
      /\ \A W : W \subseteq TakesValue => ValuedTo(n + 1, W) = ValuedTo(n, W)
      /\ RootsTo(n + 1) = IF a \in Dashed THEN RootsTo(n) ELSE RootsTo(n) \cup {n}
  <2>1. \A W : Only(n, W) = IF a \in W THEN {n} ELSE {}
    BY DEF Only
  <2>2. /\ \A W : OptionsTo(n + 1, W) = OptionsTo(n, W) \cup Only(n, W)
        /\ \A W : W \subseteq TakesValue => ValuedTo(n + 1, W) = ValuedTo(n, W)
        /\ RootsTo(n + 1) = IF a \in Dashed THEN RootsTo(n) ELSE RootsTo(n) \cup {n}
    BY OneMoreWord
  <2> HIDE DEF a
  <2>3. ASSUME NEW W
        PROVE  OptionsTo(n + 1, W) = IF a \in W THEN OptionsTo(n, W) \cup {n}
                                     ELSE OptionsTo(n, W)
    BY ONLY <2>1, <2>2
  <2> QED
    BY ONLY <2>2, <2>3
<1>2. SwitchesSaid(d, n + 1)
  <2> SUFFICES ASSUME NEW w \in DOMAIN Switch
               PROVE  d[Switch[w]] \in BOOLEAN /\ (d[Switch[w]] <=> OptionsTo(n + 1, {w}) # {})
    BY DEF SwitchesSaid
  <2>1. c[Switch[w]] \in BOOLEAN /\ (c[Switch[w]] <=> OptionsTo(n, {w}) # {})
    BY DEF Said, SwitchesSaid
  <2>2. CASE a = w
    <3>1. d[Switch[w]] = TRUE /\ n \in OptionsTo(n + 1, {w})
      BY <1>1, <2>2 DEF AfterWord
    <3> QED
      BY ONLY <3>1
  <2>3. CASE a # w
    <3>1. d[Switch[w]] = c[Switch[w]] /\ OptionsTo(n + 1, {w}) = OptionsTo(n, {w})
      BY <1>1, <2>3 DEF AfterWord
    <3> QED
      BY ONLY <2>1, <3>1
  <2> QED
    BY <2>2, <2>3
<1>3. ModeSaid(d, n + 1)
  <2> DEFINE O == OptionsTo(n, DOMAIN Mode)
  <2>1. CASE a \in DOMAIN Mode
    <3>1. OptionsTo(n + 1, DOMAIN Mode) = O \cup {n} /\ d.deleteMode = Mode[a]
      BY <1>1, <2>1 DEF AfterWord
    <3>2. n \in Nat /\ O \subseteq 1..n - 1
      BY DEF OptionsTo
    <3>3. LastOf(O \cup {n}) = n
      BY ONLY <3>2, LastOfMore
    <3> QED
      BY <3>1, <3>3 DEF ModeSaid
  <2>2. CASE a \notin DOMAIN Mode
    <3>1. OptionsTo(n + 1, DOMAIN Mode) = O /\ d.deleteMode = c.deleteMode
      BY <1>1, <2>2 DEF AfterWord
    <3> QED
      BY <3>1 DEF Said, ModeSaid
  <2> QED
    BY <2>1, <2>2
<1>4. RootSaid(d, n + 1, r)
  <2>1. d.root = c.root
    BY DEF AfterWord
  <2>2. (r <=> RootsTo(n) # {})
        /\ c.root = IF RootsTo(n) = {} THEN Default.root ELSE argv[FirstOf(RootsTo(n))]
    BY DEF Said, RootSaid
  <2>3. CASE a \in Dashed
    <3>1. RootsTo(n + 1) = RootsTo(n)
      BY <1>1, <2>3
    <3> QED
      BY <2>1, <2>2, <3>1 DEF RootSaid
  <2>4. CASE a \notin Dashed
    <3>1. RootsTo(n + 1) = RootsTo(n) \cup {n} /\ r /\ RootsTo(n) # {}
      BY <1>1, <2>2, <2>4
    <3>2. n \in Nat /\ RootsTo(n) \subseteq 1..n - 1
      BY DEF RootsTo
    <3>3. FirstOf(RootsTo(n + 1)) = FirstOf(RootsTo(n))
      BY ONLY <3>1, <3>2, FirstOfMore
    <3> QED
      BY ONLY <2>1, <2>2, <3>1, <3>3 DEF RootSaid
  <2> QED
    BY <2>3, <2>4
<1>5. \A W : W \subseteq TakesValue => ValuedTo(n + 1, W) = ValuedTo(n, W)
  BY <1>1
<1>6. /\ {"--manifest", "--write-manifest"} \subseteq TakesValue
      /\ {"--manifest"} \subseteq TakesValue /\ {"--write-manifest"} \subseteq TakesValue
      /\ {"--methods"} \subseteq TakesValue
      /\ \A w \in DOMAIN NameOption : {w} \subseteq TakesValue
  BY DEF TakesValue
<1>7. NamesSaid(d, n + 1)
  BY <1>5, <1>6 DEF Said, NamesSaid, ValueTo, AfterWord
<1>8. Unvalued(n, n + 1)
  BY <1>5, SameValues
<1>9. ChoicesSaid(d, n + 1) /\ (TeamSaid(c, n) => TeamSaid(d, n + 1))
  <2>1. /\ d.maxFileBytes = c.maxFileBytes /\ d.hddBlockSize = c.hddBlockSize
        /\ d.threads = c.threads /\ d.readers = c.readers
        /\ d.diskProfile = c.diskProfile /\ d.mftEnum = c.mftEnum /\ d.format = c.format
    BY OptionWords DEF AfterWord
  <2> QED
    BY <1>8, <2>1, OptionWords DEF Said, ChoicesSaid, TeamSaid, Unvalued
<1>10. MethodsSaid(d, n + 1)
  <2>1. Added(n + 1) = Added(n)
    BY <1>5, <1>6 DEF Added
  <2>2. d.methods = c.methods /\ ValuedTo(n + 1, {"--methods"}) = ValuedTo(n, {"--methods"})
    BY <1>5, <1>6 DEF AfterWord
  <2> QED
    BY <2>1, <2>2 DEF Said, MethodsSaid
<1> QED
  BY <1>2, <1>3, <1>4, <1>7, <1>10, <1>9 DEF Said

LEMMA RootStep ==
  ASSUME argv \in Seq(STRING), NEW n \in 1..Len(argv), ~IsValue[n], argv[n] \notin Dashed,
         NEW c, DOMAIN c = Fields, Said(c, n, FALSE)
  PROVE  /\ Said([c EXCEPT !.root = argv[n]], n + 1, TRUE)
         /\ TeamSaid(c, n) => TeamSaid([c EXCEPT !.root = argv[n]], n + 1)
<1> DEFINE a == argv[n]
           d == [c EXCEPT !["root"] = a]
<1>1. /\ DOMAIN Switch \subseteq Dashed /\ DOMAIN Mode \subseteq Dashed
      /\ TakesValue \subseteq Dashed
  BY CommandLineAssumption DEF CommandLineAssumption
<1>2. \A z \in Fields : d[z] = IF z = "root" THEN a ELSE c[z]
  BY OneField, FieldNames DEF Others
<1> HIDE DEF d
<1>3. ~(a \in TakesValue /\ n < Len(argv))
  BY <1>1
<1>4. /\ \A W : W \subseteq Dashed => OptionsTo(n + 1, W) = OptionsTo(n, W)
      /\ \A W : W \subseteq TakesValue => ValuedTo(n + 1, W) = ValuedTo(n, W)
      /\ RootsTo(n + 1) = RootsTo(n) \cup {n}
  <2>1. /\ \A W : OptionsTo(n + 1, W) = OptionsTo(n, W) \cup Only(n, W)
        /\ \A W : W \subseteq TakesValue => ValuedTo(n + 1, W) = ValuedTo(n, W)
        /\ RootsTo(n + 1) = RootsTo(n) \cup {n}
    BY <1>3, OneMoreWord
  <2>2. \A W : W \subseteq Dashed => Only(n, W) = {}
    BY DEF Only
  <2> QED
    BY ONLY <2>1, <2>2
<1>5. SwitchesSaid(d, n + 1)
  <2> SUFFICES ASSUME NEW w \in DOMAIN Switch
               PROVE  d[Switch[w]] \in BOOLEAN /\ (d[Switch[w]] <=> OptionsTo(n + 1, {w}) # {})
    BY DEF SwitchesSaid
  <2>1. OptionsTo(n + 1, {w}) = OptionsTo(n, {w}) /\ d[Switch[w]] = c[Switch[w]]
    BY <1>1, <1>2, <1>4, FieldNames DEF OptionFields, Others
  <2> QED
    BY <2>1 DEF Said, SwitchesSaid
<1>6. ModeSaid(d, n + 1)
  <2>1. OptionsTo(n + 1, DOMAIN Mode) = OptionsTo(n, DOMAIN Mode)
        /\ d.deleteMode = c.deleteMode
    BY <1>1, <1>2, <1>4, FieldNames DEF Others
  <2> QED
    BY <2>1 DEF Said, ModeSaid
<1>7. RootSaid(d, n + 1, TRUE)
  <2>1. d.root = a /\ RootsTo(n) = {} /\ RootsTo(n + 1) = {n}
    BY <1>2, <1>4, FieldNames DEF Said, RootSaid, Others
  <2>2. FirstOf({n}) = n
    BY DEF FirstOf
  <2> QED
    BY <2>1, <2>2 DEF RootSaid
<1>8. /\ {"--manifest", "--write-manifest"} \subseteq TakesValue
       /\ {"--manifest"} \subseteq TakesValue /\ {"--write-manifest"} \subseteq TakesValue
       /\ {"--methods"} \subseteq TakesValue
       /\ \A w \in DOMAIN NameOption : {w} \subseteq TakesValue
  BY DEF TakesValue
<1>9. /\ d.manifestPath = c.manifestPath /\ d.writeManifest = c.writeManifest
       /\ d.methods = c.methods
       /\ \A w \in DOMAIN NameOption : d[NameOption[w]] = c[NameOption[w]]
  BY <1>2, FieldNames DEF OptionFields, Others
<1>10. NamesSaid(d, n + 1)
  BY <1>4, <1>8, <1>9 DEF Said, NamesSaid, ValueTo
<1>11. MethodsSaid(d, n + 1)
  <2>1. /\ Added(n + 1) = Added(n)
        /\ ValuedTo(n + 1, {"--methods"}) = ValuedTo(n, {"--methods"})
    BY <1>4, <1>8 DEF Added
  <2> QED
    BY <1>9, <2>1 DEF Said, MethodsSaid
<1>12. ChoicesSaid(d, n + 1) /\ (TeamSaid(c, n) => TeamSaid(d, n + 1))
  <2>1. Unvalued(n, n + 1)
    BY <1>4, SameValues
  <2>2. /\ d.maxFileBytes = c.maxFileBytes /\ d.hddBlockSize = c.hddBlockSize
        /\ d.threads = c.threads /\ d.readers = c.readers
        /\ d.diskProfile = c.diskProfile /\ d.mftEnum = c.mftEnum /\ d.format = c.format
    BY <1>2, OptionWords, FieldNames DEF OptionFields, Others
  <2> QED
    BY <2>1, <2>2, OptionWords DEF Said, ChoicesSaid, TeamSaid, Unvalued
<1>13. Said(d, n + 1, TRUE) /\ (TeamSaid(c, n) => TeamSaid(d, n + 1))
  BY <1>5, <1>6, <1>7, <1>10, <1>11, <1>12 DEF Said
<1> QED
  BY <1>13 DEF d

-----------------------------------------------------------------------------
(* The reading of the line, as an invariant of the whole run: StartUp      *)
(* afterwards sets numbers of threads and readers only.                    *)
ReadInv ==
  /\ setup \in Setups /\ argv = setup.argv
  /\ LineInv
  /\ pc = "parse" => TeamSaid(cfg, i)
  /\ TeamKept(cfg, i)

LEMMA GreaterOf ==
  ASSUME NEW a \in Nat, NEW b \in Nat
  PROVE  Max({a, b}) \in Nat /\ Max({a, b}) >= a
<1>1. CASE a >= b
  <2>1. a \in {a, b} /\ \A y \in {a, b} : a >= y
    BY <1>1
  <2>2. Max({a, b}) \in {a, b} /\ \A y \in {a, b} : Max({a, b}) >= y
    BY <2>1 DEF Max
  <2> QED
    BY <2>2
<1>2. CASE ~(a >= b)
  <2>1. b \in {a, b} /\ \A y \in {a, b} : b >= y
    BY <1>2
  <2>2. Max({a, b}) \in {a, b} /\ \A y \in {a, b} : Max({a, b}) >= y
    BY <2>1 DEF Max
  <2> QED
    BY <2>2
<1> QED
  BY <1>1, <1>2

LEMMA ReadInit == Init => ReadInv
<1> SUFFICES ASSUME Init PROVE ReadInv
  OBVIOUS
<1>1. /\ setup \in Setups /\ argv = setup.argv /\ argv \in Seq(STRING)
      /\ i = 1 /\ cfg = Default /\ rootSet = FALSE
  BY SessionAssumption DEF SessionAssumption, Init
<1>2. Len(argv) \in Nat /\ (1 <= Len(argv) => ~IsValue[1])
  <2>1. Len(argv) \in Nat /\ (1 <= Len(argv) => 1 \in 0..Len(argv))
    BY <1>1
  <2> QED
    BY <1>1, <2>1, ValueAfterOption
<1>3. LineTyped
  <2>1. DOMAIN cfg = Fields /\ Numbered(cfg)
    BY <1>1, DefaultFields, Zenon DEF Fields, Numbered
  <2>2. i \in 1..Len(argv) + 1 /\ (i <= Len(argv) => ~IsValue[i])
    BY <1>1, <1>2
  <2> QED
    BY <1>1, <2>1, <2>2 DEF LineTyped
<1>4. /\ \A W : OptionsTo(1, W) = {} /\ ValuedTo(1, W) = {}
      /\ RootsTo(1) = {}
  <2>1. 1..1 - 1 = {}
    OBVIOUS
  <2> QED
    BY <2>1 DEF OptionsTo, ValuedTo, RootsTo
<1>5. Said(Default, 1, FALSE) /\ TeamSaid(Default, 1)
  <2>1. SwitchesSaid(Default, 1)
    BY <1>4, DefaultFields DEF SwitchesSaid
  <2>2. ModeSaid(Default, 1)
    BY <1>4, DefaultFields DEF ModeSaid
  <2>3. RootSaid(Default, 1, FALSE)
    BY <1>4 DEF RootSaid
  <2>4. NamesSaid(Default, 1)
    BY <1>4, DefaultFields DEF NamesSaid, ValueTo
  <2>5. MethodsSaid(Default, 1)
    BY <1>4 DEF MethodsSaid, Base, Added
  <2>6. /\ \A W : ValueTo(1, W) = ""
        /\ \A w, z : NumberTo(1, w, z) = z
    BY <1>4 DEF ValueTo, NumberTo
  <2>7. ChoicesSaid(Default, 1) /\ TeamSaid(Default, 1)
    BY <2>6, DefaultFields DEF ChoicesSaid, TeamSaid
  <2> QED
    BY <2>1, <2>2, <2>3, <2>4, <2>5, <2>7 DEF Said
<1> QED
  BY <1>1, <1>3, <1>5 DEF ReadInv, LineInv, TeamSaid, TeamKept

(* What a configuration says of the same line in the next state.           *)
LEMMA SameLine ==
  ASSUME argv' = argv, LineTyped', Said(cfg', i', rootSet'), setup' = setup, ReadInv,
         pc' = "parse" => TeamSaid(cfg', i'), TeamKept(cfg', i')
  PROVE  ReadInv'
<1>1. IsValue' = IsValue
  BY DEF IsValue
<1> USE DEF OptionsTo, ValuedTo, Valued, Options, RootsTo
<1>2. SwitchesSaid(cfg, i)'
  BY <1>1 DEF Said, SwitchesSaid
<1>3. ModeSaid(cfg, i)'
  BY <1>1 DEF Said, ModeSaid
<1>4. RootSaid(cfg, i, rootSet)'
  BY <1>1 DEF Said, RootSaid
<1>5. NamesSaid(cfg, i)'
  BY <1>1 DEF Said, NamesSaid, ValueTo
<1>6. MethodsSaid(cfg, i)'
  BY <1>1 DEF Said, MethodsSaid, Base, Added
<1>7. ChoicesSaid(cfg, i)'
  BY <1>1 DEF Said, ChoicesSaid, NumberTo, ValueTo
<1>8. (pc = "parse" => TeamSaid(cfg, i))' /\ TeamKept(cfg, i)'
  BY <1>1 DEF TeamSaid, TeamKept, NumberTo, ValueTo
<1>9. Said(cfg, i, rootSet)'
  BY <1>2, <1>3, <1>4, <1>5, <1>6, <1>7 DEF Said
<1> QED
  BY <1>8, <1>9 DEF ReadInv, LineInv

LEMMA ReadWord == ReadInv /\ Parse => ReadInv'
<1> SUFFICES ASSUME ReadInv, Parse PROVE ReadInv'
  OBVIOUS
<1> DEFINE n == i
           a == argv[i]
<1>1. /\ argv \in Seq(STRING) /\ i \in 1..Len(argv) /\ ~IsValue[i] /\ DOMAIN cfg = Fields
      /\ Numbered(cfg) /\ Said(cfg, i, rootSet) /\ rootSet \in BOOLEAN /\ Len(argv) \in Nat
      /\ TeamSaid(cfg, i)
  BY DEF ReadInv, LineInv, LineTyped, Parse, ParseWord
<1>2. /\ argv' = argv /\ setup' = setup
      /\ cfg' = IF HasValue(a) THEN WithValue(cfg, a, argv[i + 1])
                ELSE IF IsRoot(a) THEN [cfg EXCEPT !.root = a] ELSE Alone(cfg, a)
      /\ i' = IF HasValue(a) THEN i + 2 ELSE i + 1
      /\ rootSet' = (rootSet \/ (~HasValue(a) /\ IsRoot(a)))
  BY DEF Parse, ParseWord, sessionVars
<1>3. HasValue(a) <=> a \in TakesValue /\ i < Len(argv)
  BY DEF HasValue
<1>4. IsValue' = IsValue
  BY <1>2 DEF IsValue
<1>5. CASE HasValue(a)
  <2>1. AfterValue(cfg, cfg', a, argv[i + 1]) /\ i' = i + 2 /\ rootSet' = rootSet
    BY <1>1, <1>2, <1>3, <1>5, ValueSets
  <2>2. Said(cfg', i', rootSet') /\ TeamSaid(cfg', i')
    BY <1>1, <1>3, <1>5, <2>1, ValueSaid
  <2>3. i' \in 1..Len(argv) + 1 /\ (i' <= Len(argv) => ~IsValue[i'])
    <3>1. i + 2 <= Len(argv) => ~IsValue[i + 2]
      BY <1>1, <1>3, <1>5, OneMoreValue
    <3> QED
      BY <1>1, <1>3, <1>5, <2>1, <3>1
  <2>4. Numbered(cfg')
    <3>1. NumberOf(argv[i + 1]) \in Nat
      BY CommandLineAssumption DEF CommandLineAssumption, NumberOf
    <3> QED
      BY <1>1, <2>1, <3>1 DEF AfterValue, Numbered
  <2>5. LineTyped'
    <3>1. DOMAIN cfg' = Fields
      BY <2>1 DEF AfterValue
    <3> QED
      BY <1>1, <1>2, <1>4, <2>1, <2>3, <2>4, <3>1 DEF LineTyped, Numbered
  <2> QED
    BY <1>2, <2>2, <2>5, SameLine DEF TeamSaid, TeamKept
<1>6. CASE ~HasValue(a)
  <2>1. i' = i + 1
    BY <1>2, <1>6
  <2>2. i' \in 1..Len(argv) + 1 /\ (i' <= Len(argv) => ~IsValue[i'])
    <3>1. i + 1 <= Len(argv) => ~IsValue[i + 1]
      BY <1>1, <1>3, <1>6, OneMoreWord
    <3> QED
      BY <1>1, <2>1, <3>1
  <2>3. DOMAIN cfg' = Fields /\ Numbered(cfg') /\ Said(cfg', i', rootSet')
        /\ rootSet' \in BOOLEAN /\ TeamSaid(cfg', i')
    <3>1. CASE IsRoot(a)
      <4>1. cfg' = [cfg EXCEPT !["root"] = a] /\ rootSet' = TRUE /\ rootSet = FALSE
            /\ a \notin Dashed
        BY <1>1, <1>2, <1>6, <3>1 DEF IsRoot
      <4>2. Said(cfg', i', rootSet') /\ TeamSaid(cfg', i')
        BY <1>1, <2>1, <4>1, RootStep
      <4>3. Numbered(cfg')
        BY <1>1, <4>1, FieldNames DEF Numbered, Others, OptionFields
      <4>4. DOMAIN cfg' = Fields
        BY <1>1, <4>1
      <4> QED
        BY <4>1, <4>2, <4>3, <4>4
    <3>2. CASE ~IsRoot(a)
      <4>1. cfg' = Alone(cfg, a) /\ rootSet' = rootSet /\ (a \in Dashed \/ rootSet)
        BY <1>1, <1>2, <1>6, <3>2 DEF IsRoot
      <4>2. AfterWord(cfg, cfg', a)
        BY <1>1, <4>1, WordSets
      <4>3. Said(cfg', i', rootSet') /\ TeamSaid(cfg', i')
        BY <1>1, <1>3, <1>6, <2>1, <4>1, <4>2, WordSaid
      <4>4. DOMAIN cfg' = Fields /\ Numbered(cfg')
        BY <1>1, <4>2 DEF AfterWord, Numbered
      <4> QED
        BY <1>1, <4>1, <4>3, <4>4
    <3> QED
      BY <3>1, <3>2
  <2>4. LineTyped'
    BY <1>1, <1>2, <1>4, <2>2, <2>3 DEF LineTyped, Numbered
  <2> QED
    BY <1>2, <2>3, <2>4, SameLine DEF TeamSaid, TeamKept
<1> QED
  BY <1>5, <1>6

LEMMA ReadStartUp ==
  ReadInv /\ StartUp => ReadInv' /\ cfg'.threads >= 1 /\ (~isSsd' => cfg'.readers >= 1)
                         /\ cfg'.diskProfile = cfg.diskProfile
<1> SUFFICES ASSUME ReadInv, StartUp
             PROVE  ReadInv' /\ cfg'.threads >= 1 /\ (~isSsd' => cfg'.readers >= 1)
                      /\ cfg'.diskProfile = cfg.diskProfile
  OBVIOUS
<1> USE DEF D
<1> DEFINE threads == IF cfg.threads = 0 THEN Max({IF isSsd' THEN 2 ELSE 1, D.cpus})
                      ELSE cfg.threads
           readers == IF ~isSsd' /\ cfg.readers = 0
                      THEN Max({1, Cardinality(get_volume_disk_numbers)}) ELSE cfg.readers
<1>1. /\ argv \in Seq(STRING) /\ i \in 1..Len(argv) + 1 /\ (i <= Len(argv) => ~IsValue[i])
      /\ DOMAIN cfg = Fields /\ Numbered(cfg) /\ Said(cfg, i, rootSet) /\ rootSet \in BOOLEAN
      /\ setup \in Setups /\ TeamKept(cfg, i)
  BY DEF ReadInv, LineInv, LineTyped
<1>2. /\ argv' = argv /\ setup' = setup /\ i' = i /\ rootSet' = rootSet /\ pc' = "scan"
      /\ cfg' = [cfg EXCEPT !["threads"] = threads, !["readers"] = readers]
  BY DEF StartUp
<1>3. IsValue' = IsValue
  BY <1>2 DEF IsValue
<1>4. cfg["threads"] \in Nat /\ cfg["readers"] \in Nat
  BY <1>1, OptionWords DEF Numbered
<1>5. threads \in Nat /\ threads >= 1
  <2>1. D.cpus \in Nat
    BY <1>1, SessionAssumption DEF SessionAssumption
  <2>2. (IF isSsd' THEN 2 ELSE 1) \in Nat /\ (IF isSsd' THEN 2 ELSE 1) >= 1
    OBVIOUS
  <2>3. /\ Max({IF isSsd' THEN 2 ELSE 1, D.cpus}) \in Nat
        /\ Max({IF isSsd' THEN 2 ELSE 1, D.cpus}) >= (IF isSsd' THEN 2 ELSE 1)
    BY ONLY <2>1, <2>2, GreaterOf
  <2> QED
    BY <1>4, <2>2, <2>3
<1>6. readers \in Nat /\ (~isSsd' => readers >= 1)
  <2>1. Cardinality(get_volume_disk_numbers) \in Nat
    <3>1. D.disks \in Nat
      BY <1>1, SessionAssumption DEF SessionAssumption
    <3>2. IsFiniteSet(1..D.disks)
      <4> HIDE DEF D
      <4> QED
        BY ONLY <3>1, FS_Interval
    <3> QED
      BY <3>2, FS_CardinalityType DEF get_volume_disk_numbers
  <2>2. /\ Max({1, Cardinality(get_volume_disk_numbers)}) \in Nat
        /\ Max({1, Cardinality(get_volume_disk_numbers)}) >= 1
    BY <2>1, GreaterOf
  <2> QED
    BY <1>4, <2>2
<1> HIDE DEF threads, readers
<1>7. /\ DOMAIN cfg' = Fields
      /\ \A z \in Fields : cfg'[z] = IF z = "threads" THEN threads
                                     ELSE IF z = "readers" THEN readers ELSE cfg[z]
  BY <1>1, <1>2
<1>8. Numbered(cfg')
  BY <1>1, <1>5, <1>6, <1>7, FieldNames DEF Numbered, OptionFields
<1>9. LineTyped'
  BY <1>1, <1>2, <1>3, <1>7, <1>8 DEF LineTyped, Numbered
<1>10. /\ \A w \in DOMAIN Switch : cfg'[Switch[w]] = cfg[Switch[w]]
       /\ \A w \in DOMAIN NameOption : cfg'[NameOption[w]] = cfg[NameOption[w]]
       /\ \A z \in Others \cup {"maxFileBytes", "hddBlockSize"} : cfg'[z] = cfg[z]
  BY <1>7, FieldNames, OptionWords DEF OptionFields, Others
<1>11. Said(cfg', i, rootSet)
  <2>1. SwitchesSaid(cfg', i)
    BY <1>1, <1>10 DEF Said, SwitchesSaid
  <2>2. ModeSaid(cfg', i)
    BY <1>1, <1>10 DEF Said, ModeSaid, Others
  <2>3. RootSaid(cfg', i, rootSet)
    BY <1>1, <1>10 DEF Said, RootSaid, Others
  <2>4. NamesSaid(cfg', i)
    BY <1>1, <1>10 DEF Said, NamesSaid, ValueTo, Others
  <2>5. MethodsSaid(cfg', i)
    BY <1>1, <1>10 DEF Said, MethodsSaid, Others
  <2>6. ChoicesSaid(cfg', i)
    <3>1. /\ cfg'["maxFileBytes"] = cfg["maxFileBytes"]
          /\ cfg'["hddBlockSize"] = cfg["hddBlockSize"]
          /\ cfg'["diskProfile"] = cfg["diskProfile"]
          /\ cfg'["mftEnum"] = cfg["mftEnum"] /\ cfg'["format"] = cfg["format"]
      BY <1>10 DEF Others
    <3> QED
      BY <1>1, <3>1 DEF Said, ChoicesSaid
  <2> QED
    BY <2>1, <2>2, <2>3, <2>4, <2>5, <2>6 DEF Said
<1>12. /\ cfg'.threads >= 1 /\ (~isSsd' => cfg'.readers >= 1)
       /\ cfg'.diskProfile = cfg.diskProfile
  BY <1>5, <1>6, <1>7, <1>10, FieldNames, OptionWords DEF OptionFields, Others
<1>13. TeamKept(cfg', i)
  <2>1. /\ cfg'["threads"] = threads /\ cfg'["readers"] = readers
        /\ cfg["threads"] # 0 => threads = cfg["threads"]
        /\ cfg["readers"] # 0 => readers = cfg["readers"]
    BY <1>7, FieldNames, OptionWords DEF OptionFields, threads, readers
  <2> QED
    BY <1>1, <2>1 DEF TeamKept
<1> QED
  BY <1>2, <1>9, <1>11, <1>12, <1>13, SameLine

LEMMA ReadInvariance == Spec => []ReadInv
<1>1. ReadInv /\ [Next]_vars => ReadInv'
  <2> SUFFICES ASSUME ReadInv, [Next]_vars PROVE ReadInv'
    OBVIOUS
  <2>1. CASE Parse
    BY <2>1, ReadWord
  <2>2. CASE StartUp
    BY <2>2, ReadStartUp
  <2>3. CASE UNCHANGED <<commandLineVars, setup>> /\ (pc' = "parse" => pc = "parse")
    <3>1. IsValue' = IsValue
      BY <2>3 DEF commandLineVars, IsValue
    <3>2. LineTyped'
      BY <2>3, <3>1 DEF commandLineVars, ReadInv, LineInv, LineTyped, Numbered
    <3> QED
      BY <2>3, <3>2, SameLine DEF commandLineVars, ReadInv, LineInv
  <2> QED
    BY <2>1, <2>2, <2>3 DEF Next, Leave, ScanFile, EndPass, Finish, Sigint, Done, vars,
       sessionVars
<1> QED
  BY ReadInit, <1>1, PTL DEF Spec

(* The configuration is the one the whole line says, in every field it     *)
(* has (Config.cpp:47-142), for every line, every set of lists, numbers    *)
(* and dashed words; threads and readers are those of the line unless it   *)
(* says 0.                                                                 *)
THEOREM LineRead == Spec => []ParsedAsRead
<1>1. ReadInv => ParsedAsRead
  <2> SUFFICES ASSUME ReadInv, Parsed PROVE ParsedAsRead
    BY DEF ParsedAsRead
  <2>1. /\ argv \in Seq(STRING) /\ Len(argv) \in Nat /\ DOMAIN argv = 1..Len(argv)
        /\ i = Len(argv) + 1 /\ Said(cfg, i, rootSet)
    BY DEF ReadInv, LineInv, LineTyped, Parsed
  <2>2. DOMAIN argv = 1..i - 1
    BY <2>1
  <2>3. /\ \A W : OptionsTo(i, W) = Options(W)
        /\ \A W : ValuedTo(i, W) = Valued(W)
        /\ RootsTo(i) = {k \in DOMAIN argv : argv[k] \notin Dashed /\ ~IsValue[k]}
    BY <2>2 DEF OptionsTo, ValuedTo, RootsTo, Options, Valued
  <2>4. /\ \A W : ValueTo(i, W) = ValueOf(W)
        /\ \A w, z : NumberTo(i, w, z) = NumberAt(w, z)
    <3>1. ASSUME NEW W PROVE ValueTo(i, W) = ValueOf(W)
      <4>1. ValuedTo(i, W) = Valued(W)
        BY ONLY <2>3
      <4> QED
        BY ONLY <4>1 DEF ValueTo, ValueOf
    <3>2. ASSUME NEW w, NEW z PROVE NumberTo(i, w, z) = NumberAt(w, z)
      <4>1. ValuedTo(i, {w}) = Valued({w}) /\ ValueTo(i, {w}) = ValueOf({w})
        BY ONLY <2>3, <3>1
      <4> QED
        BY ONLY <4>1 DEF NumberTo, NumberAt
    <3> QED
      BY <3>1, <3>2
  <2>5. \A w \in DOMAIN Switch : cfg[Switch[w]] <=> IsOn(w)
    BY <2>1, <2>3 DEF Said, SwitchesSaid, IsOn
  <2>6. /\ cfg.allChecks <=> IsOn("--all-checks")
        /\ cfg.includeSuspect <=> IsOn("--include-suspect")
        /\ cfg.permanent <=> IsOn("--permanent")
        /\ cfg.assumeYes <=> IsOn("--yes")
        /\ cfg.forceSystem <=> IsOn("--force-system")
        /\ cfg.noProgress <=> IsOn("--no-progress")
        /\ cfg.followLinks <=> IsOn("--follow-links")
        /\ cfg.physicalOrder <=> IsOn("--physical-order")
        /\ cfg.noCache <=> IsOn("--no-cache")
        /\ cfg.headerFirst <=> IsOn("--header-first")
    BY <2>5, OptionWords
  <2>7. LET m == Options({"--delete-all", "--report-only"}) IN
          cfg.deleteMode = IF m = {} THEN "Interactive"
                           ELSE IF argv[LastOf(m)] = "--delete-all" THEN "All" ELSE "None"
    <3> DEFINE m == Options({"--delete-all", "--report-only"})
    <3>1. cfg.deleteMode = IF m = {} THEN "Interactive" ELSE Mode[argv[LastOf(m)]]
      BY <2>1, <2>3, OptionWords DEF Said, ModeSaid
    <3>2. m # {} => argv[LastOf(m)] \in {"--delete-all", "--report-only"}
      <4>1. m \subseteq 1..Len(argv)
        BY <2>1 DEF Options
      <4>2. m # {} => LastOf(m) \in m
        BY <2>1, <4>1, LastExists
      <4> QED
        BY <4>2 DEF Options
    <3>3. Mode["--delete-all"] = "All" /\ Mode["--report-only"] = "None"
      BY DEF Mode, FieldBy
    <3> QED
      BY <3>1, <3>2, <3>3
  <2>8. cfg.root = IF RootsTo(i) = {} THEN Default.root ELSE argv[FirstOf(RootsTo(i))]
    BY <2>1 DEF Said, RootSaid
  <2>9. /\ cfg.auditLogPath = ValueOf({"--audit-log"})
        /\ cfg.scanCachePath = ValueOf({"--scan-cache"})
        /\ cfg.reportPath = ValueOf({"--report"})
        /\ cfg.manifestPath = ValueOf({"--manifest", "--write-manifest"})
        /\ cfg.writeManifest <=> Valued({"--write-manifest"}) # {}
    BY <2>1, <2>3, <2>4, OptionWords DEF Said, NamesSaid
  <2>10. cfg.methods =
           (IF Valued({"--methods"}) = {} THEN Default.methods
            ELSE ListOf(ValueOf({"--methods"})))
           \cup (IF {k \in Valued({"--manifest"}) :
                       \A m \in Valued({"--methods"}) : m < k} = {}
                 THEN {} ELSE {"manifest"})
    BY <2>1, <2>3 DEF Said, MethodsSaid, Added, Base, ValueOf
  <2>11. /\ cfg.maxFileBytes = NumberAt("--max-size", 0)
         /\ cfg.hddBlockSize = NumberAt("--hdd-block-size", Default.hddBlockSize)
         /\ cfg.mftEnum <=> ValueOf({"--mft-enum"}) # "off"
         /\ cfg.diskProfile = Profile(ValueOf({"--disk-profile"}))
         /\ cfg.format = Format(ValueOf({"--format"}))
    BY <2>1, <2>4 DEF Said, ChoicesSaid
  <2>12. /\ pc = "parse" \/ NumberAt("--threads", 0) # 0 =>
              cfg.threads = NumberAt("--threads", 0)
         /\ pc = "parse" \/ NumberAt("--readers", 0) # 0 =>
              cfg.readers = NumberAt("--readers", 0)
    BY <2>4 DEF ReadInv, TeamSaid, TeamKept
  <2>13. LET word == ValueOf({"--disk-profile"}) IN
           /\ cfg.diskProfile = "Hdd" <=> word = "hdd"
           /\ cfg.diskProfile = "Ssd" <=> word = "ssd"
           /\ cfg.diskProfile = "Network" <=> word = "network"
           /\ cfg.diskProfile = "Auto" <=> word \notin {"hdd", "ssd", "network"}
    BY <2>11 DEF Profile
  <2>14. LET word == ValueOf({"--format"}) IN
           /\ cfg.format = "Json" <=> word = "json"
           /\ cfg.format = "Csv" <=> word = "csv"
           /\ cfg.format = "Text" <=> word \notin {"json", "csv"}
    BY <2>11 DEF Format
  <2> QED
    BY <2>3, <2>6, <2>7, <2>8, <2>9, <2>10, <2>11, <2>12, <2>13, <2>14, Zenon
       DEF ParsedAsRead, FirstOf
<1> QED
  BY ReadInvariance, <1>1, PTL

-----------------------------------------------------------------------------
(* The pipeline.  Whatever the methods, "io" stands once and before the    *)
(* detectors that need its hash, and sorting by cost keeps it so.          *)
Late == {"io", "manifest", "entropy"}
Names == {"size", "magic", "png", "gzip", "zip", "jpeg", "pdf", "mp4", "mkv", "flac",
          "sqlite"} \cup Late

HashFirst(s) ==
  /\ s \in Seq(Names)
  /\ \A j, k \in DOMAIN s : s[j] = "io" /\ s[k] \in Late => j <= k

LEMMA TwoParts ==
  ASSUME NEW s \in Seq(Names), NEW t \in Seq(Names), NEW k \in DOMAIN (s \o t)
  PROVE  \/ k \in DOMAIN s /\ (s \o t)[k] = s[k]
         \/ /\ k - Len(s) \in DOMAIN t /\ (s \o t)[k] = t[k - Len(s)]
            /\ \A j \in DOMAIN s : j <= k
OBVIOUS

LEMMA JoinParts ==
  ASSUME NEW s \in Seq(Names), NEW t \in Seq(Names)
  PROVE  /\ s \o t \in Seq(Names)
         /\ Range(s) \subseteq Range(s \o t) /\ Range(t) \subseteq Range(s \o t)
         /\ Range(s \o t) \subseteq Range(s) \cup Range(t)
<1>1. s \o t \in Seq(Names)
  OBVIOUS
<1>2. ASSUME NEW k \in DOMAIN s PROVE s[k] \in Range(s \o t)
  <2>1. k \in DOMAIN (s \o t) /\ (s \o t)[k] = s[k]
    OBVIOUS
  <2> QED
    BY <2>1, Zenon DEF Range
<1>3. ASSUME NEW k \in DOMAIN t PROVE t[k] \in Range(s \o t)
  <2>1. k + Len(s) \in DOMAIN (s \o t) /\ (s \o t)[k + Len(s)] = t[k]
    OBVIOUS
  <2> QED
    BY <2>1, Zenon DEF Range
<1>4. Range(s \o t) \subseteq Range(s) \cup Range(t)
  <2>1. ASSUME NEW k \in DOMAIN (s \o t) PROVE (s \o t)[k] \in Range(s) \cup Range(t)
    BY TwoParts DEF Range
  <2> QED
    BY <2>1, Zenon DEF Range
<1>5. Range(s) \subseteq Range(s \o t) /\ Range(t) \subseteq Range(s \o t)
  BY <1>2, <1>3, Zenon DEF Range
<1> QED
  BY <1>1, <1>4, <1>5

LEMMA HashFirstJoined ==
  ASSUME NEW s \in Seq(Names), NEW t \in Seq(Names), HashFirst(s), HashFirst(t),
         Range(s) \cap Late = {} \/ "io" \notin Range(t)
  PROVE  HashFirst(s \o t)
<1> DEFINE u == s \o t
<1>1. ASSUME NEW j \in DOMAIN u, NEW k \in DOMAIN u, u[j] = "io", u[k] \in Late
      PROVE  j <= k
  <2>1. \/ j \in DOMAIN s /\ u[j] = s[j]
        \/ /\ j - Len(s) \in DOMAIN t /\ u[j] = t[j - Len(s)]
           /\ \A m \in DOMAIN s : m <= j
    BY TwoParts
  <2>2. \/ k \in DOMAIN s /\ u[k] = s[k]
        \/ /\ k - Len(s) \in DOMAIN t /\ u[k] = t[k - Len(s)]
           /\ \A m \in DOMAIN s : m <= k
    BY TwoParts
  <2>3. /\ \A m \in DOMAIN s : s[m] \in Range(s)
        /\ \A m \in DOMAIN t : t[m] \in Range(t)
    BY Zenon DEF Range
  <2>4. Len(s) \in Nat /\ j \in Nat /\ k \in Nat
    OBVIOUS
  <2> HIDE DEF u
  <2>5. CASE j \in DOMAIN s /\ u[j] = s[j]
    BY <1>1, <2>2, <2>5 DEF HashFirst
  <2>6. CASE j - Len(s) \in DOMAIN t /\ u[j] = t[j - Len(s)] /\ \A m \in DOMAIN s : m <= j
    <3>1. "io" \in Range(t)
      BY <1>1, <2>3, <2>6
    <3>2. ~(k \in DOMAIN s /\ u[k] = s[k])
      BY <1>1, <2>3, <3>1
    <3>3. j - Len(s) <= k - Len(s)
      BY <1>1, <2>2, <2>6, <3>2 DEF HashFirst
    <3> QED
      BY <2>4, <3>3
  <2> QED
    BY <2>1, <2>5, <2>6
<1>2. s \o t \in Seq(Names)
  BY JoinParts
<1> QED
  BY <1>1, <1>2 DEF HashFirst

LEMMA MethodsInOrder ==
  ASSUME NEW c
  PROVE  /\ HashFirst(ByMethod(c))
         /\ "manifest" \in c.methods => {"io", "manifest"} \subseteq Range(ByMethod(c))
         /\ "size" \in c.methods => "size" \in Range(ByMethod(c))
<1> DEFINE If(wanted, s) == IF wanted THEN s ELSE <<>>
           M(name) == name \in c.methods
           s1 == If(M("size"), <<"size">>)
           s2 == If(M("magic"), <<"magic">>)
           s3 == If(M("io") \/ M("manifest") \/ M("entropy") \/ c.writeManifest, <<"io">>)
           s4 == If(M("struct"), <<"png", "gzip", "zip", "jpeg", "pdf", "mp4", "mkv",
                                   "flac", "sqlite">>)
           s5 == If(M("manifest"), <<"manifest">>)
           s6 == If(M("entropy"), <<"entropy">>)
<1>1. ByMethod(c) = s1 \o s2 \o s3 \o s4 \o s5 \o s6
  BY DEF ByMethod
<1>2. ASSUME NEW n \in Names
      PROVE  <<n>> \in Seq(Names) /\ Range(<<n>>) = {n} /\ HashFirst(<<n>>)
  <2>1. <<n>> \in Seq(Names) /\ DOMAIN <<n>> = {1} /\ <<n>>[1] = n
    OBVIOUS
  <2> QED
    BY <2>1 DEF Range, HashFirst
<1>3. <<>> \in Seq(Names) /\ Range(<<>>) = {} /\ HashFirst(<<>>)
  <2>1. <<>> \in Seq(Names) /\ DOMAIN <<>> = {}
    OBVIOUS
  <2> QED
    BY <2>1 DEF Range, HashFirst
<1>4. /\ s1 \in Seq(Names) /\ HashFirst(s1) /\ Range(s1) \cap Late = {}
      /\ M("size") => "size" \in Range(s1)
  <2>1. "size" \in Names \ Late
    BY DEF Names, Late
  <2> QED
    BY <1>2, <1>3, <2>1
<1>5. s2 \in Seq(Names) /\ HashFirst(s2) /\ Range(s2) \cap Late = {}
  <2>1. "magic" \in Names \ Late
    BY DEF Names, Late
  <2> QED
    BY <1>2, <1>3, <2>1
<1>6. /\ s3 \in Seq(Names) /\ HashFirst(s3)
      /\ M("manifest") => "io" \in Range(s3)
  <2>1. "io" \in Names
    BY DEF Names, Late
  <2> QED
    BY <1>2, <1>3, <2>1
<1>7. s4 \in Seq(Names) /\ HashFirst(s4) /\ "io" \notin Range(s4)
  <2>1. CASE M("struct")
    <3> DEFINE p == <<"png", "gzip", "zip", "jpeg", "pdf", "mp4", "mkv", "flac", "sqlite">>
    <3>1. p \in Seq(Names)
      BY DEF Names
    <3>2. \A k \in DOMAIN p : p[k] \notin Late
      BY DEF Late
    <3>3. HashFirst(p) /\ "io" \notin Range(p)
      BY <3>1, <3>2 DEF HashFirst, Range, Late
    <3> QED
      BY <2>1, <3>1, <3>3
  <2>2. CASE ~M("struct")
    BY <1>3, <2>2
  <2> QED
    BY <2>1, <2>2
<1>8. /\ s5 \in Seq(Names) /\ HashFirst(s5) /\ "io" \notin Range(s5)
      /\ M("manifest") => "manifest" \in Range(s5)
  <2>1. "manifest" \in Names
    BY DEF Names, Late
  <2> QED
    BY <1>2, <1>3, <2>1
<1>9. s6 \in Seq(Names) /\ HashFirst(s6) /\ "io" \notin Range(s6)
  <2>1. "entropy" \in Names
    BY DEF Names, Late
  <2> QED
    BY <1>2, <1>3, <2>1
<1> HIDE DEF s1, s2, s3, s4, s5, s6
<1>10. /\ HashFirst(s1 \o s2) /\ s1 \o s2 \in Seq(Names)
       /\ Range(s1 \o s2) \cap Late = {} /\ Range(s1) \subseteq Range(s1 \o s2)
  BY <1>4, <1>5, JoinParts, HashFirstJoined
<1>11. /\ HashFirst(s1 \o s2 \o s3) /\ s1 \o s2 \o s3 \in Seq(Names)
       /\ Range(s3) \cup Range(s1) \subseteq Range(s1 \o s2 \o s3)
  BY <1>6, <1>10, JoinParts, HashFirstJoined
<1>12. /\ HashFirst(s1 \o s2 \o s3 \o s4) /\ s1 \o s2 \o s3 \o s4 \in Seq(Names)
       /\ Range(s3) \cup Range(s1) \subseteq Range(s1 \o s2 \o s3 \o s4)
  <2> DEFINE t == s1 \o s2 \o s3
  <2>1. HashFirst(t) /\ t \in Seq(Names) /\ Range(s3) \cup Range(s1) \subseteq Range(t)
    BY <1>11
  <2> HIDE DEF t
  <2>2. HashFirst(t \o s4) /\ t \o s4 \in Seq(Names) /\ Range(t) \subseteq Range(t \o s4)
    BY <1>7, <2>1, JoinParts, HashFirstJoined
  <2> QED
    BY <2>1, <2>2 DEF t
<1>13. /\ HashFirst(s1 \o s2 \o s3 \o s4 \o s5) /\ s1 \o s2 \o s3 \o s4 \o s5 \in Seq(Names)
       /\ Range(s3) \cup Range(s1) \cup Range(s5) \subseteq Range(s1 \o s2 \o s3 \o s4 \o s5)
  <2> DEFINE t == s1 \o s2 \o s3 \o s4
  <2>1. HashFirst(t) /\ t \in Seq(Names) /\ Range(s3) \cup Range(s1) \subseteq Range(t)
    BY <1>12
  <2> HIDE DEF t
  <2>2. /\ HashFirst(t \o s5) /\ t \o s5 \in Seq(Names)
        /\ Range(t) \cup Range(s5) \subseteq Range(t \o s5)
    BY <1>8, <2>1, JoinParts, HashFirstJoined
  <2> QED
    BY <2>1, <2>2 DEF t
<1>14. /\ HashFirst(ByMethod(c))
       /\ Range(s3) \cup Range(s1) \cup Range(s5) \subseteq Range(ByMethod(c))
  <2> DEFINE t == s1 \o s2 \o s3 \o s4 \o s5
  <2>1. /\ HashFirst(t) /\ t \in Seq(Names)
        /\ Range(s3) \cup Range(s1) \cup Range(s5) \subseteq Range(t)
    BY <1>13
  <2>2. ByMethod(c) = t \o s6
    BY <1>1
  <2> HIDE DEF t
  <2>3. HashFirst(t \o s6) /\ Range(t) \subseteq Range(t \o s6)
    BY <1>9, <2>1, JoinParts, HashFirstJoined
  <2> QED
    BY <2>1, <2>2, <2>3
<1> QED
  BY <1>4, <1>6, <1>8, <1>14

(* The place in the order by cost is that of one detector only.            *)
Before(s, k) ==
  {j \in DOMAIN s : \/ Cost(s[j]) < Cost(s[k])
                    \/ Cost(s[j]) = Cost(s[k]) /\ j <= k}

LEMMA PlacesDiffer ==
  ASSUME NEW s \in Seq(Names)
  PROVE  /\ \A k \in DOMAIN s : Place(s, k) \in DOMAIN s
         /\ \A j, k \in DOMAIN s : j # k => Place(s, j) # Place(s, k)
         /\ \A j, k \in DOMAIN s : Cost(s[j]) = Cost(s[k]) /\ j <= k =>
              Place(s, j) <= Place(s, k)
         /\ \A n \in DOMAIN s : \E k \in DOMAIN s : Place(s, k) = n
<1>1. Len(s) \in Nat /\ DOMAIN s = 1..Len(s)
  OBVIOUS
<1>2. IsFiniteSet(DOMAIN s) /\ Cardinality(DOMAIN s) = Len(s)
  BY <1>1, FS_Interval
<1>3. \A k : Place(s, k) = Cardinality(Before(s, k)) /\ Before(s, k) \subseteq DOMAIN s
  BY Zenon DEF Place, Before
<1>4. \A k : Place(s, k) \in Nat /\ Place(s, k) <= Len(s) /\ IsFiniteSet(Before(s, k))
  BY <1>2, <1>3, FS_Subset, FS_CardinalityType
<1>5. \A d : Cost(d) \in Nat
  BY DEF Cost
<1>6. ASSUME NEW k \in DOMAIN s PROVE k \in Before(s, k) /\ Place(s, k) \in 1..Len(s)
  <2>1. k \in Before(s, k)
    BY <1>1, <1>5 DEF Before
  <2>2. Place(s, k) # 0
    BY <1>3, <1>4, <2>1, FS_EmptySet
  <2> QED
    BY <1>1, <1>4, <2>1, <2>2
<1>7. ASSUME NEW j \in DOMAIN s, NEW k \in DOMAIN s,
             Cost(s[j]) < Cost(s[k]) \/ (Cost(s[j]) = Cost(s[k]) /\ j <= k)
      PROVE  Place(s, j) <= Place(s, k) /\ (j # k => Place(s, j) # Place(s, k))
  <2>1. ASSUME NEW m \in Before(s, j) PROVE m \in Before(s, k)
    <3> DEFINE a == Cost(s[m])
               b == Cost(s[j])
               c == Cost(s[k])
    <3>1. m \in DOMAIN s /\ m \in Nat /\ j \in Nat /\ k \in Nat
          /\ (a < b \/ (a = b /\ m <= j)) /\ (b < c \/ (b = c /\ j <= k))
      BY <1>1, <1>7 DEF Before
    <3>2. a \in Nat /\ b \in Nat /\ c \in Nat
      BY <1>5
    <3>3. a < c \/ (a = c /\ m <= k)
      <4> HIDE DEF a, b, c
      <4> QED
        BY ONLY <3>1, <3>2
    <3> QED
      BY <3>1, <3>3 DEF Before
  <2>2. Before(s, j) \in SUBSET Before(s, k)
    BY <2>1
  <2>3. Place(s, j) <= Place(s, k)
        /\ (Place(s, j) = Place(s, k) => Before(s, j) = Before(s, k))
    BY <1>3, <1>4, <2>2, FS_Subset
  <2>4. ASSUME j # k PROVE k \notin Before(s, j)
    <3> DEFINE b == Cost(s[j])
               c == Cost(s[k])
    <3>1. b \in Nat /\ c \in Nat /\ j \in Nat /\ k \in Nat
          /\ (b < c \/ (b = c /\ j <= k))
      BY <1>1, <1>5, <1>7
    <3>2. ~(c < b \/ (c = b /\ k <= j))
      <4> HIDE DEF b, c
      <4> QED
        BY <2>4, <3>1
    <3> QED
      BY <3>2 DEF Before
  <2> QED
    BY <1>6, <2>3, <2>4
<1>8. \A j, k \in DOMAIN s : j # k => Place(s, j) # Place(s, k)
  <2> SUFFICES ASSUME NEW j \in DOMAIN s, NEW k \in DOMAIN s, j # k
               PROVE  Place(s, j) # Place(s, k)
    OBVIOUS
  <2>1. \/ Cost(s[j]) < Cost(s[k]) \/ (Cost(s[j]) = Cost(s[k]) /\ j <= k)
        \/ Cost(s[k]) < Cost(s[j]) \/ (Cost(s[k]) = Cost(s[j]) /\ k <= j)
    <3>1. Cost(s[j]) \in Nat /\ Cost(s[k]) \in Nat /\ j \in Nat /\ k \in Nat
      BY <1>1, <1>5
    <3> QED
      BY ONLY <3>1
  <2> QED
    BY <1>7, <2>1
<1>9. \A n \in DOMAIN s : \E k \in DOMAIN s : Place(s, k) = n
  <2> DEFINE f == [k \in DOMAIN s |-> Place(s, k)]
  <2>1. f \in Injection(DOMAIN s, DOMAIN s)
    BY <1>1, <1>6, <1>8 DEF Injection, IsInjective
  <2>2. f \in Surjection(DOMAIN s, DOMAIN s)
    BY <1>2, <2>1, FS_Injection
  <2> QED
    BY <2>2 DEF Surjection
<1> QED
  BY <1>1, <1>6, <1>7, <1>8, <1>9

LEMMA PipelineInOrder ==
  ASSUME NEW c
  PROVE  /\ HashFirst(build_pipeline(c))
         /\ Range(build_pipeline(c)) = Range(ByMethod(c))
<1> DEFINE s == ByMethod(c)
           P == build_pipeline(c)
           At(n) == CHOOSE k \in DOMAIN s : Place(s, k) = n
<1>1. /\ s \in Seq(Names) /\ \A j, k \in DOMAIN s : s[j] = "io" /\ s[k] \in Late => j <= k
  BY MethodsInOrder DEF HashFirst
<1>2. P = [n \in DOMAIN s |-> s[At(n)]]
  BY DEF build_pipeline
<1> HIDE DEF s, P
<1>3. Len(s) \in Nat /\ DOMAIN s = 1..Len(s)
  BY <1>1
<1>4. ASSUME NEW n \in DOMAIN s PROVE At(n) \in DOMAIN s /\ Place(s, At(n)) = n
  BY <1>1, PlacesDiffer
<1> HIDE DEF At
<1>5. P \in Seq(Names) /\ DOMAIN P = DOMAIN s
  <2>1. P \in [1..Len(s) -> Names]
    BY <1>1, <1>2, <1>3, <1>4
  <2> QED
    BY <1>3, <2>1
<1>6. ASSUME NEW j \in DOMAIN P, NEW k \in DOMAIN P, P[j] = "io", P[k] \in Late
      PROVE  j <= k
  <2>1. s[At(j)] = "io" /\ s[At(k)] \in Late /\ At(j) \in DOMAIN s /\ At(k) \in DOMAIN s
        /\ Place(s, At(j)) = j /\ Place(s, At(k)) = k
    BY <1>2, <1>4, <1>5, <1>6
  <2>2. Cost(s[At(j)]) = 3 /\ Cost(s[At(k)]) = 3
    BY <2>1 DEF Cost, Late
  <2>3. At(j) <= At(k)
    BY <1>1, <2>1
  <2> QED
    BY <1>1, <2>1, <2>2, <2>3, PlacesDiffer
<1>7. Range(P) = Range(s)
  <2>1. ASSUME NEW n \in DOMAIN P PROVE P[n] \in Range(s)
    BY <1>2, <1>4, <1>5 DEF Range
  <2>2. ASSUME NEW k \in DOMAIN s PROVE s[k] \in Range(P)
    <3>1. Place(s, k) \in DOMAIN s
      BY <1>1, PlacesDiffer
    <3>2. At(Place(s, k)) = k
      BY <1>1, <1>4, <3>1, PlacesDiffer
    <3>3. P[Place(s, k)] = s[k]
      BY <1>2, <3>1, <3>2
    <3> QED
      BY <1>5, <3>1, <3>3, Zenon DEF Range
  <2> QED
    BY <2>1, <2>2, Zenon DEF Range
<1> QED
  BY <1>5, <1>6, <1>7 DEF HashFirst, s, P

-----------------------------------------------------------------------------
(* The verdict.  What the hash detector leaves behind matters to those     *)
(* that need the hash only.                                                *)
ContextFields ==
  {"path", "file", "size", "ext", "buffer", "footer", "bufferLoaded", "footerLoaded",
   "isStreaming", "isPartial", "hashValid", "entropyKnown", "parts"}

LEMMA SeverityRange == \A v : severity(v) \in {0, 1, 3} /\ severity("Corrupt") = 3
BY DEF severity

LEMMA HashOnly ==
  ASSUME NEW fc, DOMAIN fc = ContextFields, NEW methods
  PROVE  LET h == AfterIoHash(fc, methods) IN
         /\ DOMAIN h = ContextFields /\ h.file = fc.file
         /\ AfterIoHash(h, methods) = h
         /\ \A d, ml : Applies(d, h, ml) <=> Applies(d, fc, ml)
         /\ \A d \in Names \ Late : Check(d, h) = Check(d, fc)
<1> DEFINE h == AfterIoHash(fc, methods)
<1>1. CASE h = fc
  BY <1>1
<1>2. CASE h # fc
  <2>1. h = [fc EXCEPT !["hashValid"] = TRUE,
               !["entropyKnown"] = "entropy" \in methods /\ stream_file(fc.file).got > 0]
    BY <1>2, Zenon DEF AfterIoHash
  <2>2. /\ h.file = fc.file /\ h.size = fc.size /\ h.ext = fc.ext /\ h.buffer = fc.buffer
        /\ h.footer = fc.footer /\ h.bufferLoaded = fc.bufferLoaded
        /\ h.footerLoaded = fc.footerLoaded /\ h.isStreaming = fc.isStreaming
        /\ h.hashValid = TRUE /\ DOMAIN h = ContextFields
    BY <2>1 DEF ContextFields
  <2> HIDE DEF h
  <2>3. AfterIoHash(h, methods) = h
    BY <2>2 DEF AfterIoHash
  <2>4. \A d, ml : Applies(d, h, ml) <=> Applies(d, fc, ml)
    BY <2>2 DEF Applies
  <2>5. SizeDetector(h) = SizeDetector(fc)
    BY <2>2 DEF SizeDetector
  <2>6. MagicDetector(h) = MagicDetector(fc)
    BY <2>2 DEF MagicDetector
  <2>7. InBuffer(h) = InBuffer(fc) /\ Seen(h) = Seen(fc)
    BY <2>2 DEF InBuffer, Seen
  <2>8. PngDetector(h) = PngDetector(fc) /\ ZipDetector(h) = ZipDetector(fc)
    BY <2>2, <2>7 DEF PngDetector, ZipDetector
  <2>9. GzipDetector(h) = GzipDetector(fc) /\ JpegDetector(h) = JpegDetector(fc)
    BY <2>2 DEF GzipDetector, JpegDetector
  <2>10. PdfDetector(h) = PdfDetector(fc) /\ Mp4Detector(h) = Mp4Detector(fc)
    BY <2>2 DEF PdfDetector, Mp4Detector
  <2>11. /\ MkvDetector(h) = MkvDetector(fc) /\ FlacDetector(h) = FlacDetector(fc)
         /\ SqliteDetector(h) = SqliteDetector(fc)
    BY <2>2 DEF MkvDetector, FlacDetector, SqliteDetector, HeaderDetector
  <2>12. ASSUME NEW d \in Names \ Late PROVE Check(d, h) = Check(d, fc)
    BY <2>2, <2>5, <2>6, <2>8, <2>9, <2>10, <2>11 DEF Check, Names, Late
  <2> QED
    BY <2>2, <2>3, <2>4, <2>12 DEF h
<1> QED
  BY <1>1, <1>2

(* What a detector of the pipeline p sees of a context.                    *)
SeenBy(d, p, fc, methods) ==
  IF d \in {"manifest", "entropy"} /\ "io" \in Range(p) THEN AfterIoHash(fc, methods) ELSE fc

LEMMA JudgeIsWorst ==
  ASSUME NEW p, HashFirst(p), NEW fc, DOMAIN fc = ContextFields, NEW c, NEW ml
  PROVE  /\ \A d \in Range(p) : Applies(d, fc, ml) =>
              severity(Check(d, SeenBy(d, p, fc, c.methods))) <= severity(Judge(p, fc, c, ml))
         /\ \/ severity(Judge(p, fc, c, ml)) = 0
            \/ \E d \in Range(p) :
                 /\ Applies(d, fc, ml)
                 /\ severity(Judge(p, fc, c, ml)) =
                      severity(Check(d, SeenBy(d, p, fc, c.methods)))
<1> DEFINE n == Len(p)
           h == AfterIoHash(fc, c.methods)
           sev(k) == severity(Check(p[k], SeenBy(p[k], p, fc, c.methods)))
           on(k) == Applies(p[k], fc, ml)
           start == [worst |-> "Ok", fc |-> fc]
           Stop(st) == st.worst = "Corrupt" /\ ~c.allChecks
           W == {"Ok"} \cup {Check(p[k], fc) : k \in 1..n}
                \cup {Check(p[k], h) : k \in 1..n}
           S == [worst : W, fc : {fc, h}]
           step == [k \in 1..n |-> [st \in S |-> RunDetector(p[k], st, c, ml)]]
           Run(A) == A = [k \in 0..n |-> IF k = 0 THEN start
                                         ELSE RunDetector(p[k], A[k - 1], c, ml)]
<1>1. /\ p \in Seq(Names) /\ n \in Nat /\ DOMAIN p = 1..n
      /\ \A j, k \in 1..n : p[j] = "io" /\ p[k] \in Late => j <= k
      /\ \A k \in 1..n : p[k] \in Names
  BY DEF HashFirst
<1>14. \A d : d \in Range(p) <=> \E k \in 1..n : d = p[k]
  <2>1. DOMAIN p = 1..n
    BY <1>1
  <2> QED
    BY <2>1, Zenon DEF Range
<1>2. /\ DOMAIN h = ContextFields /\ h.file = fc.file
      /\ AfterIoHash(h, c.methods) = h
      /\ \A d : Applies(d, h, ml) <=> Applies(d, fc, ml)
      /\ \A d \in Names \ Late : Check(d, h) = Check(d, fc)
  BY HashOnly, Zenon
<1> HIDE DEF n, h
<1>3. step \in [1..n -> [S -> S]]
  <2>0. \A k \in 1..n : \A x \in {fc, h} : Check(p[k], x) \in W
    OBVIOUS
  <2> HIDE DEF W
  <2> SUFFICES ASSUME NEW k \in 1..n, NEW st \in S PROVE RunDetector(p[k], st, c, ml) \in S
    <3> HIDE DEF S
    <3> QED
      OBVIOUS
  <2>1. st.worst \in W /\ st.fc \in {fc, h}
    OBVIOUS
  <2>2. Check(p[k], st.fc) \in W
    BY <2>0, <2>1
  <2>3. Worse(st.worst, Check(p[k], st.fc)) \in W
    BY <2>1, <2>2 DEF Worse
  <2>4. AfterIoHash(st.fc, c.methods) \in {fc, h}
    BY <1>2, <2>1 DEF h
  <2>5. \A w \in W : \A x \in {fc, h} : [worst |-> w, fc |-> x] \in S
    OBVIOUS
  <2> HIDE DEF S
  <2> QED
    BY <2>1, <2>3, <2>4, <2>5 DEF RunDetector
<1>4. PICK A \in [0..n -> S] : Recursive(A, n, start, step)
  <2>1. start \in S
    <3>1. "Ok" \in W /\ fc \in {fc, h}
      OBVIOUS
    <3> HIDE DEF W
    <3> QED
      BY <3>1
  <2>2. n \in Nat
    BY <1>1
  <2> HIDE DEF start, S, step
  <2> QED
    BY ONLY <1>3, <2>1, <2>2, RecursiveExists
<1>5. Run(A)
  <2> SUFFICES ASSUME NEW k \in 0..n
               PROVE  A[k] = IF k = 0 THEN start ELSE RunDetector(p[k], A[k - 1], c, ml)
    <3>1. A = [k \in 0..n |-> A[k]]
      BY <1>4
    <3> QED
      BY <3>1, Zenon
  <2>1. A[k] = IF k = 0 THEN start ELSE step[k][A[k - 1]]
    BY <1>4, Zenon DEF Recursive
  <2>2. k # 0 => k \in 1..n /\ A[k - 1] \in S
    BY <1>1, <1>4
  <2>3. k # 0 => step[k][A[k - 1]] = RunDetector(p[k], A[k - 1], c, ml)
    BY <2>2
  <2> QED
    BY <2>1, <2>3
<1> DEFINE F == CHOOSE B : Run(B)
<1>6. Run(F)
  <2> HIDE DEF Run
  <2> QED
    BY <1>5
<1>7. Judge(p, fc, c, ml) = F[n].worst
  BY Zenon DEF Judge, n
<1> HIDE DEF F
<1>8. F[0] = start
  BY <1>1, <1>6
<1>9. \A k \in 1..n : F[k] = RunDetector(p[k], F[k - 1], c, ml)
  BY <1>1, <1>6
<1> DEFINE Hashed(k) == \E j \in 1..k : p[j] = "io"
           Good(k) ==
             /\ \A j \in 1..k : on(j) => sev(j) <= severity(F[k].worst)
             /\ severity(F[k].worst) = 0
                \/ \E j \in 1..k : on(j) /\ severity(F[k].worst) = sev(j)
             /\ Stop(F[k]) \/ F[k].fc = IF Hashed(k) THEN h ELSE fc
           T == {k \in 0..n : Good(k)}
<1>10. 0 \in T
  <2>1. 1..0 = {}
    OBVIOUS
  <2>2. F[0].worst = "Ok" /\ F[0].fc = fc /\ severity("Ok") = 0
    BY <1>8 DEF severity
  <2>3. Good(0)
    BY <2>1, <2>2
  <2> HIDE DEF Good
  <2> QED
    BY <1>1, <2>3
<1>11. ASSUME NEW k \in 1..n, k - 1 \in T PROVE k \in T
  <2>1. Good(k - 1)
    BY <1>11
  <2>2. 1..k = (1..k - 1) \cup {k} /\ k \in 0..n /\ k - 1 \in 0..n /\ k \notin 1..k - 1
    BY <1>1
  <2>3. F[k] = RunDetector(p[k], F[k - 1], c, ml)
    BY <1>9
  <2>4. /\ \A v : severity(v) \in {0, 1, 3}
        /\ severity("Corrupt") = 3
    BY SeverityRange
  <2> HIDE DEF T
  <2>5. CASE Stop(F[k - 1])
    <3>1. F[k] = F[k - 1]
      BY <2>3, <2>5 DEF RunDetector
    <3>2. severity(F[k].worst) = 3
      BY <2>4, <2>5, <3>1
    <3>3. \A j \in 1..k : on(j) => sev(j) <= severity(F[k].worst)
      BY <2>4, <3>2
    <3>4. \E j \in 1..k : on(j) /\ severity(F[k].worst) = sev(j)
      BY <2>1, <2>2, <3>1, <3>2
    <3>5. Good(k)
      BY <2>5, <3>1, <3>3, <3>4
    <3> QED
      BY <2>2, <3>5 DEF T
  <2>6. CASE ~Stop(F[k - 1])
    <3> DEFINE x == F[k - 1].fc
    <3>1. x = IF Hashed(k - 1) THEN h ELSE fc
      BY <2>1, <2>6
    <3>2. Applies(p[k], x, ml) <=> on(k)
      BY <1>2, <3>1
    <3>3. CASE ~on(k)
      <4>1. F[k] = F[k - 1]
        BY <2>3, <3>2, <3>3 DEF RunDetector
      <4>2. p[k] # "io"
        BY <3>3 DEF Applies, Extensions
      <4>3. Hashed(k) <=> Hashed(k - 1)
        BY <2>2, <4>2
      <4>4. Good(k)
        BY <2>1, <2>2, <3>3, <4>1, <4>3
      <4> QED
        BY <2>2, <4>4 DEF T
    <3>4. CASE on(k)
      <4>1. F[k] = [worst |-> Worse(F[k - 1].worst, Check(p[k], x)),
                    fc |-> IF p[k] = "io" THEN AfterIoHash(x, c.methods) ELSE x]
        BY <2>3, <2>6, <3>2, <3>4, Zenon DEF RunDetector
      <4>2. F[k].fc = IF Hashed(k) THEN h ELSE fc
        <5>1. CASE p[k] = "io"
          <6>1. Hashed(k) /\ AfterIoHash(x, c.methods) = h
            BY <1>2, <2>2, <3>1, <5>1 DEF h
          <6> QED
            BY <4>1, <5>1, <6>1
        <5>2. CASE p[k] # "io"
          <6>1. Hashed(k) <=> Hashed(k - 1)
            BY <2>2, <5>2
          <6> QED
            BY <3>1, <4>1, <5>2, <6>1
        <5> QED
          BY <5>1, <5>2
      <4>3. Check(p[k], x) = Check(p[k], SeenBy(p[k], p, fc, c.methods))
        <5>1. CASE p[k] \in Names \ Late
          <6>1. SeenBy(p[k], p, fc, c.methods) = fc
            BY <5>1 DEF SeenBy, Late
          <6> QED
            BY <1>2, <3>1, <5>1, <6>1
        <5>2. CASE p[k] = "io"
          <6>1. ~Hashed(k - 1)
            BY <1>1, <2>2, <5>2 DEF Late
          <6>2. SeenBy(p[k], p, fc, c.methods) = fc
            BY <5>2 DEF SeenBy
          <6> QED
            BY <3>1, <6>1, <6>2
        <5>3. CASE p[k] \in {"manifest", "entropy"}
          <6>1. "io" \in Range(p) <=> \E j \in 1..n : p[j] = "io"
            BY <1>14, Zenon
          <6>2. (\E j \in 1..n : p[j] = "io") <=> Hashed(k - 1)
            <7>1. ASSUME NEW j \in 1..n, p[j] = "io" PROVE j \in 1..k - 1
              <8>1. j <= k /\ j # k
                BY <1>1, <5>3, <7>1 DEF Late
              <8> QED
                BY <1>1, <8>1
            <7> QED
              BY <1>1, <2>2, <7>1
          <6>3. SeenBy(p[k], p, fc, c.methods) = IF Hashed(k - 1) THEN h ELSE fc
            BY <5>3, <6>1, <6>2 DEF SeenBy, h
          <6> QED
            BY <3>1, <6>3
        <5> QED
          BY <1>1, <5>1, <5>2, <5>3 DEF Late
      <4>4. F[k].worst = Worse(F[k - 1].worst, Check(p[k], x))
        BY <4>1
      <4>5. /\ severity(F[k].worst) \in {severity(F[k - 1].worst), sev(k)}
            /\ severity(F[k].worst) >= severity(F[k - 1].worst)
            /\ severity(F[k].worst) >= sev(k)
        BY <2>4, <4>3, <4>4 DEF Worse
      <4>6. \A j \in 1..k : on(j) => sev(j) <= severity(F[k].worst)
        <5> SUFFICES ASSUME NEW j \in 1..k, on(j) PROVE sev(j) <= severity(F[k].worst)
          OBVIOUS
        <5>1. CASE j = k
          BY <2>4, <4>5, <5>1
        <5>2. CASE j # k
          <6>1. sev(j) <= severity(F[k - 1].worst)
            BY <2>1, <2>2, <5>2
          <6> QED
            BY <2>4, <4>5, <6>1
        <5> QED
          BY <5>1, <5>2
      <4>7. severity(F[k].worst) = 0 \/ \E j \in 1..k : on(j) /\ severity(F[k].worst) = sev(j)
        BY <2>1, <2>2, <3>4, <4>5
      <4>8. Good(k)
        BY <4>2, <4>6, <4>7
      <4> QED
        BY <2>2, <4>8 DEF T
    <3> QED
      BY <3>3, <3>4
  <2> QED
    BY <2>5, <2>6
<1>12. n \in T
  <2>2. n \in Nat
    BY <1>1
  <2>3. \A k \in 1..n : k - 1 \in T => k \in T
    BY <1>11
  <2> HIDE DEF T, n
  <2>1. 0..n \subseteq T
    BY ONLY <1>10, <2>2, <2>3, UpTo
  <2> QED
    BY <1>1, <2>1
<1>13. Good(n)
  BY <1>12
<1> QED
  <2> HIDE DEF F
  <2>1. \A k \in 1..n : on(k) => sev(k) <= severity(F[n].worst)
    BY <1>13
  <2>2. severity(F[n].worst) = 0 \/ \E k \in 1..n : on(k) /\ severity(F[n].worst) = sev(k)
    BY <1>13
  <2> QED
    BY ONLY <1>7, <1>14, <2>1, <2>2

-----------------------------------------------------------------------------
(* The run.  What is known of a result, of the phases, of the results      *)
(* together, and of a pass that nothing has interrupted.                   *)
Due == {f \in setup.files : ~Unchanged(f)}

Judged(r) ==
  /\ DOMAIN r.fc = ContextFields
  /\ r.fc.file \in setup.files /\ r.fc.path \in {r.fc.file, NoPath}
  /\ r.pass # "full" => r.fc.path = r.fc.file
  /\ r.pass = "second" => r.fc.size = 0
  /\ r.fc.isPartial => ~isSsd /\ r.pass = "header"
  /\ r.pass = "full" /\ r.fc.path # NoPath =>
       r.fc.file \in Due /\ ~TooLarge(r.fc.file) /\ ~NeverJudged(r.fc.file)
  /\ r.worst = Judge(build_pipeline(cfg), Opened(r.fc), cfg, manifestLoaded)

Phases ==
  /\ pc \in {"parse", "scan", "finish", "done"}
  /\ pass \in {"none", "header", "full", "second"}
  /\ pass = "none" =>
       /\ pc \in {"parse", "done"} /\ (pc = "done" => ~Parsed)
       /\ scanned = {} /\ todo = {}
  /\ pass # "none" =>
       /\ pc # "parse" /\ Parsed /\ cfg.threads >= 1
       /\ ~isSsd => cfg.readers >= 1
       /\ cfg.diskProfile = "Auto" /\ D.seek = "unknown" /\ D.bench = "cannot" => ~isSsd

Flagged(S) == {r \in S : severity(r.worst) >= 1}

Results ==
  /\ todo \subseteq setup.files /\ (pass # "second" => todo \subseteq Due)
  /\ \A r \in scanned :
       /\ Judged(r)
       /\ r.pass = pass \/ (r.pass = "header" /\ pass = "second")
       /\ r.pass = pass => r.fc.file \notin todo
  /\ \A r, s \in scanned : r.pass = s.pass /\ r.fc.file = s.fc.file => r = s

Counted ==
  /\ IsFiniteSet(scanned)
  /\ findings = {r \in Flagged(scanned) : r.pass = pass}
  /\ flagged = Cardinality(Flagged(scanned))
  /\ exit \in {0, 1} /\ (pc = "done" /\ pass # "none" => exit = ExitCode)

Covered == ~quit =>
  /\ pc \in {"finish", "done"} => todo = {}
  /\ pass = "full" => \A f \in Due \ todo :
       TooLarge(f) \/ NeverJudged(f) \/ \E r \in scanned : r.fc.path = f
  /\ pass \in {"header", "second"} => \A f \in Due :
       \/ pass = "header" /\ f \in todo
       \/ TooLarge(f)
       \/ \E r \in scanned : r.pass = "header" /\ r.fc.file = f
  /\ pass = "second" => \A r \in Flagged(scanned) : r.pass = "header" =>
       \/ r.fc.file \in todo
       \/ \E x \in scanned : x.pass = "second" /\ x.fc.file = r.fc.file

SessionInv == Phases /\ Results /\ Counted /\ Covered

(* What a pass may know of a file: at most one context comes out of it, in *)
(* a full pass one that has a path just when the file is judged.           *)
LEMMA ContextsOf ==
  ASSUME NEW f \in DOMAIN FileAt, Block \in Nat, pass \in {"header", "full", "second"}
  PROVE  /\ \E c : Contexts(f) \subseteq {c}
         /\ \A c \in Contexts(f) :
              /\ DOMAIN c = ContextFields /\ c.file = f /\ c.path \in {f, NoPath}
              /\ pass # "full" => c.path = f
              /\ pass = "second" => c.size = 0
              /\ c.isPartial => ~isSsd /\ pass = "header"
              /\ pass # "second" /\ c.path # NoPath => c.size = FileAt[f].size
              /\ pass = "full" /\ c.path # NoPath => ~NeverJudged(f)
         /\ pass # "full" \/ ~NeverJudged(f) => \E c \in Contexts(f) : c.path = f
<1> DEFINE size == FileAt[f].size
           readable == FileAt[f].readable
           base == Context(f)
<1>1. size \in Nat /\ readable \in 0..size /\ f # NoPath
  BY SessionAssumption DEF SessionAssumption
<1>2. /\ DOMAIN base = ContextFields /\ base.path = f /\ base.file = f
      /\ base.size = (IF pass = "second" THEN 0 ELSE size) /\ base.isPartial = FALSE
  BY DEF Context, ContextFields
<1> HIDE DEF base
<1> USE DEF ContextFields
<1>3. CASE isSsd \/ ~FileAt[f].opens
  <2>1. Contexts(f) = {base}
    BY <1>3 DEF Contexts, base
  <2>2. ~NeverJudged(f)
    BY <1>3 DEF NeverJudged
  <2> QED
    BY <1>2, <2>1, <2>2
<1>4. CASE ~(isSsd \/ ~FileAt[f].opens) /\ pass = "header"
  <2>1. Contexts(f) = {HeaderContext(f)}
    BY <1>4 DEF Contexts
  <2>2. \E b, l, s, p : LET header == [base EXCEPT !["isPartial"] = TRUE, !["isStreaming"] = s,
                   !["buffer"] = b, !["bufferLoaded"] = l, !["parts"] = p] IN
          \/ HeaderContext(f) = header
          \/ \E g, q : HeaderContext(f) = [header EXCEPT !["footer"] = g,
                                 !["footerLoaded"] = TRUE, !["parts"] = q]
    BY Zenon DEF HeaderContext, base
  <2>3. /\ DOMAIN HeaderContext(f) = ContextFields
        /\ \A z \in {"path", "file", "size"} : HeaderContext(f)[z] = base[z]
    BY <1>2, <2>2
  <2> QED
    BY <1>2, <1>4, <2>1, <2>3
<1>5. CASE ~(isSsd \/ ~FileAt[f].opens) /\ pass # "header" /\ (readable = 0 \/ Block = 0)
  <2>1. Contexts(f) = {[base EXCEPT !["isStreaming"] = base.size > Block]}
    BY <1>5 DEF Contexts, base
  <2>2. ~NeverJudged(f)
    BY <1>1, <1>5 DEF NeverJudged
  <2> QED
    BY <1>2, <1>5, <2>1, <2>2
<1>6. CASE ~(isSsd \/ ~FileAt[f].opens) /\ pass # "header" /\ ~(readable = 0 \/ Block = 0)
  <2>1. Contexts(f) = IF readable < base.size THEN {} ELSE {FullContext(f)}
    BY <1>6 DEF Contexts, base
  <2>2. CASE readable < base.size
    <3>1. pass = "full" /\ Contexts(f) = {}
      BY <1>1, <1>2, <1>6, <2>1, <2>2
    <3>2. NeverJudged(f)
      BY <1>1, <1>2, <1>6, <2>2, <3>1 DEF NeverJudged
    <3> QED
      BY <3>1, <3>2
  <2>3. CASE ~(readable < base.size)
    <3> DEFINE from == IF base.size > Block THEN Block ELSE 0
    <3>1. \E b, h, e, p : LET whole == [base EXCEPT !["buffer"] = b, !["bufferLoaded"] = TRUE,
                   !["hashValid"] = h, !["entropyKnown"] = e, !["parts"] = p] IN
            FullContext(f) = IF from = 0 THEN whole
                             ELSE [whole EXCEPT !["path"] = NoPath, !["size"] = 0, !["ext"] = ""]
      BY Zenon DEF FullContext, base
    <3>2. /\ DOMAIN FullContext(f) = ContextFields /\ FullContext(f).file = f
          /\ FullContext(f).isPartial = FALSE
          /\ FullContext(f).path = IF from = 0 THEN f ELSE NoPath
          /\ FullContext(f).size = IF from = 0 THEN base.size ELSE 0
      BY <1>2, <3>1
    <3>3. from = 0 <=> ~(base.size > Block)
      BY <1>6
    <3>4. pass = "second" => from = 0
      BY <1>2, <3>3
    <3>5. pass = "full" => (NeverJudged(f) <=> from # 0)
      BY <1>1, <1>2, <1>6, <2>3, <3>3 DEF NeverJudged
    <3>6. Contexts(f) = {FullContext(f)}
      BY <2>1, <2>3
    <3> HIDE DEF from
    <3> QED
      BY <1>1, <1>2, <1>6, <3>2, <3>4, <3>5, <3>6
  <2> QED
    BY <2>2, <2>3
<1> QED
  BY <1>3, <1>4, <1>5, <1>6

LEMMA Settings ==
  ReadInv => /\ cfg.threads \in Nat /\ cfg.readers \in Nat /\ cfg.maxFileBytes \in Nat
             /\ Block \in Nat /\ setup.files \subseteq DOMAIN FileAt
             /\ NoPath \notin setup.files
<1> SUFFICES ASSUME ReadInv
             PROVE  /\ cfg.threads \in Nat /\ cfg.readers \in Nat /\ cfg.maxFileBytes \in Nat
                    /\ Block \in Nat /\ setup.files \subseteq DOMAIN FileAt
                    /\ NoPath \notin setup.files
  OBVIOUS
<1>1. /\ cfg["threads"] \in Nat /\ cfg["readers"] \in Nat /\ cfg["maxFileBytes"] \in Nat
      /\ cfg["hddBlockSize"] \in Nat
  BY OptionWords DEF ReadInv, LineInv, LineTyped, Numbered
<1>2. setup.files \subseteq DOMAIN FileAt /\ NoPath \notin DOMAIN FileAt
  BY SessionAssumption DEF SessionAssumption, ReadInv
<1> QED
  BY <1>1, <1>2 DEF Block

ResultsFor(f) == {Result(c) : c \in {d \in Contexts(f) : WithinMaxSize(d)}}

LEMMA ResultsOf ==
  ASSUME NEW f \in setup.files, ReadInv, pass \in {"header", "full", "second"},
         pass # "second" => f \in Due
  PROVE  /\ \A r \in ResultsFor(f) : Judged(r) /\ r.pass = pass /\ r.fc.file = f
         /\ \A r, s \in ResultsFor(f) : r = s
         /\ IsFiniteSet(ResultsFor(f))
         /\ \/ pass # "second" /\ TooLarge(f)
            \/ pass = "full" /\ NeverJudged(f)
            \/ \E r \in ResultsFor(f) : r.fc.path = f
<1>1. f \in DOMAIN FileAt /\ Block \in Nat /\ cfg.maxFileBytes \in Nat /\ f # NoPath
  BY Settings
<1>2. /\ \E c : Contexts(f) \subseteq {c}
      /\ \A c \in Contexts(f) :
              /\ DOMAIN c = ContextFields /\ c.file = f /\ c.path \in {f, NoPath}
              /\ pass # "full" => c.path = f
              /\ pass = "second" => c.size = 0
              /\ c.isPartial => ~isSsd /\ pass = "header"
              /\ pass # "second" /\ c.path # NoPath => c.size = FileAt[f].size
              /\ pass = "full" /\ c.path # NoPath => ~NeverJudged(f)
      /\ pass # "full" \/ ~NeverJudged(f) => \E c \in Contexts(f) : c.path = f
  BY <1>1, ContextsOf
<1>3. ASSUME NEW c PROVE /\ Result(c).pass = pass /\ Result(c).fc = c
                         /\ Result(c).worst = Judge(build_pipeline(cfg), Opened(c), cfg,
                                                    manifestLoaded)
  BY DEF Result
<1>4. ASSUME NEW c \in Contexts(f), WithinMaxSize(c)
      PROVE  Judged(Result(c)) /\ Result(c).pass = pass /\ Result(c).fc.file = f
  <2>1. pass = "full" /\ c.path # NoPath => f \in Due /\ ~TooLarge(f) /\ ~NeverJudged(f)
    BY <1>1, <1>2, <1>4 DEF TooLarge, WithinMaxSize
  <2> QED
    BY <1>1, <1>2, <1>3, <1>4, <2>1 DEF Judged
<1>5. \A r \in ResultsFor(f) : Judged(r) /\ r.pass = pass /\ r.fc.file = f
  BY <1>4 DEF ResultsFor
<1>6. PICK c : Contexts(f) \subseteq {c}
  BY <1>2
<1>7. ResultsFor(f) \subseteq {Result(c)}
  BY <1>6 DEF ResultsFor
<1>8. IsFiniteSet(ResultsFor(f))
  BY <1>7, FS_Singleton, FS_Subset
<1>9. ASSUME pass = "second" \/ ~TooLarge(f), pass # "full" \/ ~NeverJudged(f)
      PROVE  \E r \in ResultsFor(f) : r.fc.path = f
  <2>1. PICK d \in Contexts(f) : d.path = f
    BY <1>2, <1>9
  <2>2. WithinMaxSize(d)
    BY <1>1, <1>2, <1>9, <2>1 DEF TooLarge, WithinMaxSize
  <2>3. Result(d) \in ResultsFor(f)
    BY <2>1, <2>2 DEF ResultsFor
  <2> QED
    BY <1>3, <2>1, <2>3
<1> QED
  BY <1>5, <1>7, <1>8, <1>9

LEMMA SameRun ==
  ASSUME cfg' = cfg, setup' = setup, isSsd' = isSsd
  PROVE  /\ Due' = Due
         /\ \A f : TooLarge(f)' = TooLarge(f) /\ NeverJudged(f)' = NeverJudged(f)
         /\ \A r : Judged(r) => Judged(r)'
<1>1. Due' = Due
  BY DEF Due, Unchanged
<1>2. \A f : TooLarge(f)' = TooLarge(f) /\ NeverJudged(f)' = NeverJudged(f)
  BY DEF TooLarge, NeverJudged, Block
<1>3. manifestLoaded' = manifestLoaded
  BY DEF manifestLoaded
<1>4. ASSUME NEW r, Judged(r) PROVE Judged(r)'
  BY <1>1, <1>2, <1>3, <1>4 DEF Judged
<1> QED
  BY <1>1, <1>2, <1>4

LEMMA SessionInit == Init => SessionInv
<1> SUFFICES ASSUME Init PROVE SessionInv
  OBVIOUS
<1>1. /\ pc = "parse" /\ pass = "none" /\ scanned = {} /\ todo = {} /\ findings = {}
      /\ flagged = 0 /\ exit = 0
  BY DEF Init
<1>2. Phases
  BY <1>1 DEF Phases
<1>3. Results
  BY <1>1 DEF Results
<1>4. Counted
  <2>1. Flagged(scanned) = {} /\ IsFiniteSet({}) /\ Cardinality({}) = 0
    BY <1>1, FS_EmptySet DEF Flagged
  <2> QED
    BY <1>1, <2>1 DEF Counted
<1>5. Covered
  BY <1>1 DEF Covered
<1> QED
  BY <1>2, <1>3, <1>4, <1>5 DEF SessionInv

(* Before the scan, and after it, only the phase changes.                  *)
LEMMA SessionParse == SessionInv /\ ReadInv /\ (Parse \/ Leave) => SessionInv'
<1> SUFFICES ASSUME SessionInv, ReadInv, Parse \/ Leave PROVE SessionInv'
  OBVIOUS
<1>1. /\ pc = "parse" /\ pass = "none" /\ ~Parsed /\ scanned = {} /\ todo = {}
      /\ pc' \in {"parse", "done"} /\ (pc' = "done" => i' = i /\ argv' = argv)
      /\ pass' = pass /\ scanned' = scanned /\ todo' = todo /\ findings' = findings
      /\ flagged' = flagged /\ exit' = exit
  <2>1. CASE Parse
    <3>1. pc = "parse" /\ i <= Len(argv) /\ UNCHANGED sessionVars
      BY <2>1 DEF Parse, ParseWord
    <3>2. i \in Nat /\ Len(argv) \in Nat
      BY DEF ReadInv, LineInv, LineTyped
    <3> QED
      BY <3>1, <3>2 DEF SessionInv, Phases, Parsed, sessionVars
  <2>2. CASE Leave
    BY <2>2 DEF SessionInv, Phases, Leave, commandLineVars
  <2> QED
    BY <2>1, <2>2
<1>2. Phases'
  BY <1>1 DEF Phases, Parsed
<1>3. Results'
  BY <1>1 DEF Results
<1>4. Counted'
  BY <1>1 DEF SessionInv, Counted, Flagged
<1>5. Covered'
  BY <1>1 DEF Covered
<1> QED
  BY <1>2, <1>3, <1>4, <1>5 DEF SessionInv

LEMMA SessionStartUp == SessionInv /\ ReadInv /\ StartUp => SessionInv'
<1> SUFFICES ASSUME SessionInv, ReadInv, StartUp PROVE SessionInv'
  OBVIOUS
<1>1. /\ pc = "parse" /\ pass = "none" /\ Parsed /\ scanned = {} /\ findings = {}
      /\ scanned' = scanned /\ findings' = findings
      /\ flagged' = flagged /\ exit' = exit /\ i' = i /\ argv' = argv /\ setup' = setup
      /\ pass' \in {"header", "full"} /\ pc' = "scan" /\ quit' = quit
      /\ todo' = {f \in setup.files : ~Unchanged(f)}
  BY DEF SessionInv, Phases, Counted, StartUp, Flagged
<1>2. /\ cfg'.threads >= 1 /\ (~isSsd' => cfg'.readers >= 1)
      /\ cfg'.diskProfile = cfg.diskProfile
  BY ReadStartUp
<1>3. cfg.diskProfile = "Auto" /\ D.seek = "unknown" /\ D.bench = "cannot" => ~isSsd'
  BY DEF StartUp, known, run_seek_benchmark
<1>4. Phases'
  BY <1>1, <1>2, <1>3 DEF Phases, Parsed, D
<1>5. cfg'.scanCachePath = cfg.scanCachePath
  BY DEF StartUp
<1>6. Due' = todo'
  BY <1>1, <1>5 DEF Due, Unchanged
<1>7. Results'
  BY <1>1, <1>6 DEF Results, Due
<1>8. Counted'
  BY <1>1 DEF SessionInv, Counted, Flagged
<1>9. Covered'
  BY <1>1, <1>6 DEF Covered
<1> QED
  BY <1>4, <1>7, <1>8, <1>9 DEF SessionInv

LEMMA SessionPhase ==
  SessionInv /\ (Finish \/ Sigint \/ UNCHANGED vars) => SessionInv'
<1> SUFFICES ASSUME SessionInv, Finish \/ Sigint \/ UNCHANGED vars PROVE SessionInv'
  OBVIOUS
<1>1. /\ cfg' = cfg /\ setup' = setup /\ isSsd' = isSsd /\ pass' = pass /\ todo' = todo
      /\ scanned' = scanned /\ findings' = findings /\ flagged' = flagged
      /\ i' = i /\ argv' = argv /\ (quit => quit')
      /\ pc' # pc => pc = "finish" /\ pc' = "done" /\ exit' = ExitCode
      /\ pc' = pc => exit' = exit
  <2>1. CASE Finish
    BY <2>1 DEF Finish, commandLineVars
  <2>2. CASE Sigint
    BY <2>2 DEF Sigint, commandLineVars
  <2>3. CASE UNCHANGED vars
    BY <2>3 DEF vars, sessionVars, commandLineVars
  <2> QED
    BY <2>1, <2>2, <2>3
<1>2. /\ Due' = Due
      /\ \A f : TooLarge(f)' = TooLarge(f) /\ NeverJudged(f)' = NeverJudged(f)
      /\ \A r : Judged(r) => Judged(r)'
  BY <1>1, SameRun
<1>3. Phases'
  BY <1>1 DEF SessionInv, Phases, Parsed, D
<1>4. Results'
  BY <1>1, <1>2 DEF SessionInv, Results
<1>5. Counted'
  BY <1>1 DEF SessionInv, Counted, Flagged, ExitCode
<1>6. Covered'
  BY <1>1, <1>2 DEF SessionInv, Covered, Flagged
<1> QED
  BY <1>3, <1>4, <1>5, <1>6 DEF SessionInv

LEMMA SessionEndPass == SessionInv /\ EndPass => SessionInv'
<1> SUFFICES ASSUME SessionInv, EndPass PROVE SessionInv'
  OBVIOUS
<1>1. /\ cfg' = cfg /\ setup' = setup /\ isSsd' = isSsd /\ scanned' = scanned
      /\ flagged' = flagged /\ exit' = exit /\ i' = i /\ argv' = argv /\ quit' = quit
      /\ pc = "scan" /\ (todo = {} \/ quit) /\ pass # "none"
  BY DEF EndPass, commandLineVars, SessionInv, Phases
<1>2. /\ Due' = Due
      /\ \A f : TooLarge(f)' = TooLarge(f) /\ NeverJudged(f)' = NeverJudged(f)
      /\ \A r : Judged(r) => Judged(r)'
  BY <1>1, SameRun
<1>3. CASE pass = "header" /\ findings # {}
  <2>1. /\ pass' = "second" /\ findings' = {} /\ pc' = "scan"
        /\ todo' = {f \in setup.files : \E r \in findings : r.fc.path = f}
    BY <1>1, <1>3 DEF EndPass
  <2>2. \A r \in scanned : r.pass = "header"
    BY <1>3 DEF SessionInv, Results
  <2>3. Phases'
    BY <1>1, <2>1 DEF SessionInv, Phases, Parsed, D
  <2>4. Results'
    BY <1>1, <1>2, <2>1, <2>2 DEF SessionInv, Results
  <2>5. Counted'
    BY <1>1, <2>1, <2>2 DEF SessionInv, Counted, Flagged
  <2>6. \A r \in Flagged(scanned) : r.fc.file \in todo'
    <3> SUFFICES ASSUME NEW r \in Flagged(scanned) PROVE r.fc.file \in todo'
      OBVIOUS
    <3>1. r \in findings /\ r \in scanned
      BY <1>3, <2>2 DEF SessionInv, Counted, Flagged
    <3>2. r.fc.file \in setup.files /\ r.fc.path = r.fc.file
      BY <2>2, <3>1 DEF SessionInv, Results, Judged
    <3> QED
      BY <2>1, <3>1, <3>2
  <2>7. Covered'
    BY <1>1, <1>2, <1>3, <2>1, <2>6 DEF SessionInv, Covered, Flagged
  <2> QED
    BY <2>3, <2>4, <2>5, <2>7 DEF SessionInv
<1>4. CASE ~(pass = "header" /\ findings # {})
  <2>1. pass' = pass /\ findings' = findings /\ pc' = "finish" /\ todo' = {}
    BY <1>4 DEF EndPass
  <2>2. Phases'
    BY <1>1, <2>1 DEF SessionInv, Phases, Parsed, D
  <2>3. Results'
    BY <1>1, <1>2, <2>1 DEF SessionInv, Results
  <2>4. Counted'
    BY <1>1, <2>1 DEF SessionInv, Counted, Flagged
  <2>5. Covered'
    BY <1>1, <1>2, <2>1 DEF SessionInv, Covered, Flagged
  <2> QED
    BY <2>2, <2>3, <2>4, <2>5 DEF SessionInv
<1> QED
  BY <1>3, <1>4

(* A file that is scanned takes its place among the results: none of this  *)
(* pass is of the same file.                                               *)
LEMMA SessionScan ==
  ASSUME NEW f \in setup.files, SessionInv, ReadInv, ScanFile(f) PROVE SessionInv'
<1> DEFINE R == ResultsFor(f)
<1>1. /\ pc = "scan" /\ ~quit /\ f \in todo /\ todo' = todo \ {f}
      /\ scanned' = scanned \cup R /\ findings' = findings \cup Flagged(R)
      /\ flagged' = flagged + Cardinality(Flagged(R))
      /\ cfg' = cfg /\ setup' = setup /\ isSsd' = isSsd /\ pass' = pass /\ pc' = pc
      /\ exit' = exit /\ i' = i /\ argv' = argv /\ quit' = quit
  BY DEF ScanFile, ResultsFor, Flagged, commandLineVars
<1>2. /\ Due' = Due
      /\ \A g : TooLarge(g)' = TooLarge(g) /\ NeverJudged(g)' = NeverJudged(g)
      /\ \A r : Judged(r) => Judged(r)'
  BY <1>1, SameRun
<1>3. pass \in {"header", "full", "second"} /\ (pass # "second" => f \in Due)
  BY <1>1 DEF SessionInv, Phases, Results
<1>4. /\ \A r \in R : Judged(r) /\ r.pass = pass /\ r.fc.file = f
      /\ \A r, s \in R : r = s
      /\ IsFiniteSet(R)
      /\ \/ pass # "second" /\ TooLarge(f)
         \/ pass = "full" /\ NeverJudged(f)
         \/ \E r \in R : r.fc.path = f
  BY <1>3, ResultsOf
<1> HIDE DEF R
<1>5. \A r \in scanned : r.pass = pass => r.fc.file # f
  BY <1>1 DEF SessionInv, Results
<1>6. Phases'
  BY <1>1 DEF SessionInv, Phases, Parsed, D
<1>7. Results'
  <2>1. todo' \subseteq setup'.files /\ (pass' # "second" => todo' \subseteq Due')
    BY <1>1, <1>2 DEF SessionInv, Results
  <2>2. ASSUME NEW r \in scanned'
        PROVE  /\ Judged(r)'
               /\ r.pass = pass' \/ (r.pass = "header" /\ pass' = "second")
               /\ r.pass = pass' => r.fc.file \notin todo'
    BY <1>1, <1>2, <1>4, <2>2 DEF SessionInv, Results
  <2>3. ASSUME NEW r \in scanned', NEW s \in scanned', r.pass = s.pass, r.fc.file = s.fc.file
        PROVE  r = s
    <3>1. CASE r \in scanned /\ s \in scanned
      BY <2>3, <3>1 DEF SessionInv, Results
    <3>2. CASE r \in R /\ s \in R
      BY <1>4, <3>2
    <3>3. CASE (r \in R /\ s \in scanned) \/ (r \in scanned /\ s \in R)
      BY <1>4, <1>5, <2>3, <3>3
    <3> QED
      BY <1>1, <3>1, <3>2, <3>3
  <2> QED
    BY <2>1, <2>2, <2>3 DEF Results
<1>8. Counted'
  <2>1. /\ IsFiniteSet(scanned) /\ findings = {r \in Flagged(scanned) : r.pass = pass}
        /\ flagged = Cardinality(Flagged(scanned)) /\ exit \in {0, 1}
    BY DEF SessionInv, Counted
  <2>2. Flagged(scanned') = Flagged(scanned) \cup Flagged(R)
    BY <1>1 DEF Flagged
  <2>3. Flagged(scanned) \cap Flagged(R) = {}
    BY <1>4, <1>5 DEF Flagged
  <2>4. IsFiniteSet(scanned')
    BY <1>1, <1>4, <2>1, FS_Union
  <2>5. IsFiniteSet(Flagged(scanned)) /\ IsFiniteSet(Flagged(R))
    BY <1>4, <2>1, FS_Subset DEF Flagged
  <2>6. flagged' = Cardinality(Flagged(scanned'))
    <3>1. /\ Cardinality(Flagged(scanned) \cup Flagged(R)) =
               Cardinality(Flagged(scanned)) + Cardinality(Flagged(R))
                 - Cardinality(Flagged(scanned) \cap Flagged(R))
          /\ Cardinality(Flagged(scanned)) \in Nat /\ Cardinality(Flagged(R)) \in Nat
      BY <2>5, FS_Union, FS_CardinalityType
    <3>2. Cardinality(Flagged(scanned) \cap Flagged(R)) = 0
      BY <2>3, FS_EmptySet
    <3>3. Cardinality(Flagged(scanned')) = Cardinality(Flagged(scanned) \cup Flagged(R))
      BY <2>2
    <3>4. /\ flagged' = flagged + Cardinality(Flagged(R))
          /\ flagged = Cardinality(Flagged(scanned))
      BY <1>1, <2>1
    <3> QED
      BY ONLY <3>1, <3>2, <3>3, <3>4
  <2>7. findings' = {r \in Flagged(scanned') : r.pass = pass}
    BY <1>1, <1>4, <2>1, <2>2 DEF Flagged
  <2> QED
    BY <1>1, <2>1, <2>4, <2>6, <2>7 DEF Counted
<1>9. Covered'
  <2>1. ASSUME pass = "full", NEW g \in Due \ todo'
        PROVE  TooLarge(g) \/ NeverJudged(g) \/ \E r \in scanned' : r.fc.path = g
    <3>1. CASE g = f
      BY <1>1, <1>4, <2>1, <3>1
    <3>2. CASE g # f
      BY <1>1, <2>1, <3>2 DEF SessionInv, Covered
    <3> QED
      BY <3>1, <3>2
  <2>2. ASSUME pass \in {"header", "second"}, NEW g \in Due
        PROVE  \/ pass = "header" /\ g \in todo'
               \/ TooLarge(g)
               \/ \E r \in scanned' : r.pass = "header" /\ r.fc.file = g
    <3>1. CASE pass = "header" /\ g = f
      BY <1>1, <1>4, <3>1
    <3>2. CASE ~(pass = "header" /\ g = f)
      BY <1>1, <2>2, <3>2 DEF SessionInv, Covered
    <3> QED
      BY <3>1, <3>2
  <2>3. ASSUME pass = "second", NEW r \in Flagged(scanned'), r.pass = "header"
        PROVE  \/ r.fc.file \in todo'
               \/ \E x \in scanned' : x.pass = "second" /\ x.fc.file = r.fc.file
    <3>1. r \in Flagged(scanned)
      BY <1>1, <1>4, <2>3 DEF Flagged
    <3>2. CASE r.fc.file = f
      BY <1>1, <1>4, <2>3, <3>2
    <3>3. CASE r.fc.file # f
      BY <1>1, <2>3, <3>1, <3>3 DEF SessionInv, Covered
    <3> QED
      BY <3>2, <3>3
  <2>4. pc' \notin {"finish", "done"}
    BY <1>1
  <2> QED
    BY <1>1, <1>2, <2>1, <2>2, <2>3, <2>4 DEF Covered
<1> QED
  BY <1>6, <1>7, <1>8, <1>9 DEF SessionInv

(* The inductive invariant of a run of the program.                        *)
THEOREM SessionInvariance == Spec => [](SessionInv /\ ReadInv)
<1>1. SessionInv /\ ReadInv /\ [Next]_vars => SessionInv'
  BY SessionParse, SessionStartUp, SessionScan, SessionEndPass, SessionPhase
     DEF Next, Done
<1>2. Spec => []ReadInv
  BY ReadInvariance
<1> QED
  BY SessionInit, <1>1, <1>2, PTL DEF Spec

-----------------------------------------------------------------------------
(* The phases of wmain, and a finding is a flagged result.                 *)
THEOREM SessionTyped == Spec => []TypeOK
<1>1. SessionInv /\ ReadInv => TypeOK
  <2> SUFFICES ASSUME SessionInv, ReadInv PROVE TypeOK
    OBVIOUS
  <2>1. flagged <= Cardinality(scanned)
    <3>1. IsFiniteSet(scanned) /\ Flagged(scanned) \subseteq scanned
      BY DEF SessionInv, Counted, Flagged
    <3> QED
      BY <3>1, FS_Subset DEF SessionInv, Counted
  <2>2. i \in 1..Len(argv) + 2
    <3>1. i \in 1..Len(argv) + 1 /\ Len(argv) \in Nat
      BY DEF ReadInv, LineInv, LineTyped
    <3> QED
      BY <3>1
  <2>3. findings \subseteq scanned
    BY DEF SessionInv, Counted, Flagged
  <2> QED
    BY <2>1, <2>2, <2>3, Settings DEF TypeOK, SessionInv, Phases, Results, Counted
<1> QED
  BY <1>1, SessionInvariance, PTL

(* Workers and readers for any disk and any number of processors           *)
(* (main.cpp:47-64, DiskUtils.cpp:24-133).                                 *)
THEOREM DiskHasThreads == Spec => []ThreadsForTheDisk
<1>1. SessionInv => ThreadsForTheDisk
  BY DEF SessionInv, Phases, ThreadsForTheDisk
<1> QED
  BY <1>1, SessionInvariance, PTL

LEMMA VerdictOf ==
  ASSUME NEW r, Judged(r)
  PROVE  LET p == build_pipeline(cfg)
             fc == Opened(r.fc)
             sev(d) == severity(Check(d, SeenBy(d, p, fc, cfg.methods)))
         IN  /\ \A d \in Range(p) : Applies(d, fc, manifestLoaded) => sev(d) <= severity(r.worst)
             /\ \/ severity(r.worst) = 0
                \/ \E d \in Range(p) :
                     Applies(d, fc, manifestLoaded) /\ severity(r.worst) = sev(d)
<1>1. HashFirst(build_pipeline(cfg))
  BY PipelineInOrder
<1>2. DOMAIN Opened(r.fc) = ContextFields
  BY DEF Judged, Opened
<1>3. r.worst = Judge(build_pipeline(cfg), Opened(r.fc), cfg, manifestLoaded)
  BY DEF Judged
<1> QED
  BY ONLY <1>1, <1>2, <1>3, JudgeIsWorst

(* The verdict kept for a file is as severe as the worst that a detector   *)
(* of the run gives it: neither the short circuit nor the order of the     *)
(* pipeline matters (Detector.cpp:17-52 builds it, main.cpp:248-256 runs   *)
(* it).                                                                    *)
THEOREM WorstIsKept == Spec => []VerdictIsWorst
<1>1. SessionInv => VerdictIsWorst
  <2> SUFFICES ASSUME SessionInv, NEW r \in scanned
               PROVE  LET fc == Opened(r.fc)
                          on == {d \in Range(build_pipeline(cfg)) :
                                   Applies(d, fc, manifestLoaded)}
                          seen(d) == IF d \in {"manifest", "entropy"} /\ "io" \in on
                                     THEN AfterIoHash(fc, cfg.methods) ELSE fc
                      IN  severity(r.worst) =
                            Max({0} \cup {severity(Check(d, seen(d))) : d \in on})
    BY DEF VerdictIsWorst
  <2> DEFINE p == build_pipeline(cfg)
             fc == Opened(r.fc)
             on == {d \in Range(p) : Applies(d, fc, manifestLoaded)}
             seen(d) == IF d \in {"manifest", "entropy"} /\ "io" \in on
                        THEN AfterIoHash(fc, cfg.methods) ELSE fc
             S == {0} \cup {severity(Check(d, seen(d))) : d \in on}
             w == severity(r.worst)
  <2>1. Judged(r)
    BY DEF SessionInv, Results
  <2>2. \A f : Applies("io", f, manifestLoaded)
    BY DEF Applies, Extensions
  <2>3. \A d : seen(d) = SeenBy(d, p, fc, cfg.methods)
    BY <2>2 DEF SeenBy
  <2>4. /\ \A d \in on : severity(Check(d, seen(d))) <= w
        /\ w = 0 \/ \E d \in on : w = severity(Check(d, seen(d)))
    <3>1. /\ \A d \in Range(p) : Applies(d, fc, manifestLoaded) =>
               severity(Check(d, SeenBy(d, p, fc, cfg.methods))) <= w
          /\ \/ w = 0
             \/ \E d \in Range(p) : Applies(d, fc, manifestLoaded)
                                     /\ w = severity(Check(d, SeenBy(d, p, fc, cfg.methods)))
      BY ONLY <2>1, VerdictOf
    <3> HIDE DEF seen, p, fc, w
    <3> QED
      BY <2>3, <3>1
  <2>5. w \in {0, 1, 3} /\ \A d \in on : severity(Check(d, seen(d))) \in {0, 1, 3}
    BY SeverityRange
  <2> HIDE DEF on, seen, w
  <2>6. w \in S /\ \A y \in S : w >= y
    BY <2>4, <2>5
  <2>7. \A y \in S : y \in {0, 1, 3}
    BY <2>5
  <2> HIDE DEF S
  <2>8. Max(S) \in S /\ \A y \in S : Max(S) >= y
    BY <2>6 DEF Max
  <2>9. Max(S) = w
    BY <2>6, <2>7, <2>8
  <2> QED
    BY <2>9 DEF S, seen, on, w
<1> QED
  BY <1>1, SessionInvariance, PTL

(* A scan in one pass has one result for each file it was to judge, and    *)
(* its exit code says whether one is flagged (main.cpp:239-268, 300-306).  *)
THEOREM FilesOnce == Spec => []EachFileOnce
<1>1. SessionInv /\ ReadInv => EachFileOnce
  <2> SUFFICES ASSUME SessionInv, ReadInv, pc = "done", pass = "full", ~quit
               PROVE  /\ \A f \in setup.files :
                           Cardinality({r \in scanned : r.fc.path = f}) =
                             IF Unchanged(f) \/ TooLarge(f) \/ NeverJudged(f) THEN 0 ELSE 1
                      /\ exit = IF findings = {} THEN 0 ELSE 1
                      /\ flagged = Cardinality(findings)
    BY DEF EachFileOnce
  <2>1. todo = {}
    BY DEF SessionInv, Covered
  <2>2. \A r \in scanned : r.pass = "full" /\ Judged(r)
    BY DEF SessionInv, Results
  <2>3. ASSUME NEW f \in setup.files
        PROVE  Cardinality({r \in scanned : r.fc.path = f}) =
                 IF Unchanged(f) \/ TooLarge(f) \/ NeverJudged(f) THEN 0 ELSE 1
    <3> DEFINE S == {r \in scanned : r.fc.path = f}
    <3>1. f # NoPath
      BY Settings
    <3>2. CASE Unchanged(f) \/ TooLarge(f) \/ NeverJudged(f)
      <4>1. S = {}
        <5> SUFFICES ASSUME NEW r \in scanned, r.fc.path = f PROVE FALSE
          OBVIOUS
        <5>1. f \in Due /\ ~TooLarge(f) /\ ~NeverJudged(f)
          BY <2>2, <3>1 DEF Judged
        <5> QED
          BY <3>2, <5>1 DEF Due
      <4> QED
        BY <3>2, <4>1, FS_EmptySet
    <3>3. CASE ~(Unchanged(f) \/ TooLarge(f) \/ NeverJudged(f))
      <4>1. PICK r \in scanned : r.fc.path = f
        BY <2>1, <3>3 DEF SessionInv, Covered, Due
      <4>2. ASSUME NEW s \in scanned, s.fc.path = f PROVE s = r
        <5>1. s.fc.file = r.fc.file /\ s.pass = r.pass
          BY <2>2, <3>1, <4>1, <4>2 DEF Judged
        <5> QED
          BY <5>1 DEF SessionInv, Results
      <4>3. S = {r}
        BY <4>1, <4>2
      <4>4. Cardinality({r}) = 1
        BY FS_Singleton
      <4> QED
        BY <3>3, <4>3, <4>4
    <3> QED
      BY <3>2, <3>3
  <2>4. findings = Flagged(scanned)
    BY <2>2 DEF SessionInv, Counted, Flagged
  <2>5. flagged = Cardinality(findings) /\ exit = ExitCode
    BY <2>4 DEF SessionInv, Counted
  <2>6. IsFiniteSet(findings)
    BY <2>4, FS_Subset DEF SessionInv, Counted, Flagged
  <2>7. flagged \in Nat /\ (flagged = 0 <=> findings = {})
    BY <2>5, <2>6, FS_EmptySet, FS_CardinalityType
  <2>8. exit = IF findings = {} THEN 0 ELSE 1
    BY <2>5, <2>7 DEF ExitCode
  <2> QED
    BY <2>3, <2>5, <2>8
<1> QED
  BY <1>1, SessionInvariance, PTL

LEMMA SecondFlagged ==
  ASSUME NEW r, Judged(r), r.fc.size = 0, "size" \in cfg.methods
  PROVE  severity(r.worst) >= 1
<1> DEFINE p == build_pipeline(cfg)
           fc == Opened(r.fc)
<1>1. "size" \in Range(p)
  BY PipelineInOrder, MethodsInOrder
<1>2. Applies("size", fc, manifestLoaded) /\ SeenBy("size", p, fc, cfg.methods) = fc
  BY DEF Applies, Extensions, SeenBy
<1>3. fc.size = 0
  BY DEF Opened, Judged, ContextFields
<1>4. severity(Check("size", fc)) \in {1, 3}
  BY <1>3 DEF Check, SizeDetector, severity
<1>5. severity(Check("size", fc)) <= severity(r.worst)
  <2>1. \A d \in Range(p) : Applies(d, fc, manifestLoaded) =>
          severity(Check(d, SeenBy(d, p, fc, cfg.methods))) <= severity(r.worst)
    BY VerdictOf
  <2> QED
    BY <1>1, <1>2, <2>1
<1>6. severity(r.worst) \in {0, 1, 3}
  BY SeverityRange
<1> QED
  BY <1>4, <1>5, <1>6

(* With the size method a file that the first pass has flagged is among    *)
(* the findings of the second (main.cpp:293-298).                          *)
THEOREM SecondPassKeeps == Spec => []FlaggedStays
<1>1. SessionInv => FlaggedStays
  <2> SUFFICES ASSUME SessionInv, pc = "done", pass = "second", ~quit,
                      "size" \in cfg.methods, NEW r \in scanned, r.pass = "header",
                      severity(r.worst) >= 1
               PROVE  \E x \in findings : x.fc.path = r.fc.path
    BY DEF FlaggedStays
  <2>1. todo = {} /\ r \in Flagged(scanned)
    BY DEF SessionInv, Covered, Flagged
  <2>2. PICK x \in scanned : x.pass = "second" /\ x.fc.file = r.fc.file
    BY <2>1 DEF SessionInv, Covered
  <2>3. Judged(r) /\ Judged(x)
    BY DEF SessionInv, Results
  <2>4. x.fc.path = r.fc.path /\ x.fc.size = 0
    BY <2>2, <2>3 DEF Judged
  <2>5. x \in findings
    BY <2>2, <2>3, <2>4, SecondFlagged DEF SessionInv, Counted, Flagged
  <2> QED
    BY <2>4, <2>5
<1> QED
  BY <1>1, SessionInvariance, PTL

(* A file that differs from the loaded baseline is flagged when its hash   *)
(* is taken, and is flagged by the hash when that cannot be taken.         *)
LEMMA RotFlagged ==
  ASSUME NEW r, Judged(r), "manifest" \in cfg.methods, manifestLoaded,
         r.fc.path # NoPath, ~r.fc.isPartial, FileAt[r.fc.file].baseline = "rot"
  PROVE  severity(r.worst) >= 1
<1> DEFINE p == build_pipeline(cfg)
           fc == Opened(r.fc)
           seen == AfterIoHash(fc, cfg.methods)
<1>1. {"io", "manifest"} \subseteq Range(p)
  BY PipelineInOrder, MethodsInOrder
<1>2. /\ Applies("io", fc, manifestLoaded) /\ Applies("manifest", fc, manifestLoaded)
      /\ SeenBy("io", p, fc, cfg.methods) = fc
      /\ SeenBy("manifest", p, fc, cfg.methods) = seen
  BY <1>1 DEF Applies, Extensions, SeenBy
<1>3. fc.file = FileAt[r.fc.file] /\ fc.isPartial = r.fc.isPartial /\ DOMAIN fc = ContextFields
  BY DEF Opened, Judged, ContextFields
<1>4. \A d \in Range(p) : Applies(d, fc, manifestLoaded) =>
        severity(Check(d, SeenBy(d, p, fc, cfg.methods))) <= severity(r.worst)
  BY VerdictOf
<1> HIDE DEF fc, p
<1>5. CASE "io" \in fc.file.throws
  <2>1. Check("io", fc) = "Unreadable" /\ severity("Unreadable") = 3
    BY <1>5 DEF Check, severity
  <2>2. 3 <= severity(r.worst)
    BY <1>1, <1>2, <1>4, <2>1
  <2> QED
    BY <2>2, SeverityRange
<1>6. CASE "io" \notin fc.file.throws
  <2>1. seen.file = fc.file /\ seen.hashValid
    BY <1>3, <1>6 DEF AfterIoHash, ContextFields
  <2> HIDE DEF seen
  <2>2. Check("manifest", seen) \in {"Unreadable", "Corrupt"}
    BY <1>3, <2>1 DEF Check, ManifestDetector
  <2>3. severity(Check("manifest", seen)) = 3
    BY <2>2 DEF severity
  <2>4. 3 <= severity(r.worst)
    BY <1>1, <1>2, <1>4, <2>3
  <2> QED
    BY <2>4, SeverityRange
<1> QED
  BY <1>5, <1>6

(* --manifest on the line leads to a finding for each file whose content   *)
(* has rotted, with the exceptions named (Config.cpp:84, main.cpp:72,      *)
(* ManifestDetector.cpp:80-107).                                           *)
THEOREM RotFound == Spec => []RotIsFlagged
<1>1. SessionInv /\ ReadInv /\ ParsedAsRead => RotIsFlagged
  <2> DEFINE M == Valued({"--manifest"})
  <2> SUFFICES ASSUME SessionInv, ReadInv, ParsedAsRead, pc = "done", ~quit, Parsed, M # {},
                      argv[LastOf(M) + 1] # "", Valued({"--write-manifest"}) = {},
                      \A k \in Valued({"--methods"}) : k < LastOf(M),
                      isSsd \/ pass = "full",
                      NEW f \in setup.files, FileAt[f].baseline = "rot", ~Unchanged(f),
                      ~NeverJudged(f), ~TooLarge(f)
               PROVE  \E r \in findings : r.fc.path = f
    BY DEF RotIsFlagged
  <2>1. Valued({"--manifest", "--write-manifest"}) = M
    BY DEF Valued, Options
  <2>2. LastOf(M) \in M
    <3>1. argv \in Seq(STRING)
      BY DEF ReadInv, LineInv, LineTyped
    <3>2. Len(argv) \in Nat /\ DOMAIN argv = 1..Len(argv)
      BY ONLY <3>1
    <3>3. M \subseteq DOMAIN argv
      BY Zenon DEF Valued, Options
    <3> QED
      BY <3>2, <3>3, LastExists
  <2>3. cfg.manifestPath = argv[LastOf(M) + 1] /\ ~cfg.writeManifest
    BY <2>1 DEF ParsedAsRead, ValueOf
  <2>4. manifestLoaded
    BY <2>3 DEF manifestLoaded
  <2>5. "manifest" \in cfg.methods
    <3>1. {k \in M : \A m \in Valued({"--methods"}) : m < k} # {}
      BY <2>2
    <3> QED
      BY <3>1 DEF ParsedAsRead
  <2>6. todo = {} /\ pass \in {"header", "full", "second"} /\ f \in Due /\ f # NoPath
    BY Settings DEF SessionInv, Phases, Covered, Due
  <2>7. ASSUME NEW r \in scanned, r.fc.path = f, isSsd \/ r.pass # "header"
        PROVE  r \in Flagged(scanned)
    <3>1. Judged(r)
      BY DEF SessionInv, Results
    <3>2. r.fc.file = f /\ ~r.fc.isPartial
      BY <2>6, <2>7, <3>1 DEF Judged
    <3> QED
      BY <2>4, <2>5, <2>6, <2>7, <3>1, <3>2, RotFlagged DEF Flagged
  <2>8. \E r \in scanned : r.fc.path = f /\ r.pass = pass /\ (isSsd \/ r.pass # "header")
    <3>1. CASE pass = "full"
      <4>1. \A r \in scanned : r.pass = "full"
        BY <3>1 DEF SessionInv, Results
      <4> QED
        BY <2>6, <3>1, <4>1 DEF SessionInv, Covered
    <3>2. CASE pass \in {"header", "second"}
      <4>1. PICK r \in scanned : r.pass = "header" /\ r.fc.file = f
        BY <2>6, <3>2 DEF SessionInv, Covered
      <4>2. isSsd /\ r.fc.path = f
        BY <3>2, <4>1 DEF SessionInv, Results, Judged
      <4>3. CASE pass = "header"
        BY <4>1, <4>2, <4>3
      <4>4. CASE pass = "second"
        <5>1. r \in Flagged(scanned)
          BY <2>7, <4>2
        <5>2. PICK x \in scanned : x.pass = "second" /\ x.fc.file = f
          BY <2>6, <4>1, <4>4, <5>1 DEF SessionInv, Covered
        <5>3. x.fc.path = f
          BY <5>2 DEF SessionInv, Results, Judged
        <5> QED
          BY <4>2, <4>4, <5>2, <5>3
      <4> QED
        BY <3>2, <4>3, <4>4
    <3> QED
      BY <2>6, <3>1, <3>2
  <2> QED
    BY <2>7, <2>8 DEF SessionInv, Counted
<1> QED
  BY <1>1, SessionInvariance, LineRead, PTL

-----------------------------------------------------------------------------
(* The checksum.  Exclusive or goes through the bit loop bit by bit, so    *)
(* that the low byte of the register can be looked up by itself.           *)
LEMMA XorBits ==
  ASSUME NEW a, NEW b, NEW x
  PROVE  x \in Xor(a, b) <=> (x \in a) # (x \in b)
BY DEF Xor, SymDiff

LEMMA ShiftedBits ==
  ASSUME NEW a, a \subseteq Nat, NEW n \in Nat, NEW x \in Nat
  PROVE  x \in Shifted(a, n) <=> x + n \in a
<1>1. ASSUME x + n \in a PROVE x \in Shifted(a, n)
  <2>1. x + n \in {j \in a : j >= n} /\ x = (x + n) - n
    BY <1>1
  <2> QED
    BY <2>1 DEF Shifted
<1>2. ASSUME x \in Shifted(a, n) PROVE x + n \in a
  <2>1. PICK k \in a : k >= n /\ x = k - n
    BY <1>2 DEF Shifted
  <2>2. k \in Nat
    BY <2>1
  <2>3. x + n = k
    BY <2>1, <2>2
  <2> QED
    BY <2>1, <2>3
<1> QED
  BY <1>1, <1>2

LEMMA RegisterBitsAreNat ==
  /\ Registers = SUBSET (0..RegisterBits - 1)
  /\ Bytes \subseteq Registers
  /\ \A c \in Registers : c \subseteq Nat
  /\ \A a, b \in Registers : Xor(a, b) \in Registers
  /\ \A c \in Registers, n \in Nat : Shifted(c, n) \in Registers
  /\ \A c : Complement(c) \in Registers
  /\ \A c \in Registers : Complement(Complement(c)) = c
  /\ {} \in Registers
<1> USE CrcAssumption DEF CrcAssumption
<1>1. Bytes \subseteq Registers
  BY DEF Bytes, Registers
<1>2. ASSUME NEW c \in Registers, NEW n \in Nat PROVE Shifted(c, n) \in Registers
  <2>1. ASSUME NEW x \in Shifted(c, n) PROVE x \in 0..RegisterBits - 1
    <3>1. PICK k \in c : k >= n /\ x = k - n
      BY DEF Shifted
    <3>2. k \in 0..RegisterBits - 1
      BY <3>1 DEF Registers
    <3> QED
      BY <3>1, <3>2
  <2> QED
    BY <2>1 DEF Registers
<1>3. \A c \in Registers : c \subseteq Nat
  BY DEF Registers
<1>4. \A a, b \in Registers : Xor(a, b) \in Registers
  BY DEF Registers, Xor, SymDiff
<1>5. \A c : Complement(c) \in Registers
  BY DEF Complement, Registers
<1>6. \A c \in Registers : Complement(Complement(c)) = c
  BY DEF Complement, Registers
<1> QED
  BY <1>1, <1>2, <1>3, <1>4, <1>5, <1>6 DEF Registers

LEMMA TurnBits ==
  ASSUME NEW poly \in Registers, NEW c \in Registers
  PROVE  /\ Turn(poly, c) \in Registers
         /\ \A x \in Nat : x \in Turn(poly, c) <=> (0 \in c /\ x \in poly) # (x + 1 \in c)
<1>1. c \subseteq Nat /\ Shifted(c, 1) \in Registers
  BY RegisterBitsAreNat
<1>2. Turn(poly, c) \in Registers
  BY <1>1, RegisterBitsAreNat DEF Turn
<1>3. ASSUME NEW x \in Nat
      PROVE  x \in Turn(poly, c) <=> (0 \in c /\ x \in poly) # (x + 1 \in c)
  <2>1. x \in Shifted(c, 1) <=> x + 1 \in c
    BY <1>1, ShiftedBits
  <2>2. x \in Xor(poly, Shifted(c, 1)) <=> (x \in poly) # (x \in Shifted(c, 1))
    BY XorBits
  <2>3. CASE 0 \in c
    <3>1. Turn(poly, c) = Xor(poly, Shifted(c, 1))
      BY <2>3 DEF Turn
    <3> QED
      BY <2>1, <2>2, <2>3, <3>1
  <2>4. CASE 0 \notin c
    <3>1. Turn(poly, c) = Shifted(c, 1)
      BY <2>4 DEF Turn
    <3> QED
      BY <2>1, <2>4, <3>1
  <2> QED
    BY <2>3, <2>4
<1> QED
  BY <1>2, <1>3

LEMMA SameRegister ==
  ASSUME NEW a \in Registers, NEW b \in Registers,
         \A x \in Nat : x \in a <=> x \in b
  PROVE  a = b
BY RegisterBitsAreNat

LEMMA TurnXor ==
  ASSUME NEW poly \in Registers, NEW a \in Registers, NEW b \in Registers
  PROVE  Turn(poly, Xor(a, b)) = Xor(Turn(poly, a), Turn(poly, b))
<1>1. Xor(a, b) \in Registers /\ Xor(Turn(poly, a), Turn(poly, b)) \in Registers
  BY TurnBits, RegisterBitsAreNat
<1>2. ASSUME NEW x \in Nat
      PROVE  x \in Turn(poly, Xor(a, b)) <=> x \in Xor(Turn(poly, a), Turn(poly, b))
  <2>1. x \in Turn(poly, Xor(a, b)) <=>
          (0 \in Xor(a, b) /\ x \in poly) # (x + 1 \in Xor(a, b))
    BY <1>1, TurnBits
  <2>2. /\ 0 \in Xor(a, b) <=> (0 \in a) # (0 \in b)
        /\ x + 1 \in Xor(a, b) <=> (x + 1 \in a) # (x + 1 \in b)
    BY XorBits
  <2>3. /\ x \in Turn(poly, a) <=> (0 \in a /\ x \in poly) # (x + 1 \in a)
        /\ x \in Turn(poly, b) <=> (0 \in b /\ x \in poly) # (x + 1 \in b)
    BY TurnBits
  <2>4. x \in Xor(Turn(poly, a), Turn(poly, b)) <=>
          (x \in Turn(poly, a)) # (x \in Turn(poly, b))
    BY XorBits
  <2> QED
    BY ONLY <2>1, <2>2, <2>3, <2>4
<1> QED
  BY <1>1, <1>2, TurnBits, SameRegister

(* The bit loop, turn by turn.                                             *)
Turned(F, poly, c, k) ==
  /\ F \in [0..k -> Registers]
  /\ F[0] = c
  /\ \A n \in 1..k : F[n] = Turn(poly, F[n - 1])

LEMMA BitsTurned ==
  ASSUME NEW poly \in Registers, NEW c \in Registers, NEW k \in Nat
  PROVE  \E F : Turned(F, poly, c, k) /\ Bits(poly, c, k) = F[k]
<1> DEFINE g == [n \in 1..k |-> [r \in Registers |-> Turn(poly, r)]]
           Right(F) == F = [n \in 0..k |-> IF n = 0 THEN c ELSE Turn(poly, F[n - 1])]
           After == CHOOSE F : Right(F)
<1>1. PICK F \in [0..k -> Registers] : Recursive(F, k, c, g)
  <2>1. g \in [1..k -> [Registers -> Registers]]
    BY TurnBits
  <2> HIDE DEF g
  <2> QED
    BY <2>1, RecursiveExists
<1>2. Right(F)
  <2>1. ASSUME NEW n \in 0..k
        PROVE  F[n] = IF n = 0 THEN c ELSE Turn(poly, F[n - 1])
    <3>1. CASE n = 0
      BY <1>1, <3>1 DEF Recursive
    <3>2. CASE n # 0
      <4>1. n \in 1..k /\ F[n - 1] \in Registers
        BY <1>1, <3>2
      <4>2. F[n] = g[n][F[n - 1]]
        BY <1>1, <3>2, <4>1 DEF Recursive
      <4> QED
        BY <3>2, <4>1, <4>2
    <3> QED
      BY <3>1, <3>2
  <2> QED
    BY <1>1, <2>1
<1>3. Right(After)
  BY <1>2
<1>4. Bits(poly, c, k) = After[k]
  BY DEF Bits
<1> HIDE DEF After
<1>5. /\ DOMAIN After = 0..k /\ After[0] = c
      /\ \A n \in 1..k : After[n] = Turn(poly, After[n - 1])
  BY <1>3
<1>6. 0..k \subseteq {n \in 0..k : After[n] \in Registers}
  <2> DEFINE T == {n \in 0..k : After[n] \in Registers}
  <2>1. 0 \in T
    BY <1>5
  <2>2. \A n \in 1..k : n - 1 \in T => n \in T
    BY <1>5, TurnBits
  <2> HIDE DEF T
  <2>3. 0..k \subseteq T
    BY <2>1, <2>2, UpTo
  <2> QED
    BY <2>3 DEF T
<1>7. After = [n \in 0..k |-> After[n]]
  BY <1>3, <1>5
<1>8. After \in [0..k -> Registers]
  BY <1>6, <1>7
<1> QED
  BY <1>4, <1>5, <1>8 DEF Turned

LEMMA BitsXor ==
  ASSUME NEW poly \in Registers, NEW a \in Registers, NEW b \in Registers, NEW k \in Nat
  PROVE  Bits(poly, Xor(a, b), k) = Xor(Bits(poly, a, k), Bits(poly, b, k))
<1>1. Xor(a, b) \in Registers
  BY RegisterBitsAreNat
<1>2. PICK F : Turned(F, poly, a, k) /\ Bits(poly, a, k) = F[k]
  BY BitsTurned
<1>3. PICK G : Turned(G, poly, b, k) /\ Bits(poly, b, k) = G[k]
  BY BitsTurned
<1>4. PICK H : Turned(H, poly, Xor(a, b), k) /\ Bits(poly, Xor(a, b), k) = H[k]
  BY <1>1, BitsTurned
<1> DEFINE T == {n \in 0..k : H[n] = Xor(F[n], G[n])}
<1>5. 0 \in T
  BY <1>2, <1>3, <1>4 DEF Turned
<1>6. ASSUME NEW n \in 1..k, n - 1 \in T PROVE n \in T
  <2>1. F[n - 1] \in Registers /\ G[n - 1] \in Registers
    BY <1>2, <1>3 DEF Turned
  <2>2. H[n] = Turn(poly, Xor(F[n - 1], G[n - 1]))
    BY <1>4, <1>6 DEF Turned
  <2>3. F[n] = Turn(poly, F[n - 1]) /\ G[n] = Turn(poly, G[n - 1])
    BY <1>2, <1>3 DEF Turned
  <2> QED
    BY <2>1, <2>2, <2>3, TurnXor
<1>7. k \in T
  <2> HIDE DEF T
  <2> QED
    BY <1>5, <1>6, UpTo
<1> QED
  BY <1>2, <1>3, <1>4, <1>7

(* A register whose lowest k bits are 0 is only shifted.                   *)
LEMMA BitsShift ==
  ASSUME NEW poly \in Registers, NEW a \in Registers, NEW k \in Nat,
         \A x \in a : x >= k
  PROVE  Bits(poly, a, k) = Shifted(a, k)
<1>1. PICK F : Turned(F, poly, a, k) /\ Bits(poly, a, k) = F[k]
  BY BitsTurned
<1>2. a \subseteq Nat
  BY RegisterBitsAreNat
<1> DEFINE T == {n \in 0..k : F[n] = Shifted(a, n)}
<1>3. 0 \in T
  <2>1. F[0] = a
    BY <1>1 DEF Turned
  <2>2. ASSUME NEW x \in Nat PROVE x \in Shifted(a, 0) <=> x \in a
    <3>1. x \in Shifted(a, 0) <=> x + 0 \in a
      BY <1>2, ShiftedBits, Zenon
    <3> QED
      BY <3>1
  <2>3. a = Shifted(a, 0)
    BY <2>2, RegisterBitsAreNat, SameRegister
  <2> QED
    BY <2>1, <2>3
<1>4. ASSUME NEW n \in 1..k, n - 1 \in T PROVE n \in T
  <2>1. n \in Nat /\ n - 1 \in Nat /\ n - 1 < k
    OBVIOUS
  <2>2. F[n - 1] = Shifted(a, n - 1) /\ F[n] = Turn(poly, F[n - 1])
    BY <1>1, <1>4 DEF Turned
  <2>3. F[n - 1] \in Registers /\ F[n] \in Registers /\ Shifted(a, n) \in Registers
    <3>1. Shifted(a, n - 1) \in Registers /\ Shifted(a, n) \in Registers
      BY <2>1, RegisterBitsAreNat
    <3> QED
      BY <2>2, <3>1, TurnBits
  <2>4. 0 \notin F[n - 1]
    <3>1. 0 \in Shifted(a, n - 1) <=> 0 + (n - 1) \in a
      BY <1>2, <2>1, ShiftedBits
    <3>2. n - 1 \notin a
      BY <2>1
    <3> QED
      BY <2>1, <2>2, <3>1, <3>2
  <2>5. ASSUME NEW x \in Nat PROVE x \in F[n] <=> x \in Shifted(a, n)
    <3>1. x \in F[n] <=> x + 1 \in F[n - 1]
      <4>1. x \in Turn(poly, F[n - 1]) <=>
              (0 \in F[n - 1] /\ x \in poly) # (x + 1 \in F[n - 1])
        BY ONLY poly \in Registers, x \in Nat, <2>3, TurnBits
      <4> QED
        BY ONLY <2>2, <2>4, <4>1
    <3>2. x + 1 \in F[n - 1] <=> (x + 1) + (n - 1) \in a
      <4>1. x + 1 \in Nat
        OBVIOUS
      <4>2. x + 1 \in Shifted(a, n - 1) <=> (x + 1) + (n - 1) \in a
        BY <1>2, <2>1, <4>1, ShiftedBits, Zenon
      <4> QED
        BY <2>2, <4>2, Zenon
    <3>3. x \in Shifted(a, n) <=> x + n \in a
      BY <1>2, <2>1, ShiftedBits
    <3>4. (x + 1) + (n - 1) = x + n
      BY <2>1
    <3> QED
      BY <3>1, <3>2, <3>3, <3>4
  <2> QED
    BY <2>3, <2>5, SameRegister
<1>5. k \in T
  <2> HIDE DEF T
  <2> QED
    BY <1>3, <1>4, UpTo
<1> QED
  BY <1>1, <1>5

(* The table does what the bit loop does with a byte.                      *)
LEMMA TableIsBits ==
  ASSUME NEW poly \in Registers
  PROVE  /\ ByBits(poly) \in [Registers -> [Bytes -> Registers]]
         /\ LookUp(Table(poly)) = ByBits(poly)
<1> DEFINE B == 0..ByteBits - 1
<1>1. ByteBits \in Nat
  BY CrcAssumption DEF CrcAssumption
<1>2. ASSUME NEW r \in Registers PROVE Bits(poly, r, ByteBits) \in Registers
  <2>1. PICK F : Turned(F, poly, r, ByteBits) /\ Bits(poly, r, ByteBits) = F[ByteBits]
    BY <1>1, BitsTurned
  <2> QED
    BY <1>1, <2>1 DEF Turned
<1>3. ByBits(poly) \in [Registers -> [Bytes -> Registers]]
  BY <1>2, RegisterBitsAreNat DEF ByBits
<1>4. ASSUME NEW c \in Registers, NEW b \in Bytes
      PROVE  Xor(Table(poly)[Xor(c, b) \cap B], Shifted(c, ByteBits))
               = Bits(poly, Xor(c, b), ByteBits)
  <2> DEFINE low == Xor(c, b) \cap B
             high == c \ B
  <2>1. low \in Bytes /\ low \in Registers /\ high \in Registers
    BY RegisterBitsAreNat DEF Bytes, Registers
  <2>2. c \subseteq Nat
    BY RegisterBitsAreNat
  <2>3. Xor(c, b) = Xor(low, high)
    BY DEF Xor, SymDiff, Bytes
  <2>4. \A x \in high : x >= ByteBits
    BY <1>1, <2>2
  <2>5. Shifted(high, ByteBits) = Shifted(c, ByteBits)
    <3>1. {j \in c : j >= ByteBits} = {j \in high : j >= ByteBits}
      BY <1>1, <2>2
    <3> QED
      BY <3>1 DEF Shifted
  <2>6. Table(poly)[low] = Bits(poly, low, ByteBits)
    BY <2>1 DEF Table
  <2> HIDE DEF low, high
  <2>7. Bits(poly, Xor(low, high), ByteBits)
          = Xor(Bits(poly, low, ByteBits), Bits(poly, high, ByteBits))
    BY <1>1, <2>1, BitsXor
  <2>8. Bits(poly, high, ByteBits) = Shifted(high, ByteBits)
    BY <1>1, <2>1, <2>4, BitsShift
  <2> QED
    BY <2>3, <2>5, <2>6, <2>7, <2>8 DEF low
<1>5. LookUp(Table(poly)) = ByBits(poly)
  BY <1>4, Zenon DEF LookUp, ByBits
<1> QED
  BY <1>3, <1>5

(* The register goes through a sequence element by element, and through    *)
(* two sequences as through one after the other.                           *)
Passed(F, p, start, step) ==
  /\ DOMAIN F = 0..Len(p) /\ F[0] = start
  /\ \A n \in 1..Len(p) : F[n] = step[F[n - 1]][p[n]]

Fits(p, start, step, S, R) ==
  p \in Seq(S) /\ start \in R /\ step \in [R -> [S -> R]]

LEMMA PassedOnce ==
  ASSUME NEW p, Len(p) \in Nat, NEW start, NEW step,
         NEW F, Passed(F, p, start, step), NEW G, Passed(G, p, start, step)
  PROVE  F[Len(p)] = G[Len(p)]
<1> DEFINE T == {n \in 0..Len(p) : F[n] = G[n]}
<1>1. 0 \in T
  BY DEF Passed
<1>2. \A n \in 1..Len(p) : n - 1 \in T => n \in T
  BY DEF Passed
<1>3. Len(p) \in T
  <2>1. Len(p) \in Nat /\ Len(p) \in 0..Len(p)
    OBVIOUS
  <2> HIDE DEF T
  <2>2. 0..Len(p) \subseteq T
    BY <1>1, <1>2, <2>1, UpTo
  <2> QED
    BY <2>1, <2>2
<1> QED
  BY <1>3

LEMMA ThroughPassed ==
  ASSUME NEW S, NEW R, NEW p, NEW start, NEW step, Fits(p, start, step, S, R)
  PROVE  \E F \in [0..Len(p) -> R] :
           Passed(F, p, start, step) /\ Through(p, start, step) = F[Len(p)]
<1> DEFINE g == [n \in 1..Len(p) |-> [r \in R |-> step[r][p[n]]]]
           Right(F) == F = [n \in 0..Len(p) |-> IF n = 0 THEN start ELSE step[F[n - 1]][p[n]]]
           Over == CHOOSE F : Right(F)
<1>0. p \in Seq(S) /\ start \in R /\ step \in [R -> [S -> R]] /\ Len(p) \in Nat
  BY DEF Fits
<1>1. PICK F \in [0..Len(p) -> R] : Recursive(F, Len(p), start, g)
  <2>1. g \in [1..Len(p) -> [R -> R]]
    BY <1>0
  <2> HIDE DEF g
  <2> QED
    BY <1>0, <2>1, RecursiveExists, Zenon
<1>2. /\ F[0] = start
      /\ \A n \in 1..Len(p) : F[n - 1] \in R /\ F[n] = g[n][F[n - 1]]
  <2> DEFINE l == Len(p)
  <2>1. \A n \in 0..l : F[n] = IF n = 0 THEN start ELSE g[n][F[n - 1]]
    BY <1>1 DEF Recursive
  <2>2. l \in Nat /\ F \in [0..l -> R]
    BY <1>0, <1>1
  <2> HIDE DEF g, l
  <2>3. F[0] = start
    BY <2>1, <2>2
  <2>4. ASSUME NEW n \in 1..l PROVE F[n - 1] \in R /\ F[n] = g[n][F[n - 1]]
    <3>1. n \in 0..l /\ n # 0 /\ n - 1 \in 0..l
      BY <2>2
    <3> QED
      BY <2>1, <2>2, <3>1
  <2> QED
    BY <2>3, <2>4 DEF l
<1>3. Passed(F, p, start, step)
  BY <1>0, <1>1, <1>2 DEF Passed
<1>4. Right(F)
  <2>1. \A n \in 0..Len(p) : F[n] = IF n = 0 THEN start ELSE step[F[n - 1]][p[n]]
    BY <1>0, <1>3 DEF Passed
  <2> QED
    BY <1>1, <2>1
<1>5. Right(Over)
  BY <1>4
<1>6. Through(p, start, step) = Over[Len(p)]
  BY DEF Through
<1> HIDE DEF Over
<1>7. Passed(Over, p, start, step)
  <2>2. /\ DOMAIN Over = 0..Len(p)
        /\ \A n \in 0..Len(p) : Over[n] = IF n = 0 THEN start ELSE step[Over[n - 1]][p[n]]
    BY ONLY <1>5
  <2> QED
    BY ONLY <1>0, <2>2 DEF Passed
<1>8. F[Len(p)] = Over[Len(p)]
  BY <1>0, <1>3, <1>7, PassedOnce
<1> QED
  BY <1>1, <1>3, <1>6, <1>8

LEMMA ThroughIs ==
  ASSUME NEW S, NEW R, NEW p, NEW start, NEW step, Fits(p, start, step, S, R),
         NEW G, Passed(G, p, start, step)
  PROVE  Through(p, start, step) = G[Len(p)]
<1>1. PICK F : Passed(F, p, start, step) /\ Through(p, start, step) = F[Len(p)]
  BY ThroughPassed
<1>2. Len(p) \in Nat
  BY DEF Fits
<1> QED
  BY <1>1, <1>2, PassedOnce

LEMMA ThroughNothing ==
  ASSUME NEW S, NEW R, NEW p, NEW start, NEW step, Fits(p, start, step, S, R), p = <<>>
  PROVE  Through(p, start, step) = start
<1>1. PICK F : Passed(F, p, start, step) /\ Through(p, start, step) = F[Len(p)]
  BY ThroughPassed
<1>2. Len(p) = 0
  OBVIOUS
<1> QED
  BY <1>1, <1>2 DEF Passed

LEMMA ThroughJoin ==
  ASSUME NEW S, NEW R, NEW p, NEW q, NEW start, NEW step,
         Fits(p, start, step, S, R), q \in Seq(S)
  PROVE  /\ Through(p, start, step) \in R
         /\ Through(p \o q, start, step) = Through(q, Through(p, start, step), step)
<1> DEFINE m == Len(p)
           n == Len(q)
<1>0. p \in Seq(S) /\ start \in R /\ step \in [R -> [S -> R]]
  BY DEF Fits
<1>1. PICK F \in [0..Len(p \o q) -> R] : Passed(F, p \o q, start, step)
          /\ Through(p \o q, start, step) = F[Len(p \o q)]
  <2>1. Fits(p \o q, start, step, S, R)
    BY <1>0 DEF Fits
  <2> QED
    BY <2>1, ThroughPassed
<1>2. m \in Nat /\ n \in Nat /\ Len(p \o q) = m + n
  BY <1>0
<1>3. Through(p, start, step) = F[m] /\ F[m] \in R
  <2> DEFINE G == [k \in 0..m |-> F[k]]
  <2>1. Passed(G, p, start, step)
    <3>1. G[0] = start
      BY <1>1, <1>2 DEF Passed
    <3>2. ASSUME NEW k \in 1..m PROVE G[k] = step[G[k - 1]][p[k]]
      <4>1. k \in 1..Len(p \o q) /\ k - 1 \in 0..m /\ k \in 0..m
        BY <1>2
      <4>2. (p \o q)[k] = p[k]
        BY <1>0
      <4>3. F[k] = step[F[k - 1]][(p \o q)[k]]
        BY <1>1, <4>1 DEF Passed
      <4> QED
        BY <4>1, <4>2, <4>3
    <3> QED
      BY <3>1, <3>2 DEF Passed
  <2>2. G[m] = F[m] /\ F[m] \in R
    BY <1>1, <1>2
  <2> HIDE DEF G
  <2> QED
    BY <2>1, <2>2, ThroughIs
<1>4. Through(q, F[m], step) = F[m + n]
  <2> DEFINE G == [k \in 0..n |-> F[m + k]]
  <2>1. Passed(G, q, F[m], step)
    <3>1. G[0] = F[m]
      BY <1>2
    <3>2. ASSUME NEW k \in 1..n PROVE G[k] = step[G[k - 1]][q[k]]
      <4>1. /\ m + k \in 1..Len(p \o q) /\ k - 1 \in 0..n /\ k \in 0..n
            /\ m + (k - 1) = (m + k) - 1
        BY <1>2
      <4>2. (p \o q)[m + k] = q[k]
        BY <1>0, <1>2
      <4>3. F[m + k] = step[F[(m + k) - 1]][(p \o q)[m + k]]
        BY <1>1, <4>1 DEF Passed
      <4> QED
        BY <4>1, <4>2, <4>3
    <3> QED
      BY <3>1, <3>2 DEF Passed
  <2>2. G[n] = F[m + n]
    BY <1>2
  <2>3. Fits(q, F[m], step, S, R)
    BY <1>0, <1>3 DEF Fits
  <2> HIDE DEF G
  <2> QED
    BY <2>1, <2>2, <2>3, ThroughIs
<1> QED
  BY <1>1, <1>2, <1>3, <1>4

-----------------------------------------------------------------------------
(* The instructions take words where the table takes bytes: a piece of p,  *)
(* cut into words of one width, goes through the register as its bytes do. *)
Step == ByBits(PolyC)

LEMMA StepTyped ==
  /\ Step \in [Registers -> [Bytes -> Registers]]
  /\ Instruction \in [Registers -> [Seq(Bytes) -> Registers]]
  /\ \A c \in Registers, word \in Seq(Bytes) : Instruction[c][word] = Through(word, c, Step)
<1>1. Step \in [Registers -> [Bytes -> Registers]]
  BY TableIsBits, CrcAssumption DEF Step, CrcAssumption
<1>2. ASSUME NEW c \in Registers, NEW word \in Seq(Bytes)
      PROVE  Through(word, c, Step) \in Registers
  <2>1. Fits(word, c, Step, Bytes, Registers)
    BY <1>1 DEF Fits
  <2> QED
    BY <2>1, ThroughJoin DEF Fits
<1>3. Instruction = [c \in Registers |-> [word \in Seq(Bytes) |-> Through(word, c, Step)]]
  BY DEF Instruction, Step
<1> QED
  BY <1>1, <1>2, <1>3

(* Where bytes take the register from start.                               *)
LEMMA Come ==
  ASSUME NEW p \in Seq(Bytes), NEW start \in Registers
  PROVE  /\ Through(p, start, Step) \in Registers
         /\ p = <<>> => Through(p, start, Step) = start
         /\ \A q \in Seq(Bytes) :
              Through(p \o q, start, Step) = Through(q, Through(p, start, Step), Step)
<1>1. Fits(p, start, Step, Bytes, Registers)
  BY StepTyped DEF Fits
<1>2. Through(p, start, Step) \in Registers
  BY <1>1, ThroughJoin
<1>3. p = <<>> => Through(p, start, Step) = start
  BY <1>1, ThroughNothing
<1>4. ASSUME NEW q \in Seq(Bytes)
      PROVE  Through(p \o q, start, Step) = Through(q, Through(p, start, Step), Step)
  BY <1>1, ThroughJoin
<1> QED
  BY <1>2, <1>3, <1>4

Piece(p, from, to) == SubSeq(p, from + 1, to)

(* The register has come to where it stands at b, from where it stood at a.*)
Carried(p, words, a, b) ==
  /\ words \in Seq(Seq(Bytes))
  /\ \A start \in Registers :
       Through(words, Through(Piece(p, 0, a), start, Step), Instruction)
         = Through(Piece(p, 0, b), start, Step)

LEMMA PieceOf ==
  ASSUME NEW p \in Seq(Bytes), NEW a \in Nat, NEW b \in Nat, a <= b, b <= Len(p)
  PROVE  /\ Piece(p, a, b) \in Seq(Bytes) /\ Piece(p, 0, a) \in Seq(Bytes)
         /\ Piece(p, 0, b) = Piece(p, 0, a) \o Piece(p, a, b)
<1>1. /\ Piece(p, a, b) \in Seq(Bytes) /\ Len(Piece(p, a, b)) = b - a
      /\ \A k \in 1..b - a : Piece(p, a, b)[k] = p[a + k]
  BY DEF Piece
<1>2. /\ Piece(p, 0, a) \in Seq(Bytes) /\ Len(Piece(p, 0, a)) = a
      /\ \A k \in 1..a : Piece(p, 0, a)[k] = p[k]
  BY DEF Piece
<1>3. /\ Piece(p, 0, b) \in Seq(Bytes) /\ Len(Piece(p, 0, b)) = b
      /\ \A k \in 1..b : Piece(p, 0, b)[k] = p[k]
  BY DEF Piece
<1>4. Piece(p, 0, b) = Piece(p, 0, a) \o Piece(p, a, b)
  <2> DEFINE u == Piece(p, 0, a)
             v == Piece(p, a, b)
             s == u \o v
  <2>0. /\ u \in Seq(Bytes) /\ Len(u) = a /\ \A k \in 1..a : u[k] = p[k]
        /\ v \in Seq(Bytes) /\ Len(v) = b - a /\ \A k \in 1..b - a : v[k] = p[a + k]
    BY <1>1, <1>2
  <2> HIDE DEF u, v
  <2>1. s \in Seq(Bytes) /\ Len(s) = b
    <3>1. u \in Seq(Bytes) /\ v \in Seq(Bytes)
      BY <2>0
    <3>2. s \in Seq(Bytes) /\ Len(s) = Len(u) + Len(v)
      BY ONLY <3>1
    <3> HIDE DEF s
    <3> QED
      BY <2>0, <3>2
  <2>2. ASSUME NEW k \in 1..b PROVE s[k] = p[k]
    <3>1. CASE k <= a
      BY <2>0, <3>1
    <3>2. CASE k > a
      <4>1. k - a \in 1..b - a /\ k = a + (k - a)
        BY <3>2
      <4>2. s[k] = v[k - a]
        BY <2>0, <3>2, <4>1
      <4> QED
        BY <2>0, <4>1, <4>2
    <3>3. k <= a \/ k > a
      OBVIOUS
    <3> HIDE DEF s
    <3> QED
      BY ONLY <3>1, <3>2, <3>3
  <2> HIDE DEF s
  <2>3. s = Piece(p, 0, b)
    BY <1>3, <2>1, <2>2
  <2> QED
    BY <2>3 DEF s, u, v
<1> QED
  BY <1>1, <1>2, <1>4

LEMMA CarriedOn ==
  ASSUME NEW p \in Seq(Bytes), NEW a \in Nat, NEW b, NEW c, a <= Len(p),
         NEW v, Carried(p, v, a, b), NEW w, Carried(p, w, b, c)
  PROVE  Carried(p, v \o w, a, c)
<1>1. v \o w \in Seq(Seq(Bytes))
  BY DEF Carried
<1>2. ASSUME NEW start \in Registers
      PROVE  Through(v \o w, Through(Piece(p, 0, a), start, Step), Instruction)
               = Through(Piece(p, 0, c), start, Step)
  <2> DEFINE s == Through(Piece(p, 0, a), start, Step)
  <2>1. s \in Registers
    <3>1. Piece(p, 0, a) \in Seq(Bytes)
      BY PieceOf
    <3> QED
      BY <3>1, Come
  <2>2. v \in Seq(Seq(Bytes)) /\ w \in Seq(Seq(Bytes))
    BY DEF Carried
  <2>3. Through(v \o w, s, Instruction) = Through(w, Through(v, s, Instruction), Instruction)
    <3> HIDE DEF s
    <3>1. Fits(v, s, Instruction, Seq(Bytes), Registers)
      BY <2>1, <2>2, StepTyped DEF Fits
    <3> QED
      BY <2>2, <3>1, ThroughJoin
  <2>4. Through(v, s, Instruction) = Through(Piece(p, 0, b), start, Step)
    BY DEF Carried
  <2>5. Through(w, Through(Piece(p, 0, b), start, Step), Instruction)
          = Through(Piece(p, 0, c), start, Step)
    BY DEF Carried
  <2> HIDE DEF s
  <2>6. Through(v \o w, s, Instruction) = Through(Piece(p, 0, c), start, Step)
    BY ONLY <2>3, <2>4, <2>5
  <2> QED
    BY <2>6 DEF s
<1> QED
  BY <1>1, <1>2 DEF Carried

(* n words of one width, from at on.                                       *)
Run(p, at, n, width) ==
  [k \in 1..n |-> SubSeq(p, at + (k - 1) * width + 1, at + k * width)]

LEMMA RunCarried ==
  ASSUME NEW p \in Seq(Bytes), NEW at \in Nat, NEW n \in Nat, NEW width \in {1, 4, 8},
         at + n * width <= Len(p)
  PROVE  Carried(p, Run(p, at, n, width), at, at + n * width)
<1> DEFINE place == [k \in 0..n |-> at + k * width]
<1>1. /\ \A k \in 0..n : place[k] \in Nat /\ at <= place[k] /\ place[k] <= Len(p)
      /\ place[0] = at /\ place[n] = at + n * width
      /\ \A k \in 1..n : place[k - 1] <= place[k]
  <2>1. CASE width = 1
    BY <2>1
  <2>2. CASE width = 4
    BY <2>2
  <2>3. CASE width = 8
    BY <2>3
  <2> QED
    BY <2>1, <2>2, <2>3
<1> DEFINE W == Run(p, at, n, width)
<1>2. DOMAIN W = 1..n /\ \A k \in 1..n : W[k] = Piece(p, place[k - 1], place[k])
  <2>1. DOMAIN W = 1..n
    BY DEF Run
  <2>2. ASSUME NEW k \in 1..n PROVE W[k] = Piece(p, place[k - 1], place[k])
    <3>1. W[k] = SubSeq(p, at + (k - 1) * width + 1, at + k * width)
      BY DEF Run
    <3>2. place[k - 1] = at + (k - 1) * width /\ place[k] = at + k * width
      OBVIOUS
    <3> HIDE DEF W, place
    <3> QED
      BY ONLY <3>1, <3>2 DEF Piece
  <2> QED
    BY <2>1, <2>2
<1>3. W = [k \in 1..n |-> Piece(p, place[k - 1], place[k])]
  BY <1>2 DEF Run
<1> HIDE DEF place, W
<1>4. \A k \in 1..n : k - 1 \in 0..n /\ k \in 0..n
  OBVIOUS
<1>5. \A k \in 1..n : Piece(p, place[k - 1], place[k]) \in Seq(Bytes)
  BY <1>1, <1>4, PieceOf
<1>6. W \in Seq(Seq(Bytes)) /\ Len(W) = n
  BY <1>3, <1>5
<1>7. ASSUME NEW start \in Registers
      PROVE  Through(W, Through(Piece(p, 0, at), start, Step), Instruction)
               = Through(Piece(p, 0, place[n]), start, Step)
  <2> DEFINE G == [k \in 0..n |-> Through(Piece(p, 0, place[k]), start, Step)]
  <2>1. \A k \in 0..n : G[k] \in Registers
    <3>1. ASSUME NEW k \in 0..n PROVE G[k] \in Registers
      <4>1. Piece(p, 0, place[k]) \in Seq(Bytes)
        BY <1>1, PieceOf
      <4>2. Through(Piece(p, 0, place[k]), start, Step) \in Registers
        BY <4>1, Come
      <4> QED
        BY <4>2
    <3> QED
      BY <3>1
  <2>2. ASSUME NEW k \in 1..n PROVE G[k] = Instruction[G[k - 1]][W[k]]
    <3>1. /\ Piece(p, 0, place[k - 1]) \in Seq(Bytes)
          /\ Piece(p, place[k - 1], place[k]) \in Seq(Bytes)
          /\ Piece(p, 0, place[k]) =
               Piece(p, 0, place[k - 1]) \o Piece(p, place[k - 1], place[k])
      BY <1>1, <1>4, PieceOf
    <3>2. Through(Piece(p, 0, place[k]), start, Step)
            = Through(Piece(p, place[k - 1], place[k]),
                      Through(Piece(p, 0, place[k - 1]), start, Step), Step)
      <4> DEFINE u == Piece(p, 0, place[k - 1])
                 v == Piece(p, place[k - 1], place[k])
      <4>1. u \in Seq(Bytes) /\ v \in Seq(Bytes) /\ Piece(p, 0, place[k]) = u \o v
        BY <3>1
      <4> HIDE DEF u, v
      <4>2. Through(u \o v, start, Step) = Through(v, Through(u, start, Step), Step)
        BY ONLY start \in Registers, <4>1, Come
      <4> QED
        BY ONLY <4>1, <4>2 DEF u, v
    <3>3. /\ G[k] = Through(Piece(p, 0, place[k]), start, Step)
          /\ G[k - 1] = Through(Piece(p, 0, place[k - 1]), start, Step)
      BY <1>4
    <3>4. W[k] = Piece(p, place[k - 1], place[k])
      BY <1>2
    <3>5. G[k - 1] \in Registers
      BY <1>4, <2>1
    <3> HIDE DEF G
    <3> QED
      BY <3>1, <3>2, <3>3, <3>4, <3>5, StepTyped
  <2>3. Passed(G, W, Through(Piece(p, 0, at), start, Step), Instruction)
    <3>1. DOMAIN G = 0..n /\ G[0] = Through(Piece(p, 0, at), start, Step)
      BY <1>1
    <3> HIDE DEF G
    <3> QED
      BY <1>6, <2>2, <3>1 DEF Passed
  <2>4. Through(Piece(p, 0, at), start, Step) \in Registers
    BY <1>1, <2>1
  <2>5. G[Len(W)] = Through(Piece(p, 0, place[n]), start, Step)
    BY <1>6
  <2>6. Fits(W, Through(Piece(p, 0, at), start, Step), Instruction, Seq(Bytes), Registers)
    BY <1>6, <2>4, StepTyped DEF Fits
  <2> HIDE DEF G
  <2> QED
    BY <2>3, <2>5, <2>6, ThroughIs
<1> QED
  BY <1>1, <1>6, <1>7 DEF Carried, W

(* The loops of crc32c go through all of p.                                *)
LEMMA WordsCarried ==
  ASSUME NEW p \in Seq(Bytes), NEW address \in Nat
  PROVE  Carried(p, Words(p, address), 0, Len(p))
<1> DEFINE lead == Lead(address, Len(p))
           left == Len(p) - lead
           eights == left \div 8
           fours == (left % 8) \div 4
           ones == left % 4
           b == lead + 8 * eights
           c == b + 4 * fours
<1>1. Len(p) \in Nat
  OBVIOUS
<1>2. lead \in Nat /\ lead <= Len(p) /\ left \in Nat /\ lead + left = Len(p)
  BY <1>1 DEF Lead
<1>3. /\ eights \in Nat /\ fours \in Nat /\ ones \in Nat
      /\ left = 8 * eights + 4 * fours + ones
  <2> HIDE DEF left
  <2> QED
    BY <1>2
<1>4. Words(p, address) = Run(p, 0, lead, 1) \o Run(p, lead, eights, 8)
        \o Run(p, b, fours, 4) \o Run(p, Len(p) - ones, ones, 1)
  BY DEF Words, Run
<1> HIDE DEF lead, left, eights, fours, ones
<1>5. /\ b \in Nat /\ c \in Nat /\ c = Len(p) - ones /\ c + ones = Len(p)
      /\ lead + eights * 8 = b /\ b + fours * 4 = c
      /\ b <= Len(p) /\ c <= Len(p) /\ 0 + lead * 1 = lead /\ c + ones * 1 = Len(p)
  BY <1>1, <1>2, <1>3
<1> HIDE DEF b, c
<1>6. Carried(p, Run(p, 0, lead, 1), 0, lead)
  <2>1. Carried(p, Run(p, 0, lead, 1), 0, 0 + lead * 1)
    BY <1>2, <1>5, RunCarried
  <2> QED
    BY <1>5, <2>1
<1>7. Carried(p, Run(p, lead, eights, 8), lead, b)
  <2>1. Carried(p, Run(p, lead, eights, 8), lead, lead + eights * 8)
    BY <1>2, <1>3, <1>5, RunCarried
  <2> QED
    BY <1>5, <2>1
<1>8. Carried(p, Run(p, b, fours, 4), b, c)
  <2>1. Carried(p, Run(p, b, fours, 4), b, b + fours * 4)
    BY <1>3, <1>5, RunCarried
  <2> QED
    BY <1>5, <2>1
<1>9. Carried(p, Run(p, Len(p) - ones, ones, 1), c, Len(p))
  <2>1. Carried(p, Run(p, c, ones, 1), c, c + ones * 1)
    BY <1>3, <1>5, RunCarried
  <2> QED
    BY <1>5, <2>1
<1> DEFINE V == Run(p, 0, lead, 1)
           W == Run(p, lead, eights, 8)
           X == Run(p, b, fours, 4)
           Y == Run(p, Len(p) - ones, ones, 1)
<1>10. Words(p, address) = ((V \o W) \o X) \o Y
  BY <1>4
<1> HIDE DEF V, W, X, Y
<1>11. /\ Carried(p, V, 0, lead) /\ Carried(p, W, lead, b)
       /\ Carried(p, X, b, c) /\ Carried(p, Y, c, Len(p))
  BY <1>6, <1>7, <1>8, <1>9 DEF V, W, X, Y
<1>12. 0 \in Nat /\ 0 <= Len(p)
  BY <1>1
<1>13. Carried(p, V \o W, 0, b)
  BY ONLY p \in Seq(Bytes), <1>11, <1>12, CarriedOn
<1>14. Carried(p, (V \o W) \o X, 0, c)
  BY ONLY p \in Seq(Bytes), <1>11, <1>12, <1>13, CarriedOn
<1>15. Carried(p, ((V \o W) \o X) \o Y, 0, Len(p))
  BY ONLY p \in Seq(Bytes), <1>11, <1>12, <1>14, CarriedOn
<1> QED
  BY ONLY <1>10, <1>15

(* By table or by instructions: a checksum carried on over p.              *)
LEMMA ChecksumOf ==
  ASSUME NEW p \in Seq(Bytes), NEW crc \in Registers, NEW address \in Nat, NEW hw
  PROVE  crc32c(hw, crc, p, address) = Complement(Through(p, Complement(crc), Step))
<1> DEFINE start == Complement(crc)
<1>1. start \in Registers
  BY RegisterBitsAreNat
<1>2. crc32c_sw(crc, p) = Complement(Through(p, start, Step))
  <2>1. LookUp(tableC) = Step
    BY TableIsBits, CrcAssumption DEF tableC, Step, CrcAssumption
  <2> QED
    BY <2>1 DEF crc32c_sw, ByTable
<1>3. crc32c_hw(crc, p, address) = Complement(Through(p, start, Step))
  <2>1. Through(Words(p, address), Through(Piece(p, 0, 0), start, Step), Instruction)
          = Through(Piece(p, 0, Len(p)), start, Step)
    BY <1>1, WordsCarried DEF Carried
  <2>2. Piece(p, 0, 0) = <<>> /\ Piece(p, 0, Len(p)) = p
    BY DEF Piece
  <2>3. Through(Piece(p, 0, 0), start, Step) = start
    <3>1. Piece(p, 0, 0) \in Seq(Bytes)
      BY PieceOf
    <3> HIDE DEF start
    <3> QED
      BY <1>1, <2>2, <3>1, Come
  <2>4. crc32c_hw(crc, p, address) = Complement(Through(Words(p, address), start, Instruction))
    BY DEF crc32c_hw
  <2> QED
    BY <2>1, <2>2, <2>3, <2>4
<1> QED
  BY <1>2, <1>3 DEF crc32c

(* The parts together, one after the other.                                *)
LEMMA Flattened ==
  ASSUME NEW S, NEW s \in Seq(Seq(S))
  PROVE  \E F \in [0..Len(s) -> Seq(S)] :
           /\ F[0] = <<>>
           /\ \A n \in 1..Len(s) : F[n] = F[n - 1] \o s[n]
           /\ FlattenSeq(s) = F[Len(s)]
<1> DEFINE l == Len(s)
           g == [n \in 1..l |-> [x \in Seq(S) |-> x \o s[n]]]
           Right(G) == G = [n \in 1..l |-> IF n = 1 THEN s[n] ELSE G[n - 1] \o s[n]]
           flatten == CHOOSE G : Right(G)
<1>1. /\ l \in Nat /\ <<>> \in Seq(S) /\ \A n \in 1..l : s[n] \in Seq(S)
      /\ g \in [1..l -> [Seq(S) -> Seq(S)]]
      /\ \A n \in 1..l, x \in Seq(S) : g[n][x] = x \o s[n]
      /\ \A x \in Seq(S) : <<>> \o x = x
  OBVIOUS
<1> HIDE DEF l, g
<1>2. PICK F \in [0..l -> Seq(S)] : Recursive(F, l, <<>>, g)
  BY <1>1, RecursiveExists
<1>3. /\ F[0] = <<>>
      /\ \A n \in 1..l : F[n] = F[n - 1] \o s[n]
  <2>1. \A n \in 0..l : F[n] = IF n = 0 THEN <<>> ELSE g[n][F[n - 1]]
    BY <1>2 DEF Recursive
  <2>2. F[0] = <<>>
    BY <1>1, <2>1
  <2>3. ASSUME NEW n \in 1..l PROVE F[n] = F[n - 1] \o s[n]
    <3>1. n \in 0..l /\ n # 0 /\ n - 1 \in 0..l
      BY <1>1
    <3>2. F[n - 1] \in Seq(S)
      BY <1>2, <3>1
    <3>3. F[n] = g[n][F[n - 1]]
      BY <2>1, <3>1
    <3> QED
      BY <1>1, <3>2, <3>3
  <2> QED
    BY <2>2, <2>3
<1>4. CASE l = 0
  <2>1. FlattenSeq(s) = s /\ s = <<>>
    BY <1>4 DEF FlattenSeq, l
  <2> QED
    BY <1>2, <1>3, <1>4, <2>1
<1>5. CASE l # 0
  <2> DEFINE H == [n \in 1..l |-> F[n]]
  <2>1. ASSUME NEW n \in 1..l PROVE H[n] = IF n = 1 THEN s[n] ELSE H[n - 1] \o s[n]
    <3>1. s[n] \in Seq(S) /\ F[n] = F[n - 1] \o s[n]
      BY <1>1, <1>3
    <3>2. CASE n = 1
      <4>1. F[n - 1] = <<>>
        BY <1>3, <3>2
      <4>2. F[n] = s[n]
        BY ONLY <1>1, <3>1, <4>1
      <4> QED
        BY <3>2, <4>2
    <3>3. CASE n # 1
      <4>1. n - 1 \in 1..l
        BY <3>3, <1>1
      <4> QED
        BY <3>1, <3>3, <4>1
    <3> QED
      BY <3>2, <3>3
  <2>2. Right(H)
    BY <2>1
  <2>3. Right(flatten)
    BY <2>2
  <2>4. FlattenSeq(s) = flatten[l]
    BY <1>5, Zenon DEF FlattenSeq, l
  <2>5. \A n \in 1..l : flatten[n] = IF n = 1 THEN s[n] ELSE flatten[n - 1] \o s[n]
    BY ONLY <2>3
  <2> DEFINE T == {n \in 0..l : n = 0 \/ flatten[n] = F[n]}
  <2> HIDE DEF flatten, H
  <2>6. ASSUME NEW n \in 1..l, n - 1 \in T PROVE n \in T
    <3>1. s[n] \in Seq(S) /\ F[n] = F[n - 1] \o s[n]
      BY <1>1, <1>3
    <3>2. CASE n = 1
      <4>1. F[n - 1] = <<>>
        BY <1>3, <3>2
      <4>2. F[n] = s[n]
        BY ONLY <1>1, <3>1, <4>1
      <4>3. flatten[n] = s[n]
        BY <2>5, <3>2
      <4> QED
        BY <1>1, <4>2, <4>3
    <3>3. CASE n # 1
      <4>1. flatten[n - 1] = F[n - 1]
        BY <1>1, <2>6, <3>3
      <4>2. flatten[n] = flatten[n - 1] \o s[n]
        BY <2>5, <3>3
      <4>3. flatten[n] = F[n]
        BY ONLY <3>1, <4>1, <4>2
      <4> QED
        BY <1>1, <4>3
    <3> QED
      BY <3>2, <3>3
  <2>7. l \in T
    <3>1. 0 \in T
      BY <1>1
    <3> HIDE DEF T
    <3>2. 0..l \subseteq T
      BY <1>1, <2>6, <3>1, UpTo
    <3> QED
      BY <1>1, <3>2
  <2> QED
    BY <1>2, <1>3, <1>5, <2>4, <2>7
<1> QED
  BY <1>4, <1>5 DEF l

(* The checksum carried from part to part is the one of the whole.         *)
LEMMA ChecksumCarried ==
  ASSUME NEW parts \in Seq(Seq(Bytes)), NEW address \in Nat, NEW hw, NEW step,
         step = [crc \in Registers |-> [part \in Seq(Bytes) |->
                   crc32c(hw, crc, part, address)]]
  PROVE  Through(parts, {}, step) = Reference(PolyC, FlattenSeq(parts))
<1> DEFINE n == Len(parts)
           none == Complement({})
           Sum(bytes) == Complement(Through(bytes, none, Step))
<1>1. none \in Registers /\ Complement(none) = {} /\ {} \in Registers
  BY RegisterBitsAreNat
<1>2. ASSUME NEW crc \in Registers, NEW part \in Seq(Bytes)
      PROVE  /\ step[crc][part] = Complement(Through(part, Complement(crc), Step))
             /\ step[crc][part] \in Registers
  <2>1. step[crc][part] = crc32c(hw, crc, part, address)
    OBVIOUS
  <2>2. crc32c(hw, crc, part, address) = Complement(Through(part, Complement(crc), Step))
    BY ChecksumOf
  <2> QED
    BY ONLY <2>1, <2>2, RegisterBitsAreNat
<1>3. step \in [Registers -> [Seq(Bytes) -> Registers]]
  <2>1. step = [crc \in Registers |-> [part \in Seq(Bytes) |-> step[crc][part]]]
    OBVIOUS
  <2> QED
    BY ONLY <1>2, <2>1
<1>4. PICK F \in [0..n -> Seq(Bytes)] :
        /\ F[0] = <<>>
        /\ \A k \in 1..n : F[k] = F[k - 1] \o parts[k]
        /\ FlattenSeq(parts) = F[n]
  BY Flattened
<1>5. n \in Nat /\ \A k \in 1..n : parts[k] \in Seq(Bytes)
  OBVIOUS
<1> HIDE DEF n, none
<1> DEFINE G == [k \in 0..n |-> Sum(F[k])]
<1>6. Passed(G, parts, {}, step)
  <2>1. G[0] = {}
    <3>1. F[0] \in Seq(Bytes) /\ F[0] = <<>> /\ 0 \in 0..n
      BY <1>4, <1>5
    <3>2. Through(F[0], none, Step) = none
      BY <1>1, <3>1, Come
    <3>3. G[0] = Complement(none)
      BY <3>1, <3>2
    <3> QED
      BY <1>1, <3>3
  <2>2. ASSUME NEW k \in 1..n PROVE G[k] = step[G[k - 1]][parts[k]]
    <3>1. /\ k \in 0..n /\ k - 1 \in 0..n /\ parts[k] \in Seq(Bytes)
          /\ F[k - 1] \in Seq(Bytes) /\ F[k] = F[k - 1] \o parts[k]
      <4>1. k \in 0..n /\ k - 1 \in 0..n
        BY <1>5
      <4> QED
        BY <1>4, <1>5, <4>1
    <3>2. Through(F[k], none, Step) = Through(parts[k], Through(F[k - 1], none, Step), Step)
      BY <1>1, <3>1, Come
    <3>3. Through(F[k - 1], none, Step) \in Registers
      BY <1>1, <3>1, Come
    <3>4. G[k - 1] = Sum(F[k - 1]) /\ G[k] = Sum(F[k])
      BY <3>1
    <3> HIDE DEF G
    <3>5. G[k - 1] \in Registers /\ Complement(G[k - 1]) = Through(F[k - 1], none, Step)
      BY ONLY <3>3, <3>4, RegisterBitsAreNat
    <3>6. step[G[k - 1]][parts[k]] = Complement(Through(parts[k], Complement(G[k - 1]), Step))
      BY <1>2, <3>1, <3>5
    <3> QED
      BY ONLY <3>2, <3>4, <3>5, <3>6
  <2>3. DOMAIN G = 0..n
    OBVIOUS
  <2> HIDE DEF G
  <2> QED
    BY ONLY <2>1, <2>2, <2>3 DEF Passed, n
<1>7. Fits(parts, {}, step, Seq(Bytes), Registers)
  BY <1>1, <1>3 DEF Fits
<1>8. G[n] = Sum(FlattenSeq(parts))
  BY <1>4, <1>5
<1>9. Sum(FlattenSeq(parts)) = Reference(PolyC, FlattenSeq(parts))
  BY DEF Reference, Step, none
<1> HIDE DEF G
<1> QED
  BY <1>6, <1>7, <1>8, <1>9, ThroughIs DEF n

LEMMA IeeeByTable ==
  ASSUME NEW bytes
  PROVE  crc32_ieee({}, bytes) = Reference(PolyIeee, bytes)
<1>1. LookUp(tableIeee) = ByBits(PolyIeee)
  BY TableIsBits, CrcAssumption DEF tableIeee, CrcAssumption
<1> QED
  BY <1>1 DEF crc32_ieee, ByTable, Reference

-----------------------------------------------------------------------------
(* The bytes of a context are those of its file, part by part, and its     *)
(* checksum is the one computed from them.                                 *)
Summed(r) == r.fc.parts \in Seq(Seq(Bytes)) /\ r.crc = crcOf(r.fc)
AllSummed == \A r \in scanned : Summed(r)

LEMMA PartTyped ==
  ASSUME NEW f \in DOMAIN FileAt, NEW from \in Nat, NEW to \in Int, to <= FileAt[f].size
  PROVE  Part(from, to) \in Seq(Bytes)
<1> DEFINE size == FileAt[f].size
<1>1. size \in Nat /\ \A k \in 1..size : ByteAt(k) \in Bytes
  BY SessionAssumption DEF SessionAssumption
<1>2. Part(from, to) = [k \in 1..to - from |-> ByteAt(from + k)]
  BY DEF Part
<1>3. ASSUME NEW k \in 1..to - from PROVE ByteAt(from + k) \in Bytes
  <2>1. from + k \in 1..size
    BY <1>1
  <2> QED
    BY <1>1, <2>1
<1>4. CASE to >= from
  <2>1. to - from \in Nat
    BY <1>4
  <2> QED
    BY <1>2, <1>3, <2>1
<1>5. CASE ~(to >= from)
  <2>1. 1..to - from = 1..0
    BY <1>5
  <2> QED
    BY <1>2, <1>3, <2>1
<1> QED
  BY <1>4, <1>5

(* One element, or two, of a set are a sequence of it. *)
LEMMA OneOrTwo ==
  ASSUME NEW X, NEW u \in X
  PROVE  <<u>> \in Seq(X) /\ \A v : v \in X => Append(<<u>>, v) \in Seq(X)
<1>1. <<u>> \in Seq(X)
  OBVIOUS
<1> QED
  BY <1>1

(* The parts of a file a context carries are sequences of bytes.           *)
LEMMA PartsTyped ==
  ASSUME NEW f \in DOMAIN FileAt, Block \in Nat, NEW c \in Contexts(f)
  PROVE  c.parts \in Seq(Seq(Bytes))
<1> DEFINE size == FileAt[f].size
           readable == FileAt[f].readable
           base == Context(f)
<1>1. size \in Nat /\ readable \in 0..size
  BY SessionAssumption DEF SessionAssumption
<1>2. /\ base.parts = <<>> /\ base.size \in Nat /\ base.size <= size
      /\ DOMAIN base = ContextFields
  BY <1>1 DEF Context, ContextFields
<1> HIDE DEF base
<1> USE DEF ContextFields
<1>3. CASE isSsd \/ ~FileAt[f].opens
  <2>1. c = base
    BY <1>3 DEF Contexts, base
  <2>2. c.parts = <<>>
    BY <1>2, <2>1
  <2> QED
    BY ONLY <2>2
<1>4. CASE ~(isSsd \/ ~FileAt[f].opens) /\ pass = "header"
  <2> DEFINE got == Least(Block, readable)
             off == size - Block
             end == off + IF readable > off THEN readable - off ELSE 0
  <2>1. c = HeaderContext(f)
    BY <1>4 DEF Contexts
  <2>2. \/ c.parts = <<Part(0, got)>>
        \/ size > Block /\ c.parts = Append(<<Part(0, got)>>, Part(off, end))
    <3> DEFINE small == size <= Block \/ Block = 0
    <3>1. \E b, l, s : LET header == [base EXCEPT !["isPartial"] = TRUE, !["isStreaming"] = s,
                   !["buffer"] = b, !["bufferLoaded"] = l, !["parts"] = <<Part(0, got)>>] IN
            IF small THEN HeaderContext(f) = header
            ELSE \E g : HeaderContext(f) = [header EXCEPT !["footer"] = g,
                          !["footerLoaded"] = TRUE, !["parts"] = Append(@, Part(off, end))]
      BY Zenon DEF HeaderContext, base
    <3>2. PICK b, l, s : LET header == [base EXCEPT !["isPartial"] = TRUE, !["isStreaming"] = s,
                   !["buffer"] = b, !["bufferLoaded"] = l, !["parts"] = <<Part(0, got)>>] IN
            IF small THEN HeaderContext(f) = header
            ELSE \E g : HeaderContext(f) = [header EXCEPT !["footer"] = g,
                          !["footerLoaded"] = TRUE, !["parts"] = Append(@, Part(off, end))]
      BY <3>1
    <3> DEFINE header == [base EXCEPT !["isPartial"] = TRUE, !["isStreaming"] = s,
                   !["buffer"] = b, !["bufferLoaded"] = l, !["parts"] = <<Part(0, got)>>]
    <3>3. DOMAIN header = ContextFields /\ header.parts = <<Part(0, got)>>
      BY <1>2
    <3> HIDE DEF header
    <3>4. IF small THEN c = header
          ELSE \E g : c = [header EXCEPT !["footer"] = g,
                          !["footerLoaded"] = TRUE, !["parts"] = Append(@, Part(off, end))]
      BY <2>1, <3>2 DEF header
    <3>5. ~small => size > Block
      BY <1>1
    <3> HIDE DEF got, off, end, small
    <3> QED
      BY <3>3, <3>4, <3>5
  <2>3. got \in Nat /\ got <= size
    BY <1>1 DEF Least
  <2>4. Part(0, got) \in Seq(Bytes)
    BY <2>3, PartTyped
  <2>5. size > Block => Part(off, end) \in Seq(Bytes)
    <3>1. ASSUME size > Block PROVE off \in Nat /\ end \in Int /\ end <= size
      BY <1>1, <3>1
    <3> HIDE DEF off, end
    <3> QED
      BY <3>1, PartTyped
  <2> DEFINE u == Part(0, got)
             v == Part(off, end)
  <2> HIDE DEF got, off, end, u, v
  <2>6. \/ c.parts = <<u>> /\ u \in Seq(Bytes)
        \/ c.parts = Append(<<u>>, v) /\ u \in Seq(Bytes) /\ v \in Seq(Bytes)
    BY <2>2, <2>4, <2>5 DEF u, v
  <2>7. <<u>> \in Seq(Seq(Bytes)) /\ (v \in Seq(Bytes) => Append(<<u>>, v) \in Seq(Seq(Bytes)))
    BY ONLY <2>6, OneOrTwo
  <2> QED
    BY ONLY <2>6, <2>7
<1>5. CASE ~(isSsd \/ ~FileAt[f].opens) /\ pass # "header" /\ (readable = 0 \/ Block = 0)
  <2>1. c = [base EXCEPT !["isStreaming"] = base.size > Block]
    BY <1>5 DEF Contexts, base
  <2>2. c.parts = <<>>
    BY <1>2, <2>1
  <2> QED
    BY ONLY <2>2
<1>6. CASE ~(isSsd \/ ~FileAt[f].opens) /\ pass # "header" /\ ~(readable = 0 \/ Block = 0)
  <2> DEFINE from == IF base.size > Block THEN Block ELSE 0
             blocks == from \div Block..(IF base.size = 0 THEN 0 ELSE (base.size - 1) \div Block)
             n == Cardinality(blocks)
             at(k) == from + (k - 1) * Block
             parts == [k \in 1..n |-> Part(at(k), Least(base.size, at(k) + Block))]
  <2>1. c = FullContext(f)
    BY <1>6 DEF Contexts, base
  <2>2. c.parts = parts
    <3>1. \E b, h, e : LET whole == [base EXCEPT !["buffer"] = b, !["bufferLoaded"] = TRUE,
                   !["hashValid"] = h, !["entropyKnown"] = e, !["parts"] = parts] IN
            FullContext(f) = IF from = 0 THEN whole
                             ELSE [whole EXCEPT !["path"] = NoPath, !["size"] = 0, !["ext"] = ""]
      BY Zenon DEF FullContext, base
    <3> HIDE DEF from, parts
    <3> QED
      BY <1>2, <2>1, <3>1
  <2>3. n \in Nat
    <3>1. from \div Block \in Int /\ (IF base.size = 0 THEN 0 ELSE (base.size - 1) \div Block) \in Int
      BY <1>2, <1>6
    <3>2. IsFiniteSet(blocks)
      BY <3>1, FS_Interval
    <3> HIDE DEF blocks
    <3> QED
      BY <3>2, FS_CardinalityType
  <2>4. ASSUME NEW k \in 1..n
        PROVE  Part(at(k), Least(base.size, at(k) + Block)) \in Seq(Bytes)
    <3>1. from \in Nat /\ k - 1 \in Nat
      BY <2>3
    <3>2. (k - 1) * Block \in Nat
      BY <3>1
    <3>3. at(k) \in Nat
      BY <3>1, <3>2
    <3> DEFINE to == Least(base.size, at(k) + Block)
    <3>4. to \in Int /\ to <= size
      BY <1>1, <1>2, <3>3 DEF Least
    <3> HIDE DEF at, to
    <3>5. Part(at(k), to) \in Seq(Bytes)
      BY <3>3, <3>4, PartTyped
    <3> QED
      BY <3>5 DEF to
  <2>5. parts \in Seq(Seq(Bytes))
    <3> HIDE DEF n, at
    <3> QED
      BY <2>3, <2>4
  <2> HIDE DEF parts
  <2> QED
    BY <2>2, <2>5
<1> QED
  BY <1>3, <1>4, <1>5, <1>6

(* Every step keeps what is known of the results: their checksum is taken  *)
(* over the parts their context has carried, one after the other.          *)
LEMMA SummedStep == AllSummed /\ ReadInv /\ [Next]_vars => AllSummed'
<1> SUFFICES ASSUME AllSummed, ReadInv, [Next]_vars PROVE AllSummed'
  OBVIOUS
<1>1. ASSUME NEW r, Summed(r), setup' = setup PROVE Summed(r)'
  BY <1>1 DEF Summed, crcOf, D
<1>2. CASE \E f \in setup.files : ScanFile(f)
  <2>1. PICK f \in setup.files : ScanFile(f)
    BY <1>2
  <2>2. scanned' = scanned \cup ResultsFor(f) /\ setup' = setup
    BY <2>1 DEF ScanFile, ResultsFor
  <2>3. ASSUME NEW r \in ResultsFor(f) PROVE Summed(r)
    <3>1. PICK c \in Contexts(f) : r = Result(c)
      BY DEF ResultsFor
    <3>2. r.fc = c /\ r.crc = crcOf(c)
      BY <3>1 DEF Result
    <3>3. f \in DOMAIN FileAt /\ Block \in Nat
      BY Settings
    <3>4. c.parts \in Seq(Seq(Bytes))
      BY <3>3, PartsTyped
    <3> QED
      BY <3>2, <3>4 DEF Summed
  <2> QED
    BY <1>1, <2>2, <2>3 DEF AllSummed
<1>3. CASE ~(\E f \in setup.files : ScanFile(f))
  <2>1. scanned' = scanned /\ setup' = setup
    <3>1. CASE Parse
      BY <3>1 DEF Parse, sessionVars
    <3>2. CASE Leave \/ StartUp \/ EndPass \/ Finish \/ Sigint
      BY <3>2 DEF Leave, StartUp, EndPass, Finish, Sigint
    <3>3. CASE UNCHANGED vars
      BY <3>3 DEF vars, sessionVars
    <3> QED
      BY <1>3, <3>1, <3>2, <3>3 DEF Next, Done
  <2> QED
    BY <1>1, <2>1 DEF AllSummed
<1> QED
  BY <1>2, <1>3

(* CRC-32C by table and by instructions, from chunk to chunk, and the      *)
(* CRC-32 of the PNG detector (Crc32c.cpp:12-120, main.cpp:237-240): the   *)
(* checksum of a file is the one of its bytes together, taken bit by bit,  *)
(* for any polynomials, widths, blocks and addresses of the buffers.       *)
THEOREM ChecksumsAgree == Spec => []ChecksumOfParts
<1>1. Init => AllSummed
  BY DEF Init, AllSummed
<1>2. ReadInv /\ AllSummed => ChecksumOfParts
  <2> SUFFICES ASSUME ReadInv, NEW r \in scanned, Summed(r)
               PROVE  LET bytes == FlattenSeq(r.fc.parts) IN
                        /\ r.crc = Reference(PolyC, bytes)
                        /\ crc32_ieee({}, bytes) = Reference(PolyIeee, bytes)
    BY DEF AllSummed, ChecksumOfParts
  <2> DEFINE parts == r.fc.parts
             step == [crc \in Registers |-> [part \in Seq(Bytes) |->
                        crc32c(D.sse, crc, part, D.address)]]
  <2>1. D.address \in Nat
    BY SessionAssumption DEF SessionAssumption, ReadInv, D
  <2>2. parts \in Seq(Seq(Bytes)) /\ r.crc = Through(parts, {}, step)
    BY DEF Summed, crcOf
  <2> HIDE DEF parts
  <2>3. Through(parts, {}, step) = Reference(PolyC, FlattenSeq(parts))
    BY <2>1, <2>2, ChecksumCarried
  <2>4. crc32_ieee({}, FlattenSeq(parts)) = Reference(PolyIeee, FlattenSeq(parts))
    BY IeeeByTable
  <2> HIDE DEF step
  <2> QED
    BY <2>2, <2>3, <2>4 DEF parts
<1> QED
  BY <1>1, <1>2, SummedStep, ReadInvariance, PTL DEF Spec

=============================================================================
