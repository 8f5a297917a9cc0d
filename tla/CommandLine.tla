----------------------------- MODULE CommandLine -----------------------------
(***************************************************************************)
(* parse_args of Config.cpp, one word at a time.  A word is a string; what *)
(* it is as a list of methods or as a number is given by ListOf, NumberOf. *)
(***************************************************************************)
EXTENDS Naturals, Sequences, FiniteSets, SequencesExt

CONSTANTS
  Lists,      \* words with a comma, with the methods they name
  Numbers,    \* words that begin with digits, with their value
  Dashed      \* the words that begin with '-'

VARIABLES argv, i, cfg, rootSet

commandLineVars == <<argv, i, cfg, rootSet>>

ListOf(word) == IF word \in DOMAIN Lists THEN Lists[word] ELSE {word}
NumberOf(word) == IF word \in DOMAIN Numbers THEN Numbers[word] ELSE 0

Default ==
  [root |-> "C:\\", methods |-> {"size", "magic", "io", "struct"},
   allChecks |-> FALSE, includeSuspect |-> FALSE, followLinks |-> FALSE,
   permanent |-> FALSE, assumeYes |-> FALSE, forceSystem |-> FALSE,
   noProgress |-> FALSE, physicalOrder |-> FALSE, noCache |-> FALSE,
   headerFirst |-> FALSE, mftEnum |-> TRUE, writeManifest |-> FALSE,
   deleteMode |-> "Interactive", format |-> "Text", diskProfile |-> "Auto",
   reportPath |-> "", manifestPath |-> "", auditLogPath |-> "", scanCachePath |-> "",
   threads |-> 0, readers |-> 0, maxFileBytes |-> 0, hddBlockSize |-> 4194304]

(* Options that set one field: a switch, a name, a number, or one of a     *)
(* few words, any other word standing for the default.                     *)
FieldBy(pairs) == [word \in {p[1] : p \in pairs} |-> (CHOOSE p \in pairs : p[1] = word)[2]]
Switch == FieldBy(
  {<<"--all-checks", "allChecks">>, <<"--include-suspect", "includeSuspect">>,
   <<"--permanent", "permanent">>, <<"--yes", "assumeYes">>,
   <<"--force-system", "forceSystem">>, <<"--no-progress", "noProgress">>,
   <<"--follow-links", "followLinks">>, <<"--physical-order", "physicalOrder">>,
   <<"--no-cache", "noCache">>, <<"--header-first", "headerFirst">>})
Mode == FieldBy({<<"--delete-all", "All">>, <<"--report-only", "None">>})
NameOption == FieldBy(
  {<<"--audit-log", "auditLogPath">>, <<"--scan-cache", "scanCachePath">>,
   <<"--report", "reportPath">>})
(* Faulty: the number of readers is stored as that of the threads.         *)
NumberOptionMixed == FieldBy(
  {<<"--threads", "threads">>, <<"--max-size", "maxFileBytes">>,
   <<"--readers", "threads">>, <<"--hdd-block-size", "hddBlockSize">>})

NumberOption == FieldBy(
  {<<"--threads", "threads">>, <<"--max-size", "maxFileBytes">>,
   <<"--readers", "readers">>, <<"--hdd-block-size", "hddBlockSize">>})
Profile(word) ==
  IF word = "hdd" THEN "Hdd" ELSE IF word = "ssd" THEN "Ssd"
  ELSE IF word = "network" THEN "Network" ELSE "Auto"
Format(word) ==
  IF word = "json" THEN "Json" ELSE IF word = "csv" THEN "Csv" ELSE "Text"

TakesValue ==
  DOMAIN NameOption \cup DOMAIN NumberOption \cup
  {"--methods", "--write-manifest", "--manifest", "--disk-profile", "--mft-enum",
   "--format"}
Leaves == {"--help", "-h", "help", "--version"}

ASSUME CommandLineAssumption ==
  /\ Lists \in [DOMAIN Lists -> SUBSET STRING]
  /\ Numbers \in [DOMAIN Numbers -> Nat]
  /\ TakesValue \cup DOMAIN Switch \cup DOMAIN Mode \subseteq Dashed

(* What an option and the word after it do to the configuration.  The word *)
(* is taken whatever it is.                                                *)
WithValue(c, arg, value) ==
  IF arg = "--methods" THEN [c EXCEPT !.methods = ListOf(value)]
  ELSE IF arg = "--write-manifest" THEN
    [c EXCEPT !.manifestPath = value, !.writeManifest = TRUE]
  ELSE IF arg = "--manifest" THEN
    [c EXCEPT !.manifestPath = value, !.methods = @ \cup {"manifest"}]
  ELSE IF arg \in DOMAIN NameOption THEN [c EXCEPT ![NameOption[arg]] = value]
  ELSE IF arg \in DOMAIN NumberOption THEN [c EXCEPT ![NumberOption[arg]] = NumberOf(value)]
  ELSE IF arg = "--disk-profile" THEN [c EXCEPT !.diskProfile = Profile(value)]
  ELSE IF arg = "--mft-enum" THEN [c EXCEPT !.mftEnum = (value # "off")]
  ELSE [c EXCEPT !.format = Format(value)]

(* An option alone; one that wants a value and is the last word is         *)
(* ignored, as is an unknown one.                                          *)
Alone(c, arg) ==
  IF arg \in DOMAIN Switch THEN [c EXCEPT ![Switch[arg]] = TRUE]
  ELSE IF arg \in DOMAIN Mode THEN [c EXCEPT !.deleteMode = Mode[arg]]
  ELSE c

IsRoot(arg) == arg \notin Dashed /\ ~rootSet

(* Faulty: a value that begins with a dash is left for the next turn.      *)
HasValueNotDashed(arg) ==
  arg \in TakesValue /\ i < Len(argv) /\ argv[i + 1] \notin Dashed

HasValue(arg) == arg \in TakesValue /\ i < Len(argv)

ParseWord ==
  /\ i <= Len(argv) /\ argv[i] \notin Leaves
  /\ LET arg == argv[i] IN
       /\ cfg' = IF HasValue(arg) THEN WithValue(cfg, arg, argv[i + 1])
                 ELSE IF IsRoot(arg) THEN [cfg EXCEPT !.root = arg]
                 ELSE Alone(cfg, arg)
       /\ i' = IF HasValue(arg) THEN i + 2 ELSE i + 1
       /\ rootSet' = (rootSet \/ (~HasValue(arg) /\ IsRoot(arg)))
  /\ UNCHANGED argv

Parsed == i > Len(argv)

-----------------------------------------------------------------------------
(* The command line as a reader sees it: which words are values, and what  *)
(* the last of several options says.                                       *)
IsValue ==
  LET V[k \in 0..Len(argv)] ==
        k > 1 /\ argv[k - 1] \in TakesValue /\ ~V[k - 1]
  IN  V
Options(words) == {k \in DOMAIN argv : argv[k] \in words /\ ~IsValue[k]}
Valued(words) == Options(words) \ {Len(argv)}
LastOf(S) == CHOOSE k \in S : \A m \in S : m <= k

(* What the last use of an option says: its word, or its number, or the    *)
(* default where the line does not have it.                                *)
IsOn(option) == Options({option}) # {}
ValueOf(words) == IF Valued(words) = {} THEN "" ELSE argv[LastOf(Valued(words)) + 1]
NumberAt(option, default) ==
  IF Valued({option}) = {} THEN default ELSE NumberOf(ValueOf({option}))

=============================================================================
