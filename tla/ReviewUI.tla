------------------------------ MODULE ReviewUI ------------------------------
(***************************************************************************)
(* review_and_delete of ReviewUI.cpp: the findings of a scan are listed,   *)
(* selected by their position in the list, filtered, confirmed and         *)
(* deleted one by one.  A finding is a number; numbers order the paths.    *)
(* cfg.audit says that there is an audit log and that it can be opened.    *)
(***************************************************************************)
EXTENDS Integers, Sequences, FiniteSets

CONSTANTS
  NumFindings,  \* the findings are 1..NumFindings
  Worst,        \* the verdict of each
  Protected,    \* those for which is_protected_path holds
  MaxPicks      \* length of the longest list of numbers the user types

Findings == 1..NumFindings
Verdicts == {"Suspect", "Corrupt", "Unreadable"}
DeleteModes == {"None", "All", "Interactive"}
Options == [deleteMode : DeleteModes, includeSuspect : BOOLEAN,
            permanent : BOOLEAN, assumeYes : BOOLEAN, forceSystem : BOOLEAN,
            audit : BOOLEAN]

ASSUME ReviewAssumption ==
  /\ NumFindings \in Nat /\ MaxPicks \in Nat
  /\ Worst \in [Findings -> Verdicts]
  /\ Protected \subseteq Findings

VARIABLES
  cfg,          \* the command line
  pc,
  showSuspect, shown, selected,   \* the list and the positions marked [x]
  marked,       \* ghost: the findings the user has asked for, by identity
  toDelete,     \* toDeleteFindings, from the one being deleted on
  answer,       \* what the user typed at the confirmation
  deleted,      \* files that are gone
  log           \* lines of the audit log

vars == <<cfg, pc, showSuspect, shown, selected, marked, toDelete, answer,
          deleted, log>>

severity(f) == IF Worst[f] = "Suspect" THEN 1 ELSE 3

Before(f, g) ==
  \/ severity(f) > severity(g)
  \/ severity(f) = severity(g) /\ f < g

(* std::sort: the one list of all of S in this order (the set of such      *)
(* lists).                                                                 *)
Sorted(S) ==
  {s \in [1..Cardinality(S) -> S] :
     /\ \A f \in S : \E i \in 1..Cardinality(S) : s[i] = f
     /\ \A i, j \in 1..Cardinality(S) : i < j => Before(s[i], s[j])}

(* refresh_shown(): more severe findings first, then by path.              *)
Refreshed(withSuspect) ==
  Sorted({f \in Findings : Worst[f] # "Suspect" \/ withSuspect})

Positions == 1..Len(shown)
IsCorrupt(i) == Worst[shown[i]] = "Corrupt"

(* Faulty: looks the verdicts up in findings instead of shown.             *)
AllCorruptUnsorted == {i \in Positions : Worst[i] = "Corrupt"}

AllCorrupt == {i \in Positions : IsCorrupt(i)}
Selection == {shown[i] : i \in selected \cap Positions}

Init ==
  /\ cfg \in Options
  /\ pc = "start"
  /\ showSuspect = cfg.includeSuspect
  /\ shown = <<>>
  /\ selected = {}
  /\ marked = {}
  /\ toDelete = <<>>
  /\ answer = "none"
  /\ deleted = {}
  /\ log = <<>>

(* From the first refresh_shown() to the first prompt.                     *)
Start ==
  /\ pc = "start"
  /\ \E list \in Refreshed(showSuspect) :
       LET corrupt == {i \in 1..Len(list) : Worst[list[i]] = "Corrupt"}
           chosen == IF cfg.deleteMode = "All" THEN corrupt ELSE {}
       IN
       /\ shown' = list
       /\ selected' = chosen
       /\ marked' = {list[i] : i \in chosen}
       /\ pc' = IF list = <<>> \/ cfg.deleteMode = "None" THEN "done"
                ELSE IF cfg.deleteMode = "Interactive" THEN "prompt" ELSE "filter"
  /\ UNCHANGED <<cfg, showSuspect, toDelete, answer, deleted, log>>

-----------------------------------------------------------------------------
(* The commands of the prompt.  e, o and an empty line change nothing.     *)

Quit ==
  /\ pc = "prompt"
  /\ pc' = "done"
  /\ UNCHANGED <<cfg, showSuspect, shown, selected, marked, toDelete, answer,
                 deleted, log>>

SelectCorrupt ==
  /\ pc = "prompt"
  /\ selected' = selected \cup AllCorrupt
  /\ marked' = marked \cup {f \in Findings : Worst[f] = "Corrupt"}
  /\ UNCHANGED <<cfg, pc, showSuspect, shown, toDelete, answer, deleted, log>>

SelectNone ==
  /\ pc = "prompt"
  /\ selected' = {}
  /\ marked' = {}
  /\ UNCHANGED <<cfg, pc, showSuspect, shown, toDelete, answer, deleted, log>>

(* Faulty: the selection survives the change of the list.                  *)
ToggleSuspectKeeps ==
  /\ pc = "prompt"
  /\ showSuspect' = ~showSuspect
  /\ shown' \in Refreshed(~showSuspect)
  /\ UNCHANGED <<cfg, pc, selected, marked, toDelete, answer, deleted, log>>

(* The list changes under the selection, so the selection is dropped.      *)
ToggleSuspect ==
  /\ pc = "prompt"
  /\ showSuspect' = ~showSuspect
  /\ shown' \in Refreshed(~showSuspect)
  /\ selected' = {}
  /\ marked' = {}
  /\ UNCHANGED <<cfg, pc, toDelete, answer, deleted, log>>

(* Lists of numbers as resolve_selection reads them: ranges are spelled    *)
(* out and numbers that are not on the list are left out.                  *)
Picks ==
  (UNION {[1..n -> Positions] : n \in 1..MaxPicks}) \cup {[i \in Positions |-> i]}

(* Each occurrence of a number toggles it.                                 *)
Toggled(picks) ==
  {i \in Positions : Cardinality({k \in DOMAIN picks : picks[k] = i}) % 2 = 1}

SymDiff(S, T) == (S \ T) \cup (T \ S)

Toggle(picks) ==
  /\ pc = "prompt"
  /\ selected' = SymDiff(selected, Toggled(picks))
  /\ marked' = SymDiff(marked, {shown[i] : i \in Toggled(picks)})
  /\ UNCHANGED <<cfg, pc, showSuspect, shown, toDelete, answer, deleted, log>>

Proceed ==
  /\ pc = "prompt"
  /\ selected # {}
  /\ pc' = "filter"
  /\ UNCHANGED <<cfg, showSuspect, shown, selected, marked, toDelete, answer,
                 deleted, log>>

-----------------------------------------------------------------------------
(* Faulty: only the first file is tested for protection.                   *)
RefusedFirst(kept) ==
  \A s \in Sorted(kept) : s[1] \in Protected /\ ~cfg.forceSystem

(* containsProtected and no --force-system                                 *)
Refused(kept) == kept \cap Protected # {} /\ ~cfg.forceSystem

(* The safety filters between the selection and the confirmation; the      *)
(* selected findings go on in the order of the list.                       *)
Filter ==
  LET kept == IF cfg.deleteMode = "All"
                THEN {f \in Selection : Worst[f] # "Unreadable"}
                ELSE Selection
      stops == kept = {} \/ Refused(kept)
  IN
  /\ pc = "filter"
  /\ IF stops THEN toDelete' = <<>> ELSE toDelete' \in Sorted(kept)
  /\ pc' = IF stops THEN "done" ELSE IF cfg.assumeYes THEN "delete" ELSE "confirm"
  /\ UNCHANGED <<cfg, showSuspect, shown, selected, marked, answer, deleted, log>>

(* y, or the typed phrase with the number of files when several files are  *)
(* to be deleted for good.                                                 *)
NeedsPhrase == cfg.permanent /\ Len(toDelete) > 1

(* Faulty: a single letter is always enough.                               *)
ConsentsEasily(input) == input \in {"y", "phrase"}

Consents(input) == input = (IF NeedsPhrase THEN "phrase" ELSE "y")

Confirm(input) ==
  /\ pc = "confirm"
  /\ answer' = input
  /\ pc' = IF Consents(input) THEN "delete" ELSE "done"
  /\ UNCHANGED <<cfg, showSuspect, shown, selected, marked, toDelete, deleted, log>>

(* recycle_or_delete: a deletion may fail; either way it is logged, and    *)
(* the loop goes on with the next file.                                    *)
Delete(success) ==
  /\ pc = "delete"
  /\ toDelete # <<>>
  /\ deleted' = IF success THEN deleted \cup {Head(toDelete)} ELSE deleted
  /\ pc' = "log"
  /\ UNCHANGED <<cfg, showSuspect, shown, selected, marked, toDelete, answer, log>>

(* Faulty: a failed attempt leaves no line.                                *)
IsLoggedOnSuccess == cfg.audit /\ Head(toDelete) \in deleted

IsLogged == cfg.audit

LogDeletion ==
  /\ pc = "log"
  /\ log' = IF IsLogged
              THEN Append(log, [file |-> Head(toDelete),
                                success |-> Head(toDelete) \in deleted])
              ELSE log
  /\ toDelete' = Tail(toDelete)
  /\ pc' = "delete"
  /\ UNCHANGED <<cfg, showSuspect, shown, selected, marked, answer, deleted>>

Finish ==
  /\ pc = "delete"
  /\ toDelete = <<>>
  /\ pc' = "done"
  /\ UNCHANGED <<cfg, showSuspect, shown, selected, marked, toDelete, answer,
                 deleted, log>>

Done == pc = "done" /\ UNCHANGED vars

Next ==
  \/ Start
  \/ Quit \/ SelectCorrupt \/ SelectNone \/ ToggleSuspect \/ Proceed
  \/ \E picks \in Picks : Toggle(picks)
  \/ Filter
  \/ \E input \in {"y", "phrase", "other"} : Confirm(input)
  \/ \E success \in BOOLEAN : Delete(success)
  \/ LogDeletion \/ Finish
  \/ Done

Spec == Init /\ [][Next]_vars

-----------------------------------------------------------------------------
TypeOK ==
  /\ cfg \in Options
  /\ pc \in {"start", "prompt", "filter", "confirm", "delete", "log", "done"}
  /\ showSuspect \in BOOLEAN
  /\ shown \in Seq(Findings)
  /\ selected \subseteq 1..Len(shown)
  /\ marked \subseteq Findings
  /\ toDelete \in Seq(Findings)
  /\ answer \in {"none", "y", "phrase", "other"}
  /\ deleted \subseteq Findings
  /\ log \in Seq([file : Findings, success : BOOLEAN])

(* The positions marked [x] denote the findings the user has asked for,    *)
(* although the list they point into changes.                              *)
SelectionIsMarked == Selection = marked

(* A file goes only if the user asked for it, or asked for all and it is   *)
(* Corrupt ("Never delete Unreadable system/locked files automatically",   *)
(* ReviewUI.cpp:384), and has consented, with the phrase where it is due.  *)
NothingUnasked ==
  /\ deleted \subseteq marked
  /\ deleted # {} =>
       /\ cfg.deleteMode # "None"
       /\ cfg.deleteMode = "All" => \A f \in deleted : Worst[f] = "Corrupt"
       /\ cfg.assumeYes \/ answer \in {"y", "phrase"}
       /\ (cfg.permanent /\ Cardinality(marked) > 1 /\ ~cfg.assumeYes) =>
            answer = "phrase"

(* Without --force-system a selection with a protected file in it is       *)
(* refused as a whole: none of its files is deleted.                       *)
ProtectedRefused ==
  (marked \cap Protected # {} /\ ~cfg.forceSystem) => deleted = {}

(* With an audit log every attempt has its line, with its outcome, before  *)
(* the next one is made; nothing is deleted off the record.                *)
AuditTrail ==
  LET logged == {log[i].file : i \in 1..Len(log)}
      succeeded == {log[i].file : i \in {j \in 1..Len(log) : log[j].success}}
      current == IF pc = "log" THEN {Head(toDelete)} ELSE {}
  IN  cfg.audit =>
        /\ deleted \ current = succeeded
        /\ current \cap logged = {}
        /\ pc = "done" /\ log # <<>> => logged = marked

(* A SUSPECT finding can be deleted only with --include-suspect ("allow    *)
(* SUSPECT to be deletable", Config.hpp:16).                               *)
SuspectNeedsFlag ==
  ~cfg.includeSuspect => \A f \in deleted : Worst[f] # "Suspect"

=============================================================================
