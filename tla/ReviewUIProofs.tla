--------------------------- MODULE ReviewUIProofs ---------------------------
(***************************************************************************)
(* What is selected is what was asked for, and nothing else is deleted,    *)
(* for any findings, verdicts, options and sequences of commands.  The     *)
(* argument rests on the list: it holds every finding it shows once, so    *)
(* that positions and findings are the same thing as long as the list      *)
(* stays; where it changes, the selection is empty.  What is gone is on    *)
(* record because a file is logged before the next one is tried.           *)
(***************************************************************************)
EXTENDS ReviewUI, FiniteSetTheorems, TLAPS

(* A sorted list of S has every member of S once.                          *)
LEMMA SortedList ==
  ASSUME NEW S \in SUBSET Findings, NEW s \in Sorted(S)
  PROVE  /\ s \in Seq(Findings)
         /\ Len(s) = Cardinality(S)
         /\ \A i \in 1..Len(s) : s[i] \in S
         /\ \A f \in S : \E i \in 1..Len(s) : s[i] = f
         /\ \A i, j \in 1..Len(s) : s[i] = s[j] => i = j
<1>1. IsFiniteSet(Findings)
  BY FS_Interval, ReviewAssumption DEF Findings
<1>2. Cardinality(S) \in Nat
  BY <1>1, FS_Subset, FS_CardinalityType
<1>3. s \in [1..Cardinality(S) -> S]
  BY DEF Sorted
<1>4. s \in Seq(Findings) /\ Len(s) = Cardinality(S)
  BY <1>2, <1>3
<1>5. \A f \in S : \E i \in 1..Cardinality(S) : s[i] = f
  BY DEF Sorted
<1>6. \A f \in Findings : ~Before(f, f)
  BY ReviewAssumption DEF Before, severity, Findings
<1>7. ASSUME NEW i \in 1..Cardinality(S), NEW j \in 1..Cardinality(S),
             s[i] = s[j]
      PROVE  i = j
  <2>1. \A k, l \in 1..Cardinality(S) : k < l => Before(s[k], s[l])
    BY DEF Sorted
  <2>2. s[i] \in Findings
    BY <1>3
  <2>3. ~(i < j) /\ ~(j < i)
    BY <1>6, <1>7, <2>1, <2>2
  <2> QED
    BY <1>2, <2>3
<1> QED
  BY <1>3, <1>4, <1>5, <1>7

(* The list on the screen is the sorted one of what is to be shown.        *)
Listed == pc # "start" => shown \in Refreshed(showSuspect)

(* Positions denote findings one to one, and every CORRUPT finding has     *)
(* one.                                                                    *)
LEMMA ListFacts ==
  ASSUME NEW b, NEW list \in Refreshed(b)
  PROVE  /\ list \in Seq(Findings)
         /\ \A i \in 1..Len(list) : list[i] \in Findings
         /\ \A i, j \in 1..Len(list) : list[i] = list[j] => i = j
         /\ \A f \in Findings : Worst[f] = "Corrupt" =>
              \E i \in 1..Len(list) : list[i] = f
<1> DEFINE S == {f \in Findings : Worst[f] # "Suspect" \/ b}
<1>1. list \in Sorted(S) /\ S \in SUBSET Findings
  BY DEF Refreshed
<1>2. \A f \in Findings : Worst[f] = "Corrupt" => f \in S
  OBVIOUS
<1> HIDE DEF S
<1> QED
  BY <1>1, <1>2, SortedList

-----------------------------------------------------------------------------
(* The user has asked for what is to be deleted, has consented to what is  *)
(* being deleted, and nothing in it is protected.                          *)
AllAreCorrupt == \A f \in marked : Worst[f] = "Corrupt"

OfMarked == \A i \in 1..Len(toDelete) : toDelete[i] \in marked

Allowed ==
  /\ cfg.deleteMode # "None"
  /\ cfg.deleteMode = "All" => AllAreCorrupt
  /\ marked \cap Protected = {} \/ cfg.forceSystem
  /\ OfMarked

PhraseGiven ==
  (cfg.permanent /\ Cardinality(marked) > 1 /\ ~cfg.assumeYes) =>
    answer = "phrase"

Consented == (cfg.assumeYes \/ answer \in {"y", "phrase"}) /\ PhraseGiven

Asked ==
  /\ pc = "log" => toDelete # <<>>
  /\ pc \in {"start", "prompt", "filter", "confirm"} => deleted = {}
  /\ pc = "prompt" => cfg.deleteMode = "Interactive"
  /\ pc = "filter" => /\ cfg.deleteMode # "None"
                      /\ cfg.deleteMode = "All" => AllAreCorrupt
  /\ pc \in {"confirm", "delete", "log"} => Allowed
  /\ pc = "confirm" => Len(toDelete) = Cardinality(marked)
  /\ pc \in {"delete", "log"} => Consented

(* The program keeps its types.  The deletion loop takes the head of a     *)
(* list only where there is one.                                           *)
LEMMA TypeStep == TypeOK /\ Listed /\ Asked /\ [Next]_vars => TypeOK'
<1> SUFFICES ASSUME TypeOK, Listed, Asked, [Next]_vars PROVE TypeOK'
  OBVIOUS
<1> USE DEF TypeOK
<1>1. CASE UNCHANGED vars
  BY <1>1 DEF vars
<1>2. CASE Start
  <2>1. PICK list \in Refreshed(showSuspect) :
          LET corrupt == {i \in 1..Len(list) : Worst[list[i]] = "Corrupt"}
              chosen == IF cfg.deleteMode = "All" THEN corrupt ELSE {}
          IN  /\ shown' = list
              /\ selected' = chosen
              /\ marked' = {list[i] : i \in chosen}
              /\ pc' \in {"done", "prompt", "filter"}
    BY <1>2 DEF Start
  <2>2. list \in Seq(Findings) /\ \A i \in 1..Len(list) : list[i] \in Findings
    BY ListFacts
  <2> QED
    BY <1>2, <2>1, <2>2 DEF Start
<1>3. CASE Quit
  BY <1>3 DEF Quit
<1>4. CASE SelectCorrupt
  BY <1>4 DEF SelectCorrupt, AllCorrupt, Positions
<1>5. CASE SelectNone
  BY <1>5 DEF SelectNone
<1>6. CASE ToggleSuspect
  <2>1. shown' \in Seq(Findings)
    BY <1>6, ListFacts DEF ToggleSuspect
  <2> QED
    BY <1>6, <2>1 DEF ToggleSuspect
<1>7. CASE Proceed
  BY <1>7 DEF Proceed
<1>8. ASSUME NEW picks \in Picks, Toggle(picks) PROVE TypeOK'
  <2>1. Toggled(picks) \subseteq 1..Len(shown)
    BY DEF Toggled, Positions
  <2>2. \A i \in 1..Len(shown) : shown[i] \in Findings
    OBVIOUS
  <2>3. selected' \subseteq 1..Len(shown) /\ marked' \subseteq Findings
    BY <1>8, <2>1, <2>2 DEF Toggle, SymDiff
  <2> QED
    BY <1>8, <2>3 DEF Toggle
<1>9. CASE Filter
  <2>1. Selection \subseteq Findings
    BY DEF Selection, Positions
  <2>2. toDelete' = <<>> \/ \E S \in SUBSET Findings : toDelete' \in Sorted(S)
    BY <1>9, <2>1 DEF Filter
  <2>3. \A S \in SUBSET Findings : \A s \in Sorted(S) : s \in Seq(Findings)
    BY SortedList
  <2>4. <<>> \in Seq(Findings)
    OBVIOUS
  <2>5. toDelete' \in Seq(Findings)
    BY <2>2, <2>3, <2>4, Zenon
  <2> QED
    BY <1>9, <2>5 DEF Filter
<1>10. ASSUME NEW input \in {"y", "phrase", "other"}, Confirm(input)
       PROVE  TypeOK'
  BY <1>10 DEF Confirm
<1>11. ASSUME NEW success \in BOOLEAN, Delete(success) PROVE TypeOK'
  BY <1>11 DEF Delete
<1>12. CASE LogDeletion
  <2>1. Head(toDelete) \in Findings /\ Tail(toDelete) \in Seq(Findings)
    BY <1>12 DEF LogDeletion, Asked
  <2> DEFINE Lines == [file : Findings, success : BOOLEAN]
             line == [file |-> Head(toDelete),
                      success |-> Head(toDelete) \in deleted]
  <2>2. line \in Lines
    BY <2>1
  <2>3. log' = Append(log, line) \/ log' = log
    BY <1>12 DEF LogDeletion
  <2>4. log \in Seq(Lines)
    OBVIOUS
  <2> HIDE DEF Lines, line
  <2>5. log' \in Seq(Lines)
    BY <2>2, <2>3, <2>4
  <2> QED
    BY <1>12, <2>1, <2>5 DEF LogDeletion, Lines
<1>13. CASE Finish
  BY <1>13 DEF Finish
<1>14. CASE Done
  BY <1>14 DEF Done, vars
<1> QED
  BY <1>1, <1>2, <1>3, <1>4, <1>5, <1>6, <1>7, <1>8, <1>9, <1>10, <1>11,
     <1>12, <1>13, <1>14 DEF Next

(* The list is rebuilt whenever what is to be shown changes.               *)
LEMMA ListedStep == TypeOK /\ Listed /\ [Next]_vars => Listed'
<1> SUFFICES ASSUME TypeOK, Listed, [Next]_vars PROVE Listed'
  OBVIOUS
<1>1. CASE Start
  BY <1>1 DEF Start, Listed
<1>2. CASE ToggleSuspect
  BY <1>2 DEF ToggleSuspect, Listed
<1>3. (pc = "start" => pc' = "start") /\ UNCHANGED <<showSuspect, shown>>
      => Listed'
  BY DEF Listed, Refreshed
<1>4. CASE UNCHANGED vars
  BY <1>3, <1>4 DEF vars
<1>5. CASE Quit \/ SelectCorrupt \/ SelectNone \/ Proceed \/ Filter
  BY <1>3, <1>5 DEF Quit, SelectCorrupt, SelectNone, Proceed, Filter
<1>6. ASSUME NEW picks \in Picks, Toggle(picks) PROVE Listed'
  BY <1>3, <1>6 DEF Toggle
<1>7. ASSUME NEW input \in {"y", "phrase", "other"}, Confirm(input)
      PROVE  Listed'
  BY <1>3, <1>7 DEF Confirm
<1>8. ASSUME NEW success \in BOOLEAN, Delete(success) PROVE Listed'
  BY <1>3, <1>8 DEF Delete
<1>9. CASE LogDeletion \/ Finish \/ Done
  BY <1>3, <1>9 DEF LogDeletion, Finish, Done, vars
<1> QED
  BY <1>1, <1>2, <1>4, <1>5, <1>6, <1>7, <1>8, <1>9 DEF Next

-----------------------------------------------------------------------------
(* A step that leaves the list and both selections alone.                  *)
LEMMA SelectionKept ==
  ASSUME SelectionIsMarked, UNCHANGED <<shown, selected, marked>>
  PROVE  SelectionIsMarked'
BY DEF SelectionIsMarked, Selection, Positions

(* Each command changes the marked positions and the marked findings       *)
(* alike: a list shows each finding once and every CORRUPT one.            *)
LEMMA SelectionStep ==
  TypeOK /\ Listed /\ SelectionIsMarked /\ [Next]_vars => SelectionIsMarked'
<1> SUFFICES ASSUME TypeOK, Listed, SelectionIsMarked, [Next]_vars
             PROVE  SelectionIsMarked'
  OBVIOUS
<1>1. CASE UNCHANGED vars
  BY <1>1, SelectionKept DEF vars
<1>2. CASE Start
  <2>1. PICK list \in Refreshed(showSuspect) :
          LET corrupt == {i \in 1..Len(list) : Worst[list[i]] = "Corrupt"}
              chosen == IF cfg.deleteMode = "All" THEN corrupt ELSE {}
          IN  /\ shown' = list
              /\ selected' = chosen
              /\ marked' = {list[i] : i \in chosen}
    BY <1>2 DEF Start
  <2>2. PICK chosen \in SUBSET (1..Len(shown')) :
          selected' = chosen /\ marked' = {shown'[i] : i \in chosen}
    BY <2>1
  <2> QED
    BY <2>2 DEF SelectionIsMarked, Selection, Positions
<1>3. CASE Quit
  BY <1>3, SelectionKept DEF Quit
<1>4. CASE SelectCorrupt
  <2>1. /\ selected' = selected \cup AllCorrupt
        /\ marked' = marked \cup {f \in Findings : Worst[f] = "Corrupt"}
        /\ shown' = shown /\ pc = "prompt"
    BY <1>4 DEF SelectCorrupt
  <2>2. shown \in Refreshed(showSuspect)
    BY <2>1 DEF Listed
  <2>3. {shown[i] : i \in AllCorrupt} = {f \in Findings : Worst[f] = "Corrupt"}
    BY <2>2, ListFacts DEF AllCorrupt, IsCorrupt, Positions
  <2>4. AllCorrupt \subseteq 1..Len(shown)
    BY DEF AllCorrupt, Positions
  <2> QED
    BY <2>1, <2>3, <2>4 DEF SelectionIsMarked, Selection, Positions, TypeOK
<1>5. CASE SelectNone
  BY <1>5 DEF SelectNone, SelectionIsMarked, Selection
<1>6. CASE ToggleSuspect
  BY <1>6 DEF ToggleSuspect, SelectionIsMarked, Selection
<1>7. CASE Proceed
  BY <1>7, SelectionKept DEF Proceed
<1>8. ASSUME NEW picks \in Picks, Toggle(picks) PROVE SelectionIsMarked'
  <2> DEFINE T == Toggled(picks)
  <2>1. /\ selected' = SymDiff(selected, T)
        /\ marked' = SymDiff(marked, {shown[i] : i \in T})
        /\ shown' = shown /\ pc = "prompt"
    BY <1>8 DEF Toggle
  <2>2. \A i, j \in 1..Len(shown) : shown[i] = shown[j] => i = j
    BY <2>1, ListFacts DEF Listed
  <2>3. T \subseteq 1..Len(shown) /\ selected \subseteq 1..Len(shown)
    BY DEF Toggled, Positions, TypeOK
  <2> HIDE DEF T
  <2>4. marked = {shown[i] : i \in selected}
    BY <2>3 DEF SelectionIsMarked, Selection, Positions
  <2>5. {shown[i] : i \in SymDiff(selected, T)} =
          SymDiff({shown[i] : i \in selected}, {shown[i] : i \in T})
    BY <2>2, <2>3 DEF SymDiff
  <2>6. SymDiff(selected, T) \subseteq 1..Len(shown)
    BY <2>3 DEF SymDiff
  <2> QED
    BY <2>1, <2>4, <2>5, <2>6 DEF SelectionIsMarked, Selection, Positions
<1>9. CASE Filter
  BY <1>9, SelectionKept DEF Filter
<1>10. ASSUME NEW input \in {"y", "phrase", "other"}, Confirm(input)
       PROVE  SelectionIsMarked'
  BY <1>10, SelectionKept DEF Confirm
<1>11. ASSUME NEW success \in BOOLEAN, Delete(success)
       PROVE  SelectionIsMarked'
  BY <1>11, SelectionKept DEF Delete
<1>12. CASE LogDeletion \/ Finish \/ Done
  BY <1>12, SelectionKept DEF LogDeletion, Finish, Done, vars
<1> QED
  BY <1>1, <1>2, <1>3, <1>4, <1>5, <1>6, <1>7, <1>8, <1>9, <1>10, <1>11,
     <1>12 DEF Next

-----------------------------------------------------------------------------
(* What is deleted is what may be deleted, now and with the next steps.    *)
Harmless == Asked /\ NothingUnasked /\ ProtectedRefused

(* In the filter the selection is kept as a whole or refused: what passes  *)
(* is all that was asked for.                                              *)
LEMMA FilterStep ==
  ASSUME TypeOK, SelectionIsMarked, Harmless, Filter
  PROVE  Harmless'
<1>1. /\ pc = "filter" /\ deleted = {} /\ UNCHANGED <<cfg, marked, deleted>>
      /\ cfg.deleteMode # "None"
      /\ cfg.deleteMode = "All" => AllAreCorrupt
  BY DEF Filter, Harmless, Asked
<1>2. (IF cfg.deleteMode = "All" THEN {f \in Selection : Worst[f] # "Unreadable"}
       ELSE Selection) = marked
  BY <1>1 DEF SelectionIsMarked, AllAreCorrupt
<1>3. \/ pc' = "done"
      \/ /\ toDelete' \in Sorted(marked)
         /\ ~Refused(marked)
         /\ \/ pc' = "delete" /\ cfg.assumeYes
            \/ pc' = "confirm"
  BY <1>2 DEF Filter
<1>4. deleted' = {}
  BY <1>1
<1>5. NothingUnasked' /\ ProtectedRefused'
  BY <1>4 DEF NothingUnasked, ProtectedRefused
<1>6. CASE pc' = "done"
  BY <1>4, <1>5, <1>6 DEF Harmless, Asked
<1>7. CASE pc' # "done"
  <2>1. toDelete' \in Sorted(marked) /\ marked \in SUBSET Findings
    BY <1>3, <1>7 DEF TypeOK
  <2>2. OfMarked' /\ Len(toDelete') = Cardinality(marked')
    BY <1>1, <2>1, SortedList DEF OfMarked
  <2>3. marked \cap Protected = {} \/ cfg.forceSystem
    BY <1>3, <1>7 DEF Refused
  <2>4. Allowed'
    BY <1>1, <2>2, <2>3 DEF Allowed, AllAreCorrupt
  <2>5. pc' = "delete" => Consented'
    BY <1>1, <1>3 DEF Consented, PhraseGiven
  <2> QED
    BY <1>3, <1>4, <1>5, <1>7, <2>2, <2>4, <2>5 DEF Harmless, Asked
<1> QED
  BY <1>6, <1>7

(* The consent is asked for the number of files that was marked.           *)
LEMMA ConfirmStep ==
  ASSUME Harmless, NEW input \in {"y", "phrase", "other"}, Confirm(input)
  PROVE  Harmless'
<1>1. /\ pc = "confirm" /\ deleted = {} /\ answer' = input
      /\ UNCHANGED <<cfg, marked, toDelete, deleted>>
      /\ Allowed /\ Len(toDelete) = Cardinality(marked)
  BY DEF Confirm, Harmless, Asked
<1>2. NothingUnasked' /\ ProtectedRefused'
  BY <1>1 DEF NothingUnasked, ProtectedRefused
<1>3. CASE pc' = "done"
  BY <1>1, <1>2, <1>3 DEF Harmless, Asked
<1>4. CASE pc' = "delete" /\ Consents(input)
  <2>1. Allowed'
    BY <1>1 DEF Allowed, AllAreCorrupt, OfMarked
  <2>2. Consented'
    BY <1>1, <1>4 DEF Consents, NeedsPhrase, Consented, PhraseGiven
  <2> QED
    BY <1>1, <1>2, <1>4, <2>1, <2>2 DEF Harmless, Asked
<1> QED
  BY <1>3, <1>4 DEF Confirm

(* The loop deletes the head of a list of marked files.                    *)
LEMMA DeleteStep ==
  ASSUME TypeOK, Harmless, NEW success \in BOOLEAN, Delete(success)
  PROVE  Harmless'
<1>1. /\ pc = "delete" /\ pc' = "log" /\ toDelete # <<>>
      /\ UNCHANGED <<cfg, marked, toDelete, answer>>
      /\ deleted' \subseteq deleted \cup {Head(toDelete)}
      /\ Allowed /\ Consented /\ deleted \subseteq marked
  BY DEF Delete, Harmless, Asked, NothingUnasked
<1>2. Head(toDelete) \in marked
  BY <1>1 DEF Allowed, OfMarked, TypeOK
<1>3. Allowed' /\ Consented'
  BY <1>1 DEF Allowed, AllAreCorrupt, OfMarked, Consented, PhraseGiven
<1>4. NothingUnasked' /\ ProtectedRefused'
  BY <1>1, <1>2, <1>3
     DEF Allowed, Consented, PhraseGiven, AllAreCorrupt, NothingUnasked,
         ProtectedRefused
<1> QED
  BY <1>1, <1>3, <1>4 DEF Harmless, Asked

(* The log line of a deletion takes its file off the list.                 *)
LEMMA LogStep == ASSUME TypeOK, Harmless, LogDeletion PROVE Harmless'
<1>1. /\ pc = "log" /\ pc' = "delete" /\ toDelete # <<>>
      /\ toDelete' = Tail(toDelete)
      /\ UNCHANGED <<cfg, marked, answer, deleted>>
      /\ Allowed /\ Consented
  BY DEF LogDeletion, Harmless, Asked
<1>2. OfMarked'
  BY <1>1 DEF Allowed, OfMarked, TypeOK
<1>3. Allowed' /\ Consented'
  BY <1>1, <1>2 DEF Allowed, AllAreCorrupt, Consented, PhraseGiven
<1>4. NothingUnasked' /\ ProtectedRefused'
  BY <1>1 DEF Harmless, NothingUnasked, ProtectedRefused
<1> QED
  BY <1>1, <1>3, <1>4 DEF Harmless, Asked

(* No command of the prompt deletes anything, and the prompt is only there *)
(* in interactive mode.                                                    *)
LEMMA PromptStep ==
  ASSUME Harmless, pc = "prompt", pc' \in {"prompt", "filter", "done"},
         UNCHANGED <<cfg, deleted>>
  PROVE  Harmless'
<1>1. deleted' = {} /\ cfg'.deleteMode = "Interactive"
  BY DEF Harmless, Asked
<1>2. NothingUnasked' /\ ProtectedRefused'
  BY <1>1 DEF NothingUnasked, ProtectedRefused
<1> QED
  BY <1>1, <1>2 DEF Harmless, Asked

(* The first list; with --delete-all its CORRUPT findings are selected.    *)
LEMMA StartStep == ASSUME TypeOK, Harmless, Start PROVE Harmless'
<1>1. pc = "start" /\ deleted' = {} /\ cfg' = cfg
  BY DEF Start, Harmless, Asked
<1>2. PICK list \in Refreshed(showSuspect) :
        LET corrupt == {i \in 1..Len(list) : Worst[list[i]] = "Corrupt"}
            chosen == IF cfg.deleteMode = "All" THEN corrupt ELSE {}
        IN  /\ marked' = {list[i] : i \in chosen}
            /\ pc' = IF list = <<>> \/ cfg.deleteMode = "None" THEN "done"
                     ELSE IF cfg.deleteMode = "Interactive" THEN "prompt"
                     ELSE "filter"
  BY DEF Start
<1>3. AllAreCorrupt'
  BY <1>2 DEF AllAreCorrupt
<1>4. NothingUnasked' /\ ProtectedRefused'
  BY <1>1 DEF NothingUnasked, ProtectedRefused
<1> QED
  BY <1>1, <1>2, <1>3, <1>4 DEF Harmless, Asked

(* A step that changes nothing.                                            *)
LEMMA StutterStep == ASSUME Harmless, UNCHANGED vars PROVE Harmless'
BY DEF vars, Harmless, Asked, Allowed, AllAreCorrupt, OfMarked, Consented,
       PhraseGiven, NothingUnasked, ProtectedRefused

(* No step does harm.                                                      *)
LEMMA HarmlessStep ==
  TypeOK /\ SelectionIsMarked /\ Harmless /\ [Next]_vars => Harmless'
<1> SUFFICES ASSUME TypeOK, SelectionIsMarked, Harmless, [Next]_vars
             PROVE  Harmless'
  OBVIOUS
<1>1. CASE UNCHANGED vars \/ Done
  BY <1>1, StutterStep DEF Done
<1>2. CASE Quit \/ SelectCorrupt \/ SelectNone \/ ToggleSuspect \/ Proceed
  BY <1>2, PromptStep
     DEF Quit, SelectCorrupt, SelectNone, ToggleSuspect, Proceed
<1>3. ASSUME NEW picks \in Picks, Toggle(picks) PROVE Harmless'
  BY <1>3, PromptStep DEF Toggle
<1>4. CASE Finish
  BY <1>4 DEF Finish, Harmless, Asked, NothingUnasked, ProtectedRefused
<1> QED
  BY <1>1, <1>2, <1>3, <1>4, StartStep, FilterStep, ConfirmStep, DeleteStep,
     LogStep DEF Next

-----------------------------------------------------------------------------
(* The audit log.  What is still to be deleted and what has its line       *)
(* together are what was asked for, and no file is in both, so that an     *)
(* attempt is never taken for an earlier one.                              *)
Logged == {log[i].file : i \in 1..Len(log)}
Succeeded == {log[i].file : i \in {j \in 1..Len(log) : log[j].success}}
Pending == {toDelete[i] : i \in 1..Len(toDelete)}
Current == IF pc = "log" THEN {Head(toDelete)} ELSE {}

ListedOnce ==
  \A i, j \in 1..Len(toDelete) : toDelete[i] = toDelete[j] => i = j

Balanced ==
  /\ Logged \cap Pending = {}
  /\ Logged \cup Pending = marked
  /\ deleted \ Current = Succeeded

OnRecord ==
  /\ pc \in {"start", "prompt", "filter", "confirm"} => log = <<>>
  /\ pc = "confirm" => Pending = marked
  /\ pc \in {"confirm", "delete", "log"} => ListedOnce
  /\ pc \in {"delete", "log"} => Balanced
  /\ pc = "done" => /\ deleted = Succeeded
                    /\ log # <<>> => Logged = marked

Recorded == cfg.audit => OnRecord

(* Taking the head off a list without repetitions.                         *)
LEMMA HeadTaken ==
  ASSUME NEW s \in Seq(Findings), s # <<>>,
         \A i, j \in 1..Len(s) : s[i] = s[j] => i = j
  PROVE  LET t == Tail(s)
             rest == {t[i] : i \in 1..Len(t)}
         IN  /\ Head(s) \notin rest
             /\ {s[i] : i \in 1..Len(s)} = rest \cup {Head(s)}
             /\ \A i, j \in 1..Len(t) : t[i] = t[j] => i = j
<1> DEFINE t == Tail(s)
<1>1. Len(s) \in Nat /\ Len(s) >= 1 /\ Len(t) = Len(s) - 1 /\ Head(s) = s[1]
  OBVIOUS
<1>2. \A i \in 1..Len(t) : t[i] = s[i + 1]
  OBVIOUS
<1> HIDE DEF t
<1>3. \A i \in 1..Len(t) : i + 1 \in 1..Len(s) /\ i + 1 # 1
  BY <1>1
<1>4. \A i \in 1..Len(s) : i = 1 \/ (i - 1 \in 1..Len(t) /\ s[i] = t[i - 1])
  BY <1>1, <1>2
<1>5. 1 \in 1..Len(s)
  BY <1>1
<1>6. Head(s) \notin {t[i] : i \in 1..Len(t)}
  BY <1>1, <1>2, <1>3, <1>5
<1>7. {s[i] : i \in 1..Len(s)} \subseteq {t[i] : i \in 1..Len(t)} \cup {Head(s)}
  BY <1>1, <1>4
<1>8. {t[i] : i \in 1..Len(t)} \cup {Head(s)} \subseteq {s[i] : i \in 1..Len(s)}
  BY <1>1, <1>2, <1>3, <1>5
<1>9. ASSUME NEW i \in 1..Len(t), NEW j \in 1..Len(t), t[i] = t[j]
      PROVE  i = j
  <2>1. i + 1 = j + 1
    BY <1>2, <1>3, <1>9
  <2> QED
    BY <1>1, <2>1
<1> QED
  BY <1>6, <1>7, <1>8, <1>9 DEF t

(* A new line adds its file to those on record, and to the successes if    *)
(* it is one.                                                              *)
LEMMA LineAdded ==
  ASSUME NEW Lines, NEW s \in Seq(Lines), NEW line \in Lines
  PROVE  LET t == Append(s, line) IN
         /\ {t[i].file : i \in 1..Len(t)} =
              {s[i].file : i \in 1..Len(s)} \cup {line.file}
         /\ {t[i].file : i \in {j \in 1..Len(t) : t[j].success}} =
              {s[i].file : i \in {j \in 1..Len(s) : s[j].success}}
                \cup (IF line.success THEN {line.file} ELSE {})
<1> DEFINE t == Append(s, line)
<1>1. Len(s) \in Nat /\ Len(t) = Len(s) + 1 /\ t[Len(t)] = line
  OBVIOUS
<1>2. \A i \in 1..Len(s) : t[i] = s[i]
  OBVIOUS
<1> HIDE DEF t
<1>3. \A i \in 1..Len(t) : i \in 1..Len(s) \/ i = Len(t)
  BY <1>1
<1>4. Len(t) \in 1..Len(t) /\ \A i \in 1..Len(s) : i \in 1..Len(t)
  BY <1>1
<1>5. {t[i].file : i \in 1..Len(t)} =
        {s[i].file : i \in 1..Len(s)} \cup {line.file}
  BY <1>1, <1>2, <1>3, <1>4
<1>6. {t[i].file : i \in {j \in 1..Len(t) : t[j].success}} =
        {s[i].file : i \in {j \in 1..Len(s) : s[j].success}}
          \cup (IF line.success THEN {line.file} ELSE {})
  <2>1. CASE line.success
    BY <1>1, <1>2, <1>3, <1>4, <2>1
  <2>2. CASE ~line.success
    BY <1>1, <1>2, <1>3, <1>4, <2>2
  <2> QED
    BY <2>1, <2>2
<1> QED
  BY <1>5, <1>6 DEF t

(* The line of the attempt is written, and its file taken off the list.    *)
LEMMA LogRecorded ==
  ASSUME TypeOK, Asked, OnRecord, cfg.audit, LogDeletion
  PROVE  OnRecord'
<1> DEFINE f == Head(toDelete)
           Lines == [file : Findings, success : BOOLEAN]
           line == [file |-> f, success |-> f \in deleted]
<1>1. /\ pc = "log" /\ pc' = "delete" /\ toDelete # <<>>
      /\ log' = Append(log, line)
      /\ toDelete' = Tail(toDelete)
      /\ UNCHANGED <<marked, deleted>>
  BY DEF LogDeletion, IsLogged, Asked
<1>2. ListedOnce /\ Balanced
  BY <1>1 DEF OnRecord
<1>3. toDelete \in Seq(Findings) /\ log \in Seq(Lines) /\ line \in Lines
  BY <1>1 DEF TypeOK
<1>4. line.file = f /\ (line.success <=> f \in deleted)
  OBVIOUS
<1>5. f \notin Pending' /\ Pending = Pending' \cup {f} /\ ListedOnce'
  <2> HIDE DEF Lines, line
  <2> DEFINE t == Tail(toDelete)
             rest == {t[i] : i \in 1..Len(t)}
  <2>1. /\ f \notin rest
        /\ {toDelete[i] : i \in 1..Len(toDelete)} = rest \cup {f}
        /\ \A i, j \in 1..Len(t) : t[i] = t[j] => i = j
    BY <1>1, <1>2, <1>3, HeadTaken DEF ListedOnce
  <2>2. Pending' = rest /\ toDelete' = t
    BY <1>1 DEF Pending
  <2> HIDE DEF t, rest, f
  <2> QED
    BY <2>1, <2>2 DEF ListedOnce, Pending
<1> HIDE DEF f, Lines, line
<1>6. /\ Logged' = Logged \cup {f}
      /\ Succeeded' = Succeeded \cup (IF f \in deleted THEN {f} ELSE {})
  BY <1>1, <1>3, <1>4, LineAdded DEF Logged, Succeeded
<1>7. deleted \ {f} = Succeeded /\ Logged \cap Pending = {}
      /\ Logged \cup Pending = marked
  BY <1>1, <1>2 DEF Balanced, Current, f
<1>8. Current' = {}
  BY <1>1 DEF Current
<1>9. deleted' = Succeeded'
  BY <1>1, <1>6, <1>7
<1>10. Balanced'
  BY <1>1, <1>5, <1>6, <1>7, <1>8, <1>9 DEF Balanced
<1> QED
  BY <1>1, <1>5, <1>10 DEF OnRecord

(* The attempt itself: its file has no line yet.                           *)
LEMMA DeleteRecorded ==
  ASSUME TypeOK, OnRecord, NEW success \in BOOLEAN, Delete(success)
  PROVE  OnRecord'
<1> DEFINE f == Head(toDelete)
<1>1. /\ pc = "delete" /\ pc' = "log" /\ toDelete # <<>>
      /\ deleted' = deleted \/ deleted' = deleted \cup {f}
      /\ UNCHANGED <<marked, toDelete, log>>
  BY DEF Delete
<1>2. ListedOnce /\ Balanced /\ Current = {} /\ Current' = {f}
  BY <1>1 DEF OnRecord, Current
<1>3. f \in Pending
  BY <1>1, <1>2, HeadTaken DEF Pending, ListedOnce, TypeOK
<1>4. Succeeded \subseteq Logged
  BY DEF Succeeded, Logged
<1> HIDE DEF f
<1>5. f \notin deleted /\ deleted = Succeeded
  BY <1>2, <1>3, <1>4 DEF Balanced
<1>6. Pending' = Pending /\ Logged' = Logged /\ Succeeded' = Succeeded
      /\ ListedOnce'
  BY <1>1, <1>2 DEF Pending, Logged, Succeeded, ListedOnce
<1>7. Balanced'
  BY <1>1, <1>2, <1>5, <1>6 DEF Balanced
<1> QED
  BY <1>1, <1>6, <1>7 DEF OnRecord

(* With nothing logged and nothing deleted the record is in balance.       *)
LEMMA NothingOnRecord ==
  ASSUME log = <<>>
  PROVE  Logged = {} /\ Succeeded = {}
BY DEF Logged, Succeeded

(* What passes the filter is all that was asked for, each file once.       *)
LEMMA FilterRecorded ==
  ASSUME TypeOK, SelectionIsMarked, Harmless, OnRecord, Filter
  PROVE  OnRecord'
<1>1. /\ pc = "filter" /\ deleted = {} /\ log = <<>>
      /\ UNCHANGED <<cfg, marked, deleted, log>>
      /\ cfg.deleteMode = "All" => AllAreCorrupt
  BY DEF Filter, Harmless, Asked, OnRecord
<1>2. (IF cfg.deleteMode = "All" THEN {f \in Selection : Worst[f] # "Unreadable"}
       ELSE Selection) = marked
  BY <1>1 DEF SelectionIsMarked, AllAreCorrupt
<1>3. pc' = "done" \/ (pc' \in {"confirm", "delete"}
                        /\ toDelete' \in Sorted(marked))
  BY <1>2 DEF Filter
<1>4. log' = <<>> /\ Logged' = {} /\ Succeeded' = {} /\ deleted' = {}
  BY <1>1 DEF Logged, Succeeded
<1>5. CASE pc' = "done"
  BY <1>4, <1>5 DEF OnRecord
<1>6. CASE pc' \in {"confirm", "delete"} /\ toDelete' \in Sorted(marked)
  <2>1. marked \in SUBSET Findings
    BY DEF TypeOK
  <2>2. /\ \A i \in 1..Len(toDelete') : toDelete'[i] \in marked
        /\ \A f \in marked : \E i \in 1..Len(toDelete') : toDelete'[i] = f
        /\ ListedOnce'
    BY <1>6, <2>1, SortedList DEF ListedOnce
  <2>3. Pending' = marked'
    BY <1>1, <2>2 DEF Pending
  <2>4. Balanced'
    BY <1>4, <2>3 DEF Balanced
  <2> QED
    BY <1>4, <1>6, <2>2, <2>3, <2>4 DEF OnRecord
<1> QED
  BY <1>3, <1>5, <1>6

(* No step leaves the record behind.                                       *)
LEMMA RecordedStep ==
  TypeOK /\ SelectionIsMarked /\ Harmless /\ Recorded /\ [Next]_vars
    => Recorded'
<1> SUFFICES ASSUME TypeOK, SelectionIsMarked, Harmless, OnRecord, cfg.audit,
                    [Next]_vars
             PROVE  OnRecord'
  <2>1. [Next]_vars => cfg' = cfg
    BY DEF Next, vars, Start, Quit, SelectCorrupt, SelectNone, ToggleSuspect,
           Proceed, Toggle, Filter, Confirm, Delete, LogDeletion, Finish, Done
  <2> QED
    BY <2>1 DEF Recorded
<1> USE DEF Harmless
<1>1. CASE UNCHANGED vars \/ Done
  <2>1. UNCHANGED <<pc, marked, toDelete, deleted, log>>
    BY <1>1 DEF Done, vars
  <2>2. UNCHANGED <<Logged, Succeeded, Pending, Current, ListedOnce>>
    BY <2>1 DEF Logged, Succeeded, Pending, Current, ListedOnce
  <2> QED
    BY <2>1, <2>2 DEF OnRecord, Balanced
<1>2. ASSUME pc \in {"start", "prompt"},
             pc' \in {"start", "prompt", "filter", "done"},
             UNCHANGED <<deleted, log>>
      PROVE  OnRecord'
  <2>1. deleted' = {} /\ log' = <<>> /\ Succeeded' = {}
    BY <1>2 DEF OnRecord, Asked, Succeeded
  <2> QED
    BY <1>2, <2>1 DEF OnRecord
<1>3. CASE Start
  BY <1>2, <1>3 DEF Start
<1>4. CASE Quit \/ SelectCorrupt \/ SelectNone \/ ToggleSuspect \/ Proceed
  BY <1>2, <1>4 DEF Quit, SelectCorrupt, SelectNone, ToggleSuspect, Proceed
<1>5. ASSUME NEW picks \in Picks, Toggle(picks) PROVE OnRecord'
  BY <1>2, <1>5 DEF Toggle
<1>6. ASSUME NEW input \in {"y", "phrase", "other"}, Confirm(input)
      PROVE  OnRecord'
  <2>1. /\ pc = "confirm" /\ pc' \in {"delete", "done"} /\ log = <<>>
        /\ UNCHANGED <<toDelete, marked, deleted, log>>
        /\ deleted = {} /\ Pending = marked /\ ListedOnce
    BY <1>6 DEF Confirm, OnRecord, Asked
  <2>2. Logged' = {} /\ Succeeded' = {} /\ Pending' = Pending /\ ListedOnce'
    BY <2>1 DEF Logged, Succeeded, Pending, ListedOnce
  <2>3. Balanced'
    BY <2>1, <2>2 DEF Balanced
  <2> QED
    BY <2>1, <2>2, <2>3 DEF OnRecord
<1>7. CASE Finish
  <2>1. /\ pc = "delete" /\ pc' = "done" /\ toDelete = <<>>
        /\ UNCHANGED <<marked, deleted, log>>
        /\ Balanced /\ Current = {}
    BY <1>7 DEF Finish, OnRecord, Current
  <2>2. Pending = {} /\ Logged' = Logged /\ Succeeded' = Succeeded
    BY <2>1 DEF Pending, Logged, Succeeded
  <2> QED
    BY <2>1, <2>2 DEF OnRecord, Balanced
<1> QED
  BY <1>1, <1>3, <1>4, <1>5, <1>6, <1>7, FilterRecorded, DeleteRecorded,
     LogRecorded DEF Next

-----------------------------------------------------------------------------
(* The inductive invariant.                                                *)
IInv == TypeOK /\ Listed /\ SelectionIsMarked /\ Harmless /\ Recorded

(* At the start there is no list, no selection and nothing deleted.        *)
LEMMA InitHolds == Init => IInv
<1> SUFFICES ASSUME Init PROVE IInv
  OBVIOUS
<1>1. TypeOK
  BY DEF Init, TypeOK, Options
<1>2. Listed /\ SelectionIsMarked
  BY DEF Init, Listed, SelectionIsMarked, Selection
<1>3. Harmless
  BY DEF Init, Harmless, Asked, NothingUnasked, ProtectedRefused
<1>4. Recorded
  BY DEF Init, Recorded, OnRecord
<1> QED
  BY <1>1, <1>2, <1>3, <1>4 DEF IInv

(* Types, list, selection, deletions and record are right in every         *)
(* session.                                                                *)
THEOREM Invariance == Spec => []IInv
<1>1. IInv /\ [Next]_vars => IInv'
  BY TypeStep, ListedStep, SelectionStep, HarmlessStep, RecordedStep
     DEF IInv, Harmless
<1> QED
  BY <1>1, InitHolds, PTL DEF Spec

(* The state keeps its types for any findings and commands.                *)
THEOREM TypeCorrect == Spec => []TypeOK
BY Invariance, PTL DEF IInv

(* For any findings, verdicts and sequence of commands the positions that  *)
(* are marked denote the findings that were asked for.                     *)
THEOREM SelectionCorrect == Spec => []SelectionIsMarked
BY Invariance, PTL DEF IInv

(* For any findings and any options nothing is deleted that was not asked  *)
(* for and agreed to.                                                      *)
THEOREM DeletionsAsked == Spec => []NothingUnasked
BY Invariance, PTL DEF IInv, Harmless

(* For any findings and any options, no file of a selection with a         *)
(* protected file in it is deleted without --force-system.                 *)
THEOREM ProtectionHolds == Spec => []ProtectedRefused
BY Invariance, PTL DEF IInv, Harmless

(* For any findings and any options, with an audit log every attempt has   *)
(* its line before the next one is made, the successes on record are the   *)
(* files that are gone, and in the end all that was asked for is on it.    *)
THEOREM DeletionsLogged == Spec => []AuditTrail
<1>1. IInv => AuditTrail
  <2> SUFFICES ASSUME TypeOK, Asked, OnRecord PROVE AuditTrail
    BY DEF IInv, Harmless, Recorded, AuditTrail
  <2>1. pc = "log" => Head(toDelete) \in Pending
    BY HeadTaken DEF TypeOK, Asked, OnRecord, ListedOnce, Pending
  <2>2. Current \cap Logged = {}
    BY <2>1 DEF OnRecord, Balanced, Current
  <2>3. deleted \ Current = Succeeded
    <3>1. CASE pc \in {"start", "prompt", "filter", "confirm"}
      BY <3>1, NothingOnRecord DEF Asked, OnRecord
    <3>2. CASE pc \in {"delete", "log"}
      BY <3>2 DEF OnRecord, Balanced
    <3>3. CASE pc = "done"
      BY <3>3 DEF OnRecord, Current
    <3> QED
      BY <3>1, <3>2, <3>3 DEF TypeOK
  <2>4. pc = "done" /\ log # <<>> => Logged = marked
    BY DEF OnRecord
  <2> QED
    BY <2>2, <2>3, <2>4 DEF AuditTrail, Current, Logged, Succeeded
<1> QED
  BY <1>1, Invariance, PTL
=============================================================================
