---------------------------- MODULE TargetMapping ----------------------------
(***************************************************************************)
(* Where a target went when its file was rewritten                         *)
(* (modou/target_mapping.py): the hunks of a git diff move the line        *)
(* numbers, the functions of the same name and the lines around the target *)
(* propose places, and a place is taken automatically only when it is the  *)
(* only reliable one.                                                      *)
(*                                                                         *)
(* The diff is written line by line, so that every script git could write  *)
(* is met: as few changes as possible, removals before additions.  A line  *)
(* is a value; one of Defs begins a function of its name, which lasts to   *)
(* the next one (nested functions and what follows a function are left     *)
(* out), and two lines that are not equal are wholly unlike.  The targets  *)
(* are the lines of one file, beside others that did not change.           *)
(***************************************************************************)
EXTENDS Integers, FiniteSets, SequencesExt

CONSTANTS
    Defs,             \* lines that begin a function
    Texts,            \* other lines
    MaxLines,         \* bound: lines of the file, before and after
    Context,          \* lines git shows around a change
    Window            \* CONTEXT_WINDOW

Lines == Defs \cup Texts

(* git shows three lines unless it is told otherwise, and nothing tells it *)
(* (run_git ["diff", "--find-renames=50%", base]).                         *)
MappingAssumption == Context \in Nat \ {0}

VARIABLES
    script,      \* the diff: the lines of both files, each kept, removed or added
    fate,        \* "open" while the diff is written; then what became of the file:
                 \* "kept", "renamed", "deleted"; "raised" when looking it up failed
    beside,      \* other files that hold targets are still where they were
    seen,        \* the version whose lines are the targets: "base" or "now"
    mapping      \* target line -> its record, or << >> before

vars == <<script, fate, beside, seen, mapping>>

Init == script = <<>> /\ fate = "open" /\ beside = FALSE /\ seen = "base" /\ mapping = <<>>

-----------------------------------------------------------------------------
(* The two files and the diff between them.                                *)

(* The entries that are not of the other file alone; the k-th of them is   *)
(* the k-th line of this one.                                              *)
Count(s, from, to, other) == Cardinality({p \in from..to : s[p].tag # other})
Entry(s, k, other) == CHOOSE p \in 1..Len(s) : s[p].tag # other /\ Count(s, 1, p, other) = k

Side(s, other) == [k \in 1..Count(s, 1, Len(s), other) |-> s[Entry(s, k, other)].text]
Old(s) == Side(s, "+")
New(s) == Side(s, "-")
Kept(s) == Cardinality({p \in 1..Len(s) : s[p].tag = " "})

Common(a, b) ==
    LET lcs[i \in 0..Len(a), j \in 0..Len(b)] ==
            IF i = 0 \/ j = 0 THEN 0
            ELSE IF a[i] = b[j] THEN lcs[i - 1, j - 1] + 1
            ELSE IF lcs[i - 1, j] >= lcs[i, j - 1] THEN lcs[i - 1, j] ELSE lcs[i, j - 1]
    IN  lcs[Len(a), Len(b)]

AfterAddition == script # <<>> /\ Last(script).tag = "+"
Write(tag, text) ==
    LET s == Append(script, [tag |-> tag, text |-> text])
    IN  /\ fate = "open" /\ script' = s
        /\ Len(Old(s)) <= MaxLines /\ Len(New(s)) <= MaxLines
        /\ Kept(s) = Common(Old(s), New(s))
        /\ ~(tag = "-" /\ AfterAddition)
        /\ UNCHANGED <<fate, beside, seen, mapping>>

(* A hunk: a run of positions within Context of a change.  Its header says *)
(* how many lines of each file it shows and where they start, or the line  *)
(* before when there are none.                                             *)
Shown(s) == {p \in 1..Len(s) : \E c \in 1..Len(s) :
                s[c].tag # " " /\ c - p <= Context /\ p - c <= Context}
Start(s, from, to, other) ==
    Count(s, 1, from - 1, other) + IF Count(s, from, to, other) = 0 THEN 0 ELSE 1
Hunk(s, a, b) ==
    [first |-> a, last |-> b,
     old_start |-> Start(s, a, b, "+"), old_count |-> Count(s, a, b, "+"),
     new_start |-> Start(s, a, b, "-"), new_count |-> Count(s, a, b, "-")]
Hunks(s) ==
    LET cut[shown \in SUBSET (1..Len(s))] ==
            {Hunk(s, x[1], x[2]) : x \in {y \in shown \X shown :
                y[1]..y[2] \subseteq shown /\ y[1] <= y[2] /\ {y[1] - 1, y[2] + 1} \cap shown = {}}}
    IN  cut[Shown(s)]

(* FileChange.finalize and map_line: within a hunk the lines are counted   *)
(* from its header; before, between and after hunks a line moves by what   *)
(* the hunks before it added.  0 for a removed line.                       *)
Before(h, line) == h.old_start + h.old_count - 1 < line
DeltaOfAll(hunks, line) == MapThenSumSet(LAMBDA h : h.new_count - h.old_count, hunks)
Delta(hunks, line) ==
    MapThenSumSet(LAMBDA h : h.new_count - h.old_count, {h \in hunks : Before(h, line)})
InHunk(s, h, line) ==
    CHOOSE p \in h.first..h.last : s[p].tag # "+"
        /\ h.old_start + Count(s, h.first, p - 1, "+") = line
MapLine(s, hunks, line) ==
    LET here == {h \in hunks : h.old_start <= line /\ line < h.old_start + h.old_count}
    IN  IF here = {} THEN line + Delta(hunks, line)
        ELSE LET h == CHOOSE x \in here : TRUE  p == InHunk(s, h, line)
             IN  IF s[p].tag = "-" THEN 0 ELSE h.new_start + Count(s, h.first, p - 1, "-")

-----------------------------------------------------------------------------
(* python_scopes and _enclosing: a function is the number of the line that *)
(* begins it; 0 where there is none.                                       *)
Scopes(file) == {i \in 1..Len(file) : file[i] \in Defs}
Enclosing(file, line) ==
    Max({0} \cup {i \in Scopes(file) : i <= line /\ line <= Len(file)})
Name(file, line) ==
    LET e == Enclosing(file, line) IN IF e = 0 THEN "none" ELSE file[e]
Body(file, def) == {i \in def..Len(file) : Enclosing(file, i) = def}

(* _context_scores: how many of the lines around the target are around the *)
(* place too; the target itself counts twice.  Confidences are twentieths  *)
(* of Full.                                                                *)
Around(file, line) == {o \in (-Window)..Window : line + o \in 1..Len(file)}
Full(file, line) ==
    Cardinality(Around(file, line)) + IF line <= Len(file) THEN 1 ELSE 0
Score(old, line, new, place) ==
    LET same == {o \in Around(old, line) :
                    place + o \in 1..Len(new) /\ old[line + o] = new[place + o]}
    IN  20 * (Cardinality(same) + IF 0 \in same THEN 1 ELSE 0)

(* AUTO_THRESHOLD 0.6 and TIE_MARGIN 0.05; 1.0 - 0.95 is above the margin  *)
(* in floating point, and no other two confidences are so close.           *)
Enough(old, line, confidence) ==
    Full(old, line) > 0 /\ confidence >= 12 * Full(old, line)
Tied(old, line, best, confidence) == best - confidence < Full(old, line)

(* _peaks: from the best place down, without its neighbours.               *)
Peaks(old, line, new, places) ==
    LET score == [c \in places |-> Score(old, line, new, c)]
        Best(rest) == CHOOSE c \in rest : \A d \in rest :
                          score[c] > score[d] \/ (score[c] = score[d] /\ c <= d)
        peak[rest \in SUBSET places] ==
            IF rest = {} THEN {}
            ELSE {Best(rest)} \cup peak[rest \ ((Best(rest) - 1)..(Best(rest) + 1))]
    IN  {[line |-> c, confidence |-> score[c]] :
             c \in peak[{c \in places : Enough(old, line, score[c])}]}

(* What the functions of the same name propose: 0.95 for the only line of  *)
(* the text, or the peaks of the body; and what the lines around propose.  *)
FromScope(old, line, new) ==
    IF Enclosing(old, line) = 0 THEN {}
    ELSE UNION {LET hits == {i \in Body(new, d) : new[i] = old[line]}
                IN  IF Cardinality(hits) = 1
                    THEN {[line |-> i, confidence |-> 19 * Full(old, line)] : i \in hits}
                    ELSE Peaks(old, line, new, Body(new, d))
                : d \in {d \in Scopes(new) : new[d] = Name(old, line)}}
FromContext(old, line, new) == Peaks(old, line, new, 1..Len(new))

(* Merged by place, with the better confidence; the best and what is tied  *)
(* with it.                                                                *)
Candidates(old, line, new) == FromScope(old, line, new) \cup FromContext(old, line, new)
Confidence(found, place) == Max({c.confidence : c \in {d \in found : d.line = place}})
Top(old, line, found) ==
    {p \in {c.line : c \in found} :
        Tied(old, line, Max({c.confidence : c \in found}), Confidence(found, p))}

SameFunction(old, line, new, place) ==
    Scopes(old) = {} \/ Scopes(new) = {} \/ Name(old, line) = Name(new, place)

-----------------------------------------------------------------------------
(* _map_one.                                                               *)

To(place, basis) == [status |-> "mapped", line |-> place, basis |-> basis]
Ask(reason) == [status |-> "needs_confirmation", line |-> 0, basis |-> reason]
Deleted(reason) == [status |-> "deleted", line |-> 0, basis |-> reason]

(* The diff follows the line, and its text is still there.                 *)
Tracked(old, line, new, place) ==
    IF SameFunction(old, line, new, place) THEN To(place, "patch")
    ELSE Ask("cross_function_move")

(* The only best place is taken: of a removed line within its function, of *)
(* one the diff cannot place anywhere in the file.                         *)
OnlyOne(old, line, new, place, removed, renamed) ==
    IF removed => SameFunction(old, line, new, place) THEN To(place, "found")
    ELSE Ask(IF renamed THEN "renamed_unclear" ELSE "cross_function_move")

Nowhere(removed, renamed) ==
    IF ~removed THEN Ask("no_reliable_match")
    ELSE IF renamed THEN Ask("renamed_unclear") ELSE Deleted("line_deleted")

Searched(old, line, new, removed, renamed) ==
    LET found == Candidates(old, line, new)  top == Top(old, line, found)
    IN  IF found = {} THEN Nowhere(removed, renamed)
        ELSE IF Cardinality(top) > 1 THEN Ask("duplicate_code")
        ELSE OnlyOne(old, line, new, CHOOSE p \in top : TRUE, removed, renamed)

(* The text looked for is the base's, or what the review saw beyond it.    *)
Anchor(old, line, text) == IF line <= Len(old) THEN old[line] ELSE text
MapOne(old, line, new, text, place, what) ==
    IF what = "deleted" THEN Deleted("file_deleted")
    ELSE IF place \in 1..Len(new) /\ new[place] = Anchor(old, line, text)
         THEN Tracked(old, line, new, place)
         ELSE Searched(old, line, new, place = 0, what = "renamed")

(* _refresh_target_mapping: the base and the file now; where only a part   *)
(* of the files is where it was, the new place of the others is looked up  *)
(* among those, and is not there.                                          *)
Targets(s, version) == IF version = "base" THEN Old(s) ELSE New(s)
Mapped(s, hunks, what, version) ==
    LET rows == Targets(s, version)  old == Old(s)  new == New(s)
    IN  [l \in 1..Len(rows) |-> MapOne(old, l, new, rows[l], MapLine(s, hunks, l), what)]

Refresh(what, others, version) ==
    /\ fate = "open" /\ Targets(script, version) # <<>>
    /\ what = "deleted" => New(script) = <<>> /\ version = "base"
    /\ others => what = "renamed"
    /\ beside' = others /\ seen' = version
    /\ IF what = "renamed" /\ others
       THEN fate' = "raised" /\ UNCHANGED mapping
       ELSE /\ fate' = what
            /\ \E hunks \in {Hunks(script)} : mapping' = Mapped(script, hunks, what, version)
    /\ UNCHANGED script

(* apply_confirmation: one of the places that were recorded.  One target   *)
(* is confirmed at most.                                                   *)
Recorded(line) ==
    ({c.line : c \in Candidates(Old(script), line, New(script))}
        \cup {MapLine(script, Hunks(script), line)}) \ {0}
Confirm(line) ==
    /\ fate \in {"kept", "renamed"} /\ line \in DOMAIN mapping
    /\ \A l \in DOMAIN mapping : mapping[l].status # "confirmed"
    /\ line <= Len(Old(script)) /\ mapping[line].status = "needs_confirmation"
    /\ \E place \in Recorded(line) :
          mapping' = [mapping EXCEPT ![line] =
                          [status |-> "confirmed", line |-> place, basis |-> "human"]]
    /\ UNCHANGED <<script, fate, beside, seen>>

Next ==
    \/ \E tag \in {" ", "-", "+"}, text \in Lines : Write(tag, text)
    \/ \E what \in {"kept", "renamed", "deleted"}, others \in BOOLEAN, version \in {"base", "now"} :
          Refresh(what, others, version)
    \/ \E line \in 1..MaxLines : Confirm(line)

Spec == Init /\ [][Next]_vars

-----------------------------------------------------------------------------
(* The true place of a line of the base: where the script keeps it.        *)
Place(s, line) ==
    LET p == Entry(s, line, "+")
    IN  IF s[p].tag = "-" THEN 0 ELSE Count(s, 1, p, "-")

(* However git cuts the diff into hunks, the numbers that finalize makes   *)
(* of their headers are those of the diff: a kept line is found at its     *)
(* place, a removed one nowhere (target_mapping.py:130-187).               *)
LineNumbersHold ==
    fate = "open" =>
        \A hunks \in {Hunks(script)}, l \in 1..Len(Old(script)) :
            MapLine(script, hunks, l) = Place(script, l)

(* "Never guess" (target_mapping.py:17-20): whatever was moved, repeated   *)
(* or renamed, a target that follows the base never goes into another      *)
(* function on its own; only somebody who confirms it takes it there.      *)
StaysInFunction ==
    fate \in {"kept", "renamed"} /\ seen = "base" =>
        \A l \in DOMAIN mapping : mapping[l].status = "mapped" =>
            SameFunction(Old(script), l, New(script), mapping[l].line)

MappingHolds == LineNumbersHold /\ StaysInFunction
=============================================================================
