------------------------------ MODULE Scoring ------------------------------
(***************************************************************************)
(* How an answer to a question is scored (scoring.ts), type by type.       *)
(* Marks are in hundredths.  An answer is the sequence of its claims:      *)
(* options picked, words, points clicked, moments of the video, the order  *)
(* of the items or pairs of items; for a typed answer, one set of the      *)
(* mistakes its lines name.  No claims: not attempted.  An item has its    *)
(* place, from..to: a zone of the image (cut down to one line), a moment   *)
(* of the video, the position of a word.                                   *)
(*                                                                         *)
(* Marks of single zones and mistakes, which only other clients can set,   *)
(* are left out: every item has an equal share.                            *)
(***************************************************************************)
EXTENDS Integers, FiniteSets, SequencesExt

IdsOf(s) == {s[i].id : i \in DOMAIN s}

\* clamp: not below zero, to two digits, n/d hundredths rounded half up.
BugClamp(n, d) == (2 * n + d) \div (2 * d)
Clamp(n, d) == IF n <= 0 THEN 0 ELSE (2 * n + d) \div (2 * d)

Scored(obtained, full, found) ==
    [obtained |-> obtained, attempted |-> TRUE, full |-> full, found |-> found,
     pending |-> FALSE, suggested |-> 0]

\* empty: nothing was answered.
Unanswered == [Scored(0, FALSE, 0) EXCEPT !.attempted = FALSE]

\* Right or wrong; the penalty is clamped away.
AllOrNothing(q, right) == Scored(IF right THEN q.marks ELSE Clamp(-q.penalty, 1), right, 0)

\* An equal share for each of the items found, a penalty for each wrong claim.
Share(q, found, wrong) == LET total == Len(q.items) IN
    Scored(Clamp(q.marks * found - q.penalty * wrong * total, total),
           found = total /\ wrong = 0, found)

-----------------------------------------------------------------------------
Mcq(q, a) ==
    LET right == Cardinality(ToSet(a) \cap ToSet(q.key))
        wrong == Cardinality((ToSet(a) \cap IdsOf(q.items)) \ ToSet(q.key))
        total == Cardinality(ToSet(q.key))
        earned == Clamp(q.marks * (IF right > wrong THEN right - wrong ELSE 0)
                          - (IF wrong > 0 THEN q.penalty * total ELSE 0), total)
    IN IF ~q.multiple THEN AllOrNothing(q, Cardinality(ToSet(a)) = 1 /\ right = 1)
       ELSE IF ~q.partial THEN AllOrNothing(q, right = total /\ wrong = 0)
       ELSE Scored(earned, earned >= q.marks, 0)

\* scoreTrueFalse, scoreImageComparison.
OneRight(q, a) == AllOrNothing(q, a = q.key)

\* Ticked in the list; or typed, and for a reviewer to decide.
FindMistakes(q, a) ==
    LET found == Cardinality(ToSet(a) \cap IdsOf(q.items))
    IN IF q.mode = "typed"
       THEN [Scored(0, FALSE, 0) EXCEPT !.pending = TRUE,
                !.suggested = Clamp(q.marks * Cardinality(a[1]), Len(q.items))]
       ELSE Share(q, found, Cardinality(ToSet(a)) - found)

\* A click finds the first zone around it that is not found yet; it is wrong
\* when it is in no zone at all.
Inside(q, p, z) == p \in q.items[z].from - q.tolerance..q.items[z].to + q.tolerance
Clicked(q, s, p) ==
    LET around == {z \in DOMAIN q.items : Inside(q, p, z)}
        new == around \ s.found
    IN IF new # {} THEN [s EXCEPT !.found = @ \cup {CHOOSE z \in new : \A y \in new : z <= y}]
       ELSE IF around = {} THEN [s EXCEPT !.wrong = @ + 1] ELSE s
Clicks(q, a) ==
    LET after[n \in 0..Len(a)] == IF n = 0 THEN [found |-> {}, wrong |-> 0]
                                  ELSE Clicked(q, after[n - 1], a[n])
    IN after
Hotspot(q, a) == LET s == Clicks(q, a)[Len(a)] IN Share(q, Cardinality(s.found), s.wrong)

ContentReview(q, a) ==
    LET found == Cardinality(ToSet(a) \cap {q.items[e].from : e \in DOMAIN q.items})
    IN Share(q, found, Cardinality(ToSet(a)) - found)

\* Each mistake, in the order of the question, takes the nearest claim that is
\* left within the tolerance, the earlier of two; a claim nobody takes is wrong.
Far(q, a, e, c) == IF a[c] > q.items[e].from THEN a[c] - q.items[e].from
                                             ELSE q.items[e].from - a[c]
BugWithin(q, a, e, used) == {c \in DOMAIN a : Far(q, a, e, c) <= q.tolerance}
Within(q, a, e, used) == {c \in DOMAIN a \ used : Far(q, a, e, c) <= q.tolerance}
Matched(q, a, s, e) ==
    LET near == Within(q, a, e, s.used)
        best == CHOOSE c \in near : \A d \in near :
                    \/ Far(q, a, e, c) < Far(q, a, e, d)
                    \/ Far(q, a, e, c) = Far(q, a, e, d) /\ c <= d
    IN IF near = {} THEN s ELSE [used |-> s.used \cup {best}, found |-> s.found \cup {e}]
Matches(q, a) ==
    LET after[e \in 0..Len(q.items)] == IF e = 0 THEN [used |-> {}, found |-> {}]
                                        ELSE Matched(q, a, after[e - 1], e)
    IN after
Claims(q, a) == Matches(q, a)[Len(q.items)]
VideoReview(q, a) == LET s == Claims(q, a)
    IN Share(q, Cardinality(s.found), Len(a) - Cardinality(s.used))

\* Items in order, or pairs of which only the first of an item counts. The
\* editor always gives partial credit.
DragDrop(q, a) ==
    LET first == {i \in DOMAIN a : q.mode = "sequence" \/ \A j \in 1..i - 1 : a[j][1] # a[i][1]}
        right == IF q.mode = "sequence"
                 THEN Cardinality({i \in DOMAIN q.key : i <= Len(a) /\ a[i] = q.key[i]})
                 ELSE Cardinality({i \in first : a[i] \in ToSet(q.key)})
        total == Len(q.key)
    IN Scored(Clamp(q.marks * right, total), right = total, 0)

\* scoreQuestion.
Score(q, a) ==
    IF a = <<>> THEN Unanswered
    ELSE CASE q.type = "mcq" -> Mcq(q, a)
           [] q.type \in {"true_false", "image_comparison"} -> OneRight(q, a)
           [] q.type = "find_mistakes" -> FindMistakes(q, a)
           [] q.type = "hotspot" -> Hotspot(q, a)
           [] q.type = "content_review" -> ContentReview(q, a)
           [] q.type = "video_review" -> VideoReview(q, a)
           [] q.type = "drag_drop" -> DragDrop(q, a)
=============================================================================
