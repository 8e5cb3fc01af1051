----------------------------- MODULE Questions -----------------------------
(***************************************************************************)
(* One question: edited in the form of its type (QuestionEditor.jsx),      *)
(* validated and stored (question.validation.ts), shown to an employee     *)
(* without its key (sanitizeQuestionContent), answered (AnswerInput.jsx)   *)
(* and scored (Scoring).                                                   *)
(*                                                                         *)
(* A content has all the fields of all types:                              *)
(*   items    options, images, mistakes, zones, marked words, sequence     *)
(*            items or the left side of the pairs; "filled": its text, or  *)
(*            its image, is there                                          *)
(*   others   distractors, or the right side of the pairs                  *)
(*   key      correctOptionIds, correctAnswer, correctImageId,             *)
(*            correctOrder or correctPairs                                 *)
(*   media    the image or the video is there                              *)
(*   words, indented   the paragraph, and whether blanks precede it        *)
(***************************************************************************)
EXTENDS Scoring

CONSTANTS
    MarksOf,     \* marks and penalties a question is stored with, in hundredths
    Penalties,
    Tolerances,
    MaxItems,    \* bound: items added to a question
    MaxWords,    \* bound: words of the paragraph
    Places,      \* bound: the points of the image, the moments of the video: 0..Places
    MaxClaims    \* bound: points clicked or moments marked

ASSUME QuestionsAssumption ==
    /\ MarksOf \subseteq Nat /\ Penalties \subseteq Nat /\ Tolerances \subseteq Nat
    /\ MaxWords \in Nat /\ Places \in Nat

VARIABLES
    stage,    \* "form": in the form, "stored", or "paper": being answered
    content,  \* of the form, or stored
    made,     \* nextId: ids given so far
    answer

questionVars == <<stage, content, made, answer>>

Types == {"mcq", "true_false", "image_comparison", "find_mistakes", "hotspot",
          "content_review", "video_review", "drag_drop"}
Item(i, from, to) == [id |-> i, filled |-> FALSE, from |-> from, to |-> to]

\* EMPTY_CONTENT. A comparison starts with two images.
EmptyContent(t) ==
    [type |-> t, items |-> IF t = "image_comparison" THEN <<Item(1, 0, 0), Item(2, 0, 0)>> ELSE <<>>,
     others |-> <<>>, key |-> <<>>, multiple |-> FALSE, partial |-> t = "drag_drop",
     mode |-> CASE t = "drag_drop" -> "sequence" [] t = "find_mistakes" -> "checklist" [] OTHER -> "",
     media |-> FALSE, tolerance |-> 1, words |-> 0, indented |-> FALSE,
     marks |-> 0, penalty |-> 0]

QuestionsInit ==
    /\ stage = "form" /\ answer = <<>>
    /\ content \in {EmptyContent(t) : t \in Types}
    /\ made = Len(content.items)

-----------------------------------------------------------------------------
Is(t) == stage = "form" /\ content.type = t
\* filter: what is in T stays, in order.
Keep(s, T) ==
    LET kept[n \in 0..Len(s)] == IF n = 0 THEN <<>>
                                 ELSE IF s[n] \in T THEN Append(kept[n - 1], s[n]) ELSE kept[n - 1]
    IN kept[Len(s)]
Without(s, i) == Keep(s, {x \in ToSet(s) : x.id # i})
Flip(s, x) == IF x \in ToSet(s) THEN Keep(s, ToSet(s) \ {x}) ELSE Append(s, x)
Change(c) == content' = c /\ UNCHANGED <<stage, made, answer>>
NewId == made < MaxItems /\ made' = made + 1 /\ UNCHANGED <<stage, answer>>

\* The texts (or images) of the items; the label of a zone is given.
FillItem(i, b) ==
    /\ stage = "form"
    /\ \/ i \in DOMAIN content.items /\ Change([content EXCEPT !.items[i].filled = b])
       \/ i \in DOMAIN content.others /\ Change([content EXCEPT !.others[i].filled = b])

SetMedia(b) ==
    /\ Is("find_mistakes") \/ Is("hotspot") \/ Is("video_review")
    /\ Change([content EXCEPT !.media = b])
SetTolerance(n) ==
    /\ Is("hotspot") \/ Is("video_review")
    /\ content.media /\ Change([content EXCEPT !.tolerance = n])

\* McqEditor. With a single answer only the first of the correct ones stays.
AddOption == Is("mcq") /\ NewId
    /\ content' = [content EXCEPT !.items = Append(@, Item(made', 0, 0))]
BugKeyWithout(i) == content.key
KeyWithout(i) == Keep(content.key, ToSet(content.key) \ {i})
RemoveOption(i) == Is("mcq") /\
    Change([content EXCEPT !.items = Without(@, i), !.key = KeyWithout(i)])
ToggleCorrect(i) == Is("mcq") /\
    Change([content EXCEPT !.key = IF content.multiple THEN Flip(@, i) ELSE <<i>>])
SetMultiple(b) == Is("mcq") /\
    Change([content EXCEPT !.multiple = b, !.key = IF b \/ @ = <<>> THEN @ ELSE <<Head(@)>>])
SetPartial(b) == Is("mcq") /\ content.multiple /\ Change([content EXCEPT !.partial = b])

SetCorrectAnswer(b) == Is("true_false") /\ Change([content EXCEPT !.key = <<b>>])

\* ImageComparisonEditor. Two images always stay.
AddImage == Is("image_comparison") /\ NewId
    /\ content' = [content EXCEPT !.items = Append(@, Item(made', 0, 0))]
RemoveImage(i) ==
    /\ Is("image_comparison") /\ Len(content.items) > 2
    /\ Change([content EXCEPT !.items = Without(@, i), !.key = IF @ = <<i>> THEN <<>> ELSE @])
MarkImage(i) == Is("image_comparison") /\ Change([content EXCEPT !.key = <<i>>])

\* FindMistakesEditor. Typed answers have no distractors.
SetAnswerMode(m) == Is("find_mistakes") /\
    Change([content EXCEPT !.mode = m, !.others = IF m = "typed" THEN <<>> ELSE @])
AddLabel(distractor) ==
    /\ Is("find_mistakes") /\ NewId
    /\ distractor => content.mode = "checklist"
    /\ content' = IF distractor THEN [content EXCEPT !.others = Append(@, Item(made', 0, 0))]
                                ELSE [content EXCEPT !.items = Append(@, Item(made', 0, 0))]
RemoveLabel(i) == Is("find_mistakes") /\
    Change([content EXCEPT !.items = Without(@, i), !.others = Without(@, i)])

\* HotspotEditor: a zone is dragged, either way; too small a one is ignored.
DrawZone(p, q) ==
    /\ Is("hotspot") /\ content.media /\ p < q /\ NewId
    /\ content' = [content EXCEPT !.items = Append(@, [Item(made', p, q) EXCEPT !.filled = TRUE])]
RemoveZone(i) == Is("hotspot") /\ content.media /\ Change([content EXCEPT !.items = Without(@, i)])

\* ContentReviewEditor. Another text forgets the marked words.
SetText(n, b) == Is("content_review") /\
    Change([content EXCEPT !.words = n, !.indented = b, !.items = <<>>])
ToggleWord(w) ==
    /\ Is("content_review") /\ w < content.words
    /\ Change([content EXCEPT !.items =
          IF \E e \in ToSet(@) : e.from = w THEN Keep(@, {e \in ToSet(@) : e.from # w})
          ELSE Append(@, [Item(w, w, w) EXCEPT !.filled = TRUE])])

AddMistake(p) ==
    /\ Is("video_review") /\ content.media /\ NewId
    /\ content' = [content EXCEPT !.items = Append(@, Item(made', p, p))]
RemoveMistake(i) == Is("video_review") /\ content.media /\
    Change([content EXCEPT !.items = Without(@, i)])

\* DragDropEditor. The correct order is that of the items; a pair has an item
\* on each side.
SetDragMode(m) == Is("drag_drop") /\
    Change([EmptyContent("drag_drop") EXCEPT !.mode = m])
InOrder(s) == [i \in DOMAIN s |-> s[i].id]
AddSequenceItem ==
    /\ Is("drag_drop") /\ content.mode = "sequence" /\ NewId
    /\ LET s == Append(content.items, Item(made', 0, 0))
       IN content' = [content EXCEPT !.items = s, !.key = InOrder(s)]
RemoveSequenceItem(i) ==
    /\ Is("drag_drop") /\ content.mode = "sequence"
    /\ LET s == Without(content.items, i)
       IN Change([content EXCEPT !.items = s, !.key = InOrder(s)])
Right(l) == CHOOSE r \in IdsOf(content.others) : <<l, r>> \in ToSet(content.key)
AddPair ==
    /\ Is("drag_drop") /\ content.mode = "match" /\ NewId
    /\ content' = [content EXCEPT !.items = Append(@, Item(made', 0, 0)),
                                  !.others = Append(@, Item(made', 0, 0)),
                                  !.key = Append(@, <<made', made'>>)]
RemovePair(l) ==
    /\ Is("drag_drop") /\ content.mode = "match" /\ l \in IdsOf(content.items)
    /\ Change([content EXCEPT !.items = Without(@, l), !.others = Without(@, Right(l)),
                              !.key = Keep(@, {p \in ToSet(@) : p[1] # l})])

EditItem(i) ==
    \/ RemoveOption(i) \/ ToggleCorrect(i) \/ RemoveImage(i) \/ MarkImage(i) \/ RemoveLabel(i)
    \/ RemoveZone(i) \/ RemoveMistake(i) \/ RemoveSequenceItem(i) \/ RemovePair(i)

-----------------------------------------------------------------------------
\* The limits above the bounds are left out. Ids may repeat for the validator
\* where no editor repeats them.
Filled(s) == \A i \in DOMAIN s : s[i].filled
Valid(c) ==
    /\ Filled(c.items) /\ Filled(c.others)
    /\ CASE c.type = "mcq" ->
              /\ Len(c.items) >= 2 /\ c.key # <<>> /\ ToSet(c.key) \subseteq IdsOf(c.items)
              /\ ~c.multiple => Len(c.key) = 1
         [] c.type = "true_false" -> c.key # <<>>
         [] c.type = "image_comparison" ->
              Len(c.items) >= 2 /\ c.key # <<>> /\ ToSet(c.key) \subseteq IdsOf(c.items)
         [] c.type \in {"find_mistakes", "hotspot", "video_review"} -> c.media /\ c.items # <<>>
         [] c.type = "content_review" ->
              c.words > 0 /\ c.items # <<>> /\ \A e \in ToSet(c.items) : e.from < c.words
         [] c.type = "drag_drop" ->
              /\ Len(c.items) >= 2
              /\ IF c.mode = "sequence"
                 THEN Len(c.key) = Len(c.items) /\ ToSet(c.key) = IdsOf(c.items)
                 ELSE /\ Len(c.key) >= 2 /\ Len(c.others) >= 2
                      /\ \A p \in ToSet(c.key) : p[1] \in IdsOf(c.items) /\ p[2] \in IdsOf(c.others)

\* What is stored is trimmed.
BugTrimmed(c) == c
Trimmed(c) == [c EXCEPT !.indented = FALSE]

\* handleSave, POST or PUT /questions; the other fields of the form are filled.
SaveQuestion(m, n) ==
    /\ stage = "form" /\ Valid(content)
    /\ stage' = "stored" /\ content' = [Trimmed(content) EXCEPT !.marks = m, !.penalty = n]
    /\ UNCHANGED <<made, answer>>

OpenForm == stage = "stored" /\ stage' = "form" /\ UNCHANGED <<content, made, answer>>
ChangeType(t) ==
    /\ stage = "form" /\ t # content.type
    /\ content' = EmptyContent(t) /\ made' = Len(content'.items)
    /\ UNCHANGED <<stage, answer>>
StartPaper == stage = "stored" /\ stage' = "paper" /\ UNCHANGED <<content, made, answer>>

-----------------------------------------------------------------------------
\* sanitizeQuestionContent: what the employee is shown, without the key. The
\* words are split again, from the paragraph as it was stored.
Sanitized ==
    [type |-> content.type, multiple |-> content.multiple, mode |-> content.mode,
     options |-> IF content.type \in {"hotspot", "content_review", "video_review"} THEN {}
                 ELSE IdsOf(content.items) \cup IF content.mode = "match" THEN {} ELSE IdsOf(content.others),
     right |-> IF content.mode = "match" THEN IdsOf(content.others) ELSE {},
     words |-> IF content.indented THEN content.words + 1 ELSE content.words]
Shown(t) == stage = "paper" /\ content.type = t
Claim(a) == answer' = a /\ UNCHANGED <<stage, content, made>>

AnswerMcq(x) == Shown("mcq") /\ x \in Sanitized.options
    /\ Claim(IF Sanitized.multiple THEN Flip(answer, x) ELSE <<x>>)
AnswerTrueFalse(b) == Shown("true_false") /\ Claim(<<b>>)
AnswerImage(x) == Shown("image_comparison") /\ x \in Sanitized.options /\ Claim(<<x>>)
\* The lines are replaced: they name some of the mistakes, or none.
AnswerMistakes(x) == Shown("find_mistakes") /\ x \in Sanitized.options
    /\ Sanitized.mode = "checklist" /\ Claim(Flip(answer, x))
TypeLines(S) == Shown("find_mistakes") /\ Sanitized.mode = "typed" /\ Claim(S)
ClickImage(p) == Shown("hotspot") /\ Len(answer) < MaxClaims /\ Claim(Append(answer, p))
AnswerWords(w) == Shown("content_review") /\ w < Sanitized.words /\ Claim(Flip(answer, w))
MarkMoment(p) == Shown("video_review") /\ Len(answer) < MaxClaims /\ Claim(Append(answer, p))
RemoveClaim(i) ==
    /\ Shown("hotspot") \/ Shown("video_review")
    /\ Claim(RemoveAt(answer, i))
\* Until the first move the items are in the order they are shown in: the
\* correct one.
Order == IF answer = <<>> THEN content.key ELSE answer
Move(i) ==
    /\ Shown("drag_drop") /\ Sanitized.mode = "sequence" /\ i + 1 <= Len(Order)
    /\ Claim([Order EXCEPT ![i] = Order[i + 1], ![i + 1] = Order[i]])
\* A map from left to right, in the order the pairs were first made.
SetPair(l, r) ==
    /\ Shown("drag_drop") /\ Sanitized.mode = "match"
    /\ l \in Sanitized.options /\ r \in Sanitized.right \cup {0}
    /\ LET others == Keep(answer, {p \in ToSet(answer) : p[1] # l})
           at == {i \in DOMAIN answer : answer[i][1] = l}
       IN Claim(IF r = 0 THEN others
                ELSE IF at = {} THEN Append(answer, <<l, r>>)
                ELSE [i \in DOMAIN answer |-> IF i \in at THEN <<l, r>> ELSE answer[i]])

Edit ==
    \/ \E i \in 1..MaxItems, b \in BOOLEAN : FillItem(i, b)
    \/ \E b \in BOOLEAN : SetMedia(b) \/ SetMultiple(b) \/ SetPartial(b) \/ SetCorrectAnswer(b)
    \/ \E n \in Tolerances : SetTolerance(n)
    \/ AddOption \/ AddImage \/ AddSequenceItem \/ AddPair
    \/ \E i \in IdsOf(content.items) \cup IdsOf(content.others) : EditItem(i)
    \/ \E m \in {"checklist", "typed"} : SetAnswerMode(m)
    \/ \E b \in BOOLEAN : AddLabel(b)
    \/ \E p, q \in 0..Places : DrawZone(p, q)
    \/ \E n \in 0..MaxWords, b \in BOOLEAN : SetText(n, b)
    \/ \E w \in 0..MaxWords : ToggleWord(w)
    \/ \E p \in 0..Places : AddMistake(p)
    \/ \E m \in {"sequence", "match"} : SetDragMode(m)
    \/ \E t \in Types : ChangeType(t)

Reply ==
    \/ \E x \in Sanitized.options : AnswerMcq(x) \/ AnswerImage(x) \/ AnswerMistakes(x)
    \/ \E b \in BOOLEAN : AnswerTrueFalse(b)
    \/ TypeLines(<<>>) \/ \E S \in SUBSET IdsOf(content.items) : TypeLines(<<S>>)
    \/ \E p \in 0..Places : ClickImage(p) \/ MarkMoment(p)
    \/ \E w \in 0..MaxWords : AnswerWords(w)
    \/ \E i \in DOMAIN answer : RemoveClaim(i)
    \/ \E i \in DOMAIN Order : Move(i)
    \/ \E l \in Sanitized.options, r \in Sanitized.right \cup {0} : SetPair(l, r)

QuestionsNext ==
    \/ Edit
    \/ \E m \in MarksOf, n \in Penalties : SaveQuestion(m, n)
    \/ OpenForm \/ StartPaper
    \/ Reply

QuestionsSpec == QuestionsInit /\ [][QuestionsNext]_questionVars

-----------------------------------------------------------------------------
Modes(t) == CASE t = "drag_drop" -> {"sequence", "match"}
              [] t = "find_mistakes" -> {"checklist", "typed"}
              [] OTHER -> {""}
Keys(t, m) == CASE t = "true_false" -> BOOLEAN [] m = "match" -> Nat \X Nat [] OTHER -> Nat
AnItem == [id : Nat, filled : BOOLEAN, from : Nat, to : Nat]
Items == Seq(AnItem)
ContentOf(t, m) ==
    [type : {t}, mode : {m}, items : Items, others : Items, key : Seq(Keys(t, m)),
     multiple : BOOLEAN, partial : BOOLEAN, media : BOOLEAN, tolerance : Nat,
     words : Nat, indented : BOOLEAN, marks : Nat, penalty : Nat]
ClaimsOf(c) == IF c.mode = "typed" THEN SUBSET IdsOf(c.items) ELSE Keys(c.type, c.mode)

QuestionsTypeOK ==
    /\ stage \in {"form", "stored", "paper"} /\ made \in Nat
    /\ content.type \in Types /\ content.mode \in Modes(content.type)
    /\ content \in ContentOf(content.type, content.mode)
    /\ answer \in Seq(ClaimsOf(content))

\* The ids of a list differ, whatever was added and removed. A marked word is
\* known by its place.
Differ(s) == \A i, j \in DOMAIN s : s[i].id = s[j].id => i = j
Numbered ==
    /\ Differ(content.items) /\ Differ(content.others)
    /\ \A x \in ToSet(content.items) \cup ToSet(content.others) :
          /\ IF content.type = "content_review" THEN x.id = x.from ELSE x.id <= made
          /\ IF content.type = "hotspot" THEN x.from <= x.to ELSE x.from = x.to

\* Whatever is edited in whatever order, the key never names an item that is
\* gone, a single choice has one answer at most, every left side has its right
\* one, the marked words are words of the paragraph, and distractors stay where
\* they are asked for.
KeyNamesItems ==
    /\ content.type \in {"mcq", "image_comparison"} => ToSet(content.key) \subseteq IdsOf(content.items)
    /\ content.type = "image_comparison" \/ (content.type = "mcq" /\ ~content.multiple)
          => Len(content.key) <= 1
    /\ content.mode = "sequence" => content.key = InOrder(content.items)
    /\ content.mode = "match" =>
          /\ Len(content.others) = Len(content.items)
          /\ content.key = [i \in DOMAIN content.items |-> <<content.items[i].id, content.others[i].id>>]
    /\ content.type = "content_review" => \A e \in ToSet(content.items) : e.from < content.words
    /\ content.others # <<>> => content.mode \in {"checklist", "match"}

\* Stored is what the validator accepts, trimmed.
Accepted ==
    /\ stage # "form" => Valid(content) /\ ~content.indented
    /\ stage # "paper" => answer = <<>>

\* The answer the key asks for, claim by claim; a word is where the editor
\* showed it, one further when the blanks before it are shown too.
KeyAnswer ==
    CASE content.type = "find_mistakes" ->
            IF content.mode = "typed" THEN <<IdsOf(content.items)>> ELSE InOrder(content.items)
      [] content.type \in {"hotspot", "video_review"} ->
            [i \in DOMAIN content.items |-> content.items[i].to]
      [] content.type = "content_review" ->
            [i \in DOMAIN content.items |->
                IF content.indented THEN content.items[i].from + 1 ELSE content.items[i].from]
      [] OTHER -> content.key

\* A question that was accepted can be solved: the answer its key asks for
\* earns its marks in full, or has them suggested to the reviewer, rounding
\* and penalties notwithstanding.
Solvable ==
    stage # "form" => LET s == Score(content, KeyAnswer) IN
        IF s.pending THEN s.obtained = 0 /\ s.suggested = content.marks
        ELSE s.obtained = content.marks /\ s.full

\* No answer earns less than nothing or more than the marks; all of them when
\* it is counted as right in full.
WithinMarks ==
    stage = "paper" => LET s == Score(content, answer) IN
        /\ s.obtained \in 0..content.marks /\ s.suggested \in 0..content.marks
        /\ s.full => s.obtained = content.marks
        /\ ~s.attempted => s.obtained = 0 /\ ~s.full

\* No moment that was marked is left over beside a mistake that is left over,
\* and none counts for two mistakes, although each mistake takes its own in turn.
ClaimsSettled ==
    Shown("video_review") => LET s == Claims(content, answer) IN
        /\ Cardinality(s.used) = Cardinality(s.found)
        /\ \A e \in DOMAIN content.items \ s.found, c \in DOMAIN answer \ s.used :
              Far(content, answer, e, c) > content.tolerance

\* One more click or moment never undoes what was found; one more right claim
\* (a zone, mistake or word not found yet) never costs marks, except in a video,
\* where it may take another claim's place.
MoreIsNoLess ==
    stage = "paper" /\ answer # <<>> /\ content.mode \notin {"typed", "match", "sequence"} =>
        LET before == Score(content, Front(answer))
            after == Score(content, answer)
        IN /\ after.found >= before.found
           /\ after.found > before.found /\ content.type # "video_review"
                => after.obtained >= before.obtained

QuestionsInv ==
    /\ QuestionsTypeOK /\ Numbered /\ KeyNamesItems /\ Accepted
    /\ Solvable /\ WithinMarks /\ ClaimsSettled /\ MoreIsNoLess

\* AnswerInput.jsx: "Pause and press "Mark mistake here" at every moment where
\* a mistake occurs (tolerance +-n seconds)". Moments that can be matched with
\* as many mistakes are all found.
EveryMomentCounts ==
    Shown("video_review") =>
        \A f \in [DOMAIN content.items -> DOMAIN answer] :
            /\ IsInjective(f)
            /\ \A e \in DOMAIN content.items : Far(content, answer, e, f[e]) <= content.tolerance
            => Score(content, answer).found = Len(content.items)
=============================================================================
