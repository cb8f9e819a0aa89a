-------------------------- MODULE SubmitOnceProofs --------------------------
(***************************************************************************)
(* Theorems about SubmitOnce, for every number of edits and of requests:   *)
(* types, that what is sent without being changed is done once, that a     *)
(* letter is not lost, and that the panel moves on.                        *)
(***************************************************************************)
EXTENDS SubmitOnce, FiniteSetTheorems, TLAPS

-----------------------------------------------------------------------------
(* The inductive invariants.                                               *)

\* The keys the server remembers, those it or the form's request uses, and those of what was made.
Recorded == {k \in KeyNumbers : record[k] # None}
Used == Recorded \cup ({post.key} \ {0})
CreatedKeys == {k \in KeyNumbers : record[k] = "created"}

\* Every request uses one key, so that there is always another; the server works on no key twice;
\* and what was made was made under a key of its own.
KeyInv ==
  /\ current.key # 0
  /\ post.pc # "idle" => post.key # 0
  /\ \A h \in handlers : record[h.key] = "in progress"
  /\ \A h, i \in handlers : h.key = i.key => h = i
  /\ Cardinality(Used) <= posts
  /\ \A t \in Texts : created[t] <= Cardinality(CreatedKeys)

TypeInv == TypeOK /\ KeyInv

\* The form and its request are of one text and one key, which are those of what was made.
JobInv ==
  /\ page # "away" /\ text = edits
  /\ \A t \in Texts : t > edits => created[t] = 0
  /\ \A k \in KeyNumbers : record[k] = "in progress" => \E h \in handlers : h.key = k
  /\ handlers = IF post.pc = "working" THEN {[key |-> post.key, text |-> post.text]} ELSE {}
  /\ Pending => page = "form" /\ post.text = text /\ post.key = current.key
  /\ post.pc = "answered" => Unanswered(post.answer) \/ post.answer = record[post.key]
  /\ page = "form" => /\ current.input = text
                      /\ created[text] # 0 => created[text] = 1 /\ record[current.key] = "created"

\* Nothing says that there is an application when there is none, and a letter that was dropped
\* was dropped for an application that the list shows, or is being asked for.
ApplicationInv ==
  /\ \A k \in KeyNumbers : record[k] \in {"created", "duplicate"} => Exists
  /\ post.answer \in {"created", "duplicate"} => Exists
  /\ edits > 0 /\ draft = 0 => /\ Exists /\ mine.fetch # "no"
                               /\ mine.fetch = "idle" => mine.has # "no"

-----------------------------------------------------------------------------
(* Keys.                                                                   *)

LEMMA NumbersAre ==
  ASSUME ConstantsOK
  PROVE  /\ MaxPosts \in Nat /\ 0 \in KeyNumbers /\ 1 \in KeyNumbers /\ 0 \in Texts
         /\ IsFiniteSet(KeyNumbers) /\ IsFiniteSet(KeyNumbers \ {0})
         /\ Cardinality(KeyNumbers \ {0}) = MaxPosts + 2
  <1>1. MaxPosts \in Nat /\ MaxPosts + 2 \in Nat /\ MaxEdits \in Nat
    BY DEF ConstantsOK
  <1>2. KeyNumbers \ {0} = 1 .. (MaxPosts + 2)
    BY <1>1 DEF KeyNumbers
  <1>3. IsFiniteSet(KeyNumbers) /\ IsFiniteSet(1 .. (MaxPosts + 2))
        /\ Cardinality(1 .. (MaxPosts + 2)) = MaxPosts + 2
    BY <1>1, FS_Interval DEF KeyNumbers
  <1>4. QED
    BY <1>1, <1>2, <1>3 DEF KeyNumbers, Texts

LEMMA CountsAre ==
  ASSUME ConstantsOK, TypeOK
  PROVE  /\ posts \in Nat /\ posts <= MaxPosts /\ MaxPosts \in Nat
         /\ edits \in Nat /\ text \in Nat /\ MaxEdits \in Nat
         /\ \A t \in Texts : t \in Nat /\ created[t] \in Nat
  <1>1. /\ posts \in 0 .. MaxPosts /\ edits \in 0 .. MaxEdits /\ text \in 0 .. MaxEdits
        /\ created \in [0 .. MaxEdits -> 0 .. MaxPosts]
    BY DEF TypeOK, Texts
  <1>2. QED
    BY <1>1 DEF ConstantsOK, Texts

LEMMA UsedIsFinite ==
  ASSUME ConstantsOK, TypeOK
  PROVE  /\ Used \subseteq KeyNumbers /\ IsFiniteSet(Used) /\ Cardinality(Used) \in Nat
         /\ CreatedKeys \subseteq Used /\ IsFiniteSet(CreatedKeys) /\ Cardinality(CreatedKeys) \in Nat
         /\ Cardinality(CreatedKeys) <= Cardinality(Used)
  <1>1. Used \subseteq KeyNumbers /\ CreatedKeys \subseteq Used
    BY DEF Used, Recorded, CreatedKeys, TypeOK, ConstantsOK, Answers
  <1>2. QED
    BY <1>1, NumbersAre, FS_Subset, FS_CardinalityType

\* There is a key that nobody uses.
LEMMA FreshKeyIs ==
  ASSUME ConstantsOK, TypeInv
  PROVE  /\ FreshKey \in KeyNumbers \ {0} /\ record[FreshKey] = None
         /\ FreshKey \notin {post.key, current.key}
  <1> DEFINE Taken == Used \cup {current.key}
  <1>1. TypeOK /\ Cardinality(Used) <= posts /\ posts \in 0 .. MaxPosts /\ current.key \in KeyNumbers
    BY DEF TypeInv, KeyInv, TypeOK
  <1>2. IsFiniteSet(Used) /\ Cardinality(Used) \in Nat /\ Used \subseteq KeyNumbers
    BY <1>1, UsedIsFinite
  <1>3. IsFiniteSet(Taken) /\ Cardinality(Taken) <= Cardinality(Used) + 1 /\ Cardinality(Taken) \in Nat
    <2>1. IsFiniteSet(Taken) /\ Cardinality(Taken) \in {Cardinality(Used), Cardinality(Used) + 1}
      BY <1>2, FS_AddElement
    <2>2. QED
      BY <1>2, <2>1
  <1>4. \E k \in KeyNumbers \ {0} : k \notin Taken
    <2>1. SUFFICES ASSUME KeyNumbers \ {0} \subseteq Taken PROVE FALSE
      OBVIOUS
    <2>2. Cardinality(KeyNumbers \ {0}) <= Cardinality(Taken)
      BY <2>1, <1>3, FS_Subset
    <2>3. QED
      BY <2>2, <1>1, <1>2, <1>3, NumbersAre
  <1>5. \E k \in KeyNumbers \ {0} : record[k] = None /\ k \notin {post.key, current.key}
    BY <1>4 DEF Used, Recorded
  <1>6. QED
    BY <1>5 DEF FreshKey

\* A render keeps the key of an input, or takes one that nobody uses.
LEMMA RenderedIs ==
  ASSUME ConstantsOK, TypeInv, NEW t \in Texts, NEW cur \in {current, None}, Rendered(cur, t)
  PROVE  /\ current' \in [input : Texts, key : KeyNumbers] /\ current'.key # 0 /\ current'.input = t
         /\ \/ cur = current /\ current.input = t /\ current' = current
            \/ record[current'.key] = None /\ current'.key \notin {post.key, current.key}
         /\ cur = current /\ current.input = t => current' = current
  <1>1. current \in [input : Texts, key : KeyNumbers] /\ current.key # 0
    BY DEF TypeInv, TypeOK, KeyInv
  <1>2. current # None
    BY <1>1 DEF ConstantsOK
  <1>3. CASE cur # None /\ cur.input = t
    BY <1>1, <1>2, <1>3 DEF Rendered
  <1>4. CASE ~(cur # None /\ cur.input = t)
    <2>1. current' = [input |-> t, key |-> FreshKey]
      BY <1>4 DEF Rendered
    <2>2. QED
      BY <1>2, <1>4, <2>1, FreshKeyIs
  <1>5. QED
    BY <1>3, <1>4

-----------------------------------------------------------------------------
(* Types, and keys.                                                        *)

\* The server's part of the state.
serving == <<posts, handlers, record, created, stage>>

\* A step that leaves the server alone, and the key of the request or that request altogether.
LEMMA FormStep ==
  ASSUME ConstantsOK, TypeInv, TypeOK', UNCHANGED serving, current'.key # 0,
         post'.key = post.key \/ post' = NoPost, post'.pc # "idle" => post.pc # "idle" /\ post'.key = post.key
  PROVE  TypeInv'
  <1>1. TypeOK /\ posts \in Nat
    BY CountsAre DEF TypeInv
  <1>2. Used' \subseteq Used /\ CreatedKeys' = CreatedKeys
    BY DEF serving, Used, Recorded, CreatedKeys, NoPost
  <1>3. IsFiniteSet(Used) /\ Cardinality(Used) \in Nat /\ Cardinality(Used) <= posts
    BY <1>1, UsedIsFinite DEF TypeInv, KeyInv
  <1>4. IsFiniteSet(Used') /\ Cardinality(Used') <= Cardinality(Used)
    BY <1>2, <1>3, FS_Subset
  <1>5. Cardinality(Used') \in Nat
    BY <1>4, FS_CardinalityType
  <1>6. Cardinality(Used') <= posts'
    BY <1>1, <1>3, <1>4, <1>5 DEF serving
  <1>7. KeyInv'
    BY <1>2, <1>6 DEF TypeInv, KeyInv, serving
  <1>8. QED
    BY <1>7 DEF TypeInv

LEMMA TypeType == ASSUME ConstantsOK, TypeInv, Type PROVE TypeInv'
  <1>0. TypeOK /\ KeyInv
    BY DEF TypeInv
  <1>1. edits + 1 \in Texts
    BY <1>0, CountsAre DEF Type, Texts
  <1>2. current' \in [input : Texts, key : KeyNumbers] /\ current'.key # 0
    BY <1>1, RenderedIs DEF Type
  <1>3. TypeOK'
    <2>1. draft' \in Texts /\ text' \in Texts /\ edits' \in Texts
      BY <1>0, <1>1 DEF Type, TypeOK
    <2>2. current' \in [input : Texts, key : KeyNumbers]
      BY <1>2
    <2>3. /\ posts' \in 0 .. MaxPosts
          /\ handlers' \subseteq [key : KeyNumbers, text : Texts]
          /\ record' \in [KeyNumbers -> {None, "in progress", "created", "refused", "duplicate", "closed"}]
          /\ created' \in [Texts -> 0 .. MaxPosts]
          /\ post' \in [pc : {"idle", "sent", "working", "answered"}, key : KeyNumbers, text : Texts,
                        answer : Answers \cup {None}]
      BY <1>0 DEF Type, TypeOK
    <2>4. UNCHANGED <<page, job, stage, mine>>
      BY DEF Type
    <2>5. QED
      BY <1>0, <2>1, <2>2, <2>3, <2>4 DEF TypeOK
  <1>4. QED
    BY <1>2, <1>3, FormStep DEF Type, serving

LEMMA SubmitType == ASSUME ConstantsOK, TypeInv, Submit PROVE TypeInv'
  <1>0. TypeOK /\ KeyInv
    BY DEF TypeInv
  <1>1. /\ post' = [pc |-> "sent", key |-> current.key, text |-> text, answer |-> None]
        /\ posts' = posts + 1 /\ posts < MaxPosts
        /\ UNCHANGED <<text, edits, current, handlers, record, created, draft, page, job, stage, mine>>
    BY DEF Submit
  <1>2. TypeOK'
    <2>1. posts' \in 0 .. MaxPosts
      BY <1>0, <1>1, CountsAre
    <2>2. QED
      BY <1>0, <1>1, <2>1 DEF TypeOK
  <1>3. IsFiniteSet(Recorded) /\ Cardinality(Recorded) <= Cardinality(Used)
        /\ Cardinality(Used) \in Nat /\ Cardinality(Recorded) \in Nat
    BY <1>0, UsedIsFinite, FS_Subset, FS_CardinalityType DEF Used
  <1>4. Used' = Recorded \cup {current.key}
    BY <1>0, <1>1 DEF Used, Recorded, KeyInv
  <1>5. Cardinality(Used') \in {Cardinality(Recorded), Cardinality(Recorded) + 1}
    BY <1>3, <1>4, FS_AddElement
  <1>6. Cardinality(Used') <= posts'
    <2>1. Cardinality(Used) <= posts /\ posts \in Nat
      BY <1>0, CountsAre DEF KeyInv
    <2>2. Cardinality(Recorded) + 1 <= posts + 1 /\ Cardinality(Recorded) <= posts + 1
      BY <1>3, <2>1
    <2>3. QED
      BY <1>1, <1>5, <2>2
  <1>7. CreatedKeys' = CreatedKeys
    BY <1>1 DEF CreatedKeys
  <1>8. KeyInv'
    BY <1>0, <1>1, <1>6, <1>7 DEF KeyInv
  <1>9. QED
    BY <1>2, <1>8 DEF TypeInv

LEMMA HearType == ASSUME ConstantsOK, TypeInv, Hear PROVE TypeInv'
  <1>0. TypeOK /\ KeyInv
    BY DEF TypeInv
  <1>1. current' \in [input : Texts, key : KeyNumbers] /\ current'.key # 0
    <2>1. CASE page = "form"
      <3>1. Rendered(settle(post.answer), text) /\ settle(post.answer) \in {current, None} /\ text \in Texts
        BY <1>0, <2>1 DEF Hear, settle, TypeOK
      <3>2. QED
        BY <3>1, RenderedIs
    <2>2. CASE page # "form"
      BY <1>0, <2>2 DEF Hear, TypeOK, KeyInv
    <2>3. QED
      BY <2>1, <2>2
  <1>2. post' = NoPost /\ UNCHANGED <<text, edits, posts, handlers, record, created, stage>>
        /\ draft' \in Texts /\ page' \in {"form", "away", "done"}
    BY <1>0, NumbersAre DEF Hear, TypeOK
  <1>3. mine' \in [has : {"no", "applied", "withdrawn"}, submitted : BOOLEAN,
                   fetch : {"idle", "asked", "no", "applied", "withdrawn"}]
    BY <1>0 DEF Hear, TypeOK, Invalidated
  <1>4. job' \in [open : BOOLEAN, known : BOOLEAN, eligible : BOOLEAN]
    BY <1>0 DEF Hear, TypeOK
  <1>5. TypeOK'
    BY <1>0, <1>1, <1>2, <1>3, <1>4, NumbersAre DEF TypeOK, NoPost
  <1>6. QED
    BY <1>1, <1>2, <1>5, FormStep DEF serving, NoPost

\* The steps of the page and of the list that send nothing.
LEMMA PageType ==
  ASSUME ConstantsOK, TypeInv, Leave \/ Return \/ Withdraw \/ ReadMine \/ ShowMine \/ CloseJob
  PROVE  TypeInv'
  <1>0. TypeOK /\ KeyInv
    BY DEF TypeInv
  <1>1. CASE Leave
    <2>1. TypeOK'
      BY <1>0, <1>1 DEF Leave, TypeOK
    <2>2. QED
      BY <1>0, <1>1, <2>1, FormStep DEF Leave, serving, KeyInv
  <1>2. CASE Return
    <2>1. draft \in Texts /\ current' \in [input : Texts, key : KeyNumbers] /\ current'.key # 0
      BY <1>0, <1>2, RenderedIs DEF Return, TypeOK
    <2>2. mine' \in [has : {"no", "applied", "withdrawn"}, submitted : BOOLEAN,
                     fetch : {"idle", "asked", "no", "applied", "withdrawn"}]
      BY <1>0, <1>2 DEF Return, TypeOK, Invalidated
    <2>3. job' \in [open : BOOLEAN, known : BOOLEAN, eligible : BOOLEAN]
      BY <1>0, <1>2 DEF Return, TypeOK
    <2>4. TypeOK'
      BY <1>0, <1>2, <2>1, <2>2, <2>3 DEF Return, TypeOK
    <2>5. QED
      BY <1>0, <1>2, <2>1, <2>4, FormStep DEF Return, serving
  <1>3. CASE Withdraw
    <2>1. TypeOK'
      BY <1>0, <1>3 DEF Withdraw, TypeOK, Invalidated
    <2>2. Used' = Used /\ CreatedKeys' = CreatedKeys
      BY <1>3 DEF Withdraw, Used, Recorded, CreatedKeys
    <2>3. QED
      BY <1>0, <1>3, <2>1, <2>2 DEF Withdraw, TypeInv, KeyInv
  <1>4. CASE ReadMine
    <2>1. TypeOK'
      BY <1>0, <1>4 DEF ReadMine, TypeOK
    <2>2. QED
      BY <1>0, <1>4, <2>1, FormStep DEF ReadMine, serving, KeyInv
  <1>5. CASE ShowMine
    <2>1. TypeOK'
      BY <1>0, <1>5 DEF ShowMine, TypeOK
    <2>2. QED
      BY <1>0, <1>5, <2>1, FormStep DEF ShowMine, serving, KeyInv
  <1>6. CASE CloseJob
    <2>1. TypeOK'
      BY <1>0, <1>6 DEF CloseJob, TypeOK
    <2>2. QED
      BY <1>0, <1>6, <2>1, FormStep DEF CloseJob, serving, KeyInv
  <1>7. QED
    BY <1>1, <1>2, <1>3, <1>4, <1>5, <1>6

\* The request of the form, as the type has it.
Request == [pc : {"idle", "sent", "working", "answered"}, key : KeyNumbers, text : Texts,
            answer : Answers \cup {None}]

\* The request is answered, by somebody or by nobody.
LEMMA AnsweredIs ==
  ASSUME TypeOK, NEW answer \in Answers, Answered(answer)
  PROVE  /\ post' \in Request /\ post'.pc = "answered" /\ post'.answer = answer
         /\ post'.key = post.key /\ post'.text = post.text
  BY DEF TypeOK, Answered, Request

LEMMA ReplyIs ==
  ASSUME TypeOK, NEW h, NEW answer \in Answers, Reply(h, answer)
  PROVE  /\ post' \in Request /\ post'.key = post.key /\ post'.text = post.text
         /\ post'.pc # "idle" => post.pc # "idle"
         /\ IsOf(h) => post'.pc = "answered" /\ post'.answer \in {answer, "nothing"}
         /\ ~IsOf(h) => post' = post
  <1>1. CASE IsOf(h)
    <2>1. (Answered(answer) \/ Answered("nothing")) /\ post.pc = "working" /\ "nothing" \in Answers
      BY <1>1 DEF Reply, IsOf, Answers
    <2>2. QED
      BY <1>1, <2>1, AnsweredIs
  <1>2. CASE ~IsOf(h)
    <2>1. post' = post
      BY <1>2 DEF Reply
    <2>2. QED
      BY <1>2, <2>1 DEF TypeOK, Request
  <1>3. QED
    BY <1>1, <1>2

\* What the server may keep for a key.
Kept == {None, "in progress", "created", "refused", "duplicate", "closed"}

\* A step of the server that leaves the form alone.
LEMMA ServerTypes ==
  ASSUME TypeOK, UNCHANGED <<text, edits, current, posts, draft, page, job, stage, mine>>,
         post' \in Request, handlers' \subseteq [key : KeyNumbers, text : Texts],
         record' \in [KeyNumbers -> Kept], created' \in [Texts -> 0 .. MaxPosts]
  PROVE  TypeOK'
  BY DEF TypeOK, Request, Kept

\* A request that does not get through, or whose answer does not.
LEMMA LostType == ASSUME ConstantsOK, TypeInv, LoseRequest \/ Drop PROVE TypeInv'
  <1>0. TypeOK /\ KeyInv
    BY DEF TypeInv
  <1>1. /\ Answered("nothing") /\ post.pc \in {"sent", "working"} /\ "nothing" \in Answers
        /\ UNCHANGED <<text, edits, current, posts, handlers, record, created, draft, page, job, stage, mine>>
    BY DEF LoseRequest, Drop, Answers
  <1>2. post' \in Request /\ post'.key = post.key
    BY <1>0, <1>1, AnsweredIs
  <1>3. TypeOK'
    BY <1>0, <1>1, <1>2, ServerTypes DEF TypeOK, Kept
  <1>4. QED
    BY <1>0, <1>1, <1>2, <1>3, FormStep DEF serving, KeyInv

\* A request arrives: its key is claimed, or what is kept for it is the answer.
LEMMA ArriveIs ==
  ASSUME ConstantsOK, TypeInv, Arrive
  PROVE  /\ post' \in Request /\ post'.key = post.key /\ post'.text = post.text
         /\ post.pc = "sent" /\ post.key # 0
         /\ UNCHANGED <<text, edits, current, posts, created, draft, page, job, stage, mine>>
         /\ \/ /\ record[post.key] = None /\ post'.pc = "working" /\ post'.answer = post.answer
               /\ record' = [record EXCEPT ![post.key] = "in progress"]
               /\ handlers' = handlers \cup {[key |-> post.key, text |-> post.text]}
            \/ /\ record[post.key] # None /\ UNCHANGED <<record, handlers>>
               /\ post'.pc = "answered" /\ post'.answer \in {record[post.key], "nothing"}
  <1>0. /\ TypeOK /\ KeyInv /\ post.pc = "sent" /\ post.key # 0
        /\ UNCHANGED <<text, edits, current, posts, created, draft, page, job, stage, mine>>
    BY DEF TypeInv, KeyInv, Arrive
  <1>1. CASE record[post.key] = None
    <2>1. /\ record' = [record EXCEPT ![post.key] = "in progress"]
          /\ handlers' = handlers \cup {[key |-> post.key, text |-> post.text]}
          /\ post' = [post EXCEPT !.pc = "working"]
      <3>1. None # "in progress"
        BY DEF ConstantsOK, Answers
      <3>2. QED
        BY <1>1, <3>1 DEF Arrive
    <2>2. post \in Request
      BY <1>0 DEF TypeOK, Request
    <2>3. post' \in Request /\ post'.key = post.key /\ post'.text = post.text /\ post'.pc = "working"
          /\ post'.answer = post.answer
      BY <2>1, <2>2 DEF Request
    <2>4. QED
      BY <1>0, <1>1, <2>1, <2>3
  <1>2. CASE record[post.key] # None
    <2>1. record[post.key] \in Answers /\ "nothing" \in Answers
      BY <1>0, <1>2 DEF TypeOK, Answers
    <2>2. /\ UNCHANGED <<record, handlers>>
          /\ Answered(record[post.key]) \/ Answered("nothing")
      BY <1>2 DEF Arrive
    <2>3. QED
      BY <1>0, <1>2, <2>1, <2>2, AnsweredIs
  <1>3. QED
    BY <1>1, <1>2

LEMMA ArriveType == ASSUME ConstantsOK, TypeInv, Arrive PROVE TypeInv'
  <1>0. TypeOK /\ KeyInv
    BY DEF TypeInv
  <1>1. record \in [KeyNumbers -> Kept] /\ post.key \in KeyNumbers /\ post.text \in Texts
        /\ handlers \subseteq [key : KeyNumbers, text : Texts] /\ created \in [Texts -> 0 .. MaxPosts]
    BY <1>0 DEF TypeOK, Kept
  <1>2. None \notin {"in progress", "created"}
    BY DEF ConstantsOK, Answers
  <1>3. CASE /\ record[post.key] = None /\ post'.pc = "working"
             /\ record' = [record EXCEPT ![post.key] = "in progress"]
             /\ handlers' = handlers \cup {[key |-> post.key, text |-> post.text]}
    <2>1. TypeOK'
      <3>1. record' \in [KeyNumbers -> Kept] /\ handlers' \subseteq [key : KeyNumbers, text : Texts]
        <4>1. [key |-> post.key, text |-> post.text] \in [key : KeyNumbers, text : Texts]
          BY <1>1
        <4>2. "in progress" \in Kept
          BY DEF Kept
        <4>3. QED
          BY <1>1, <1>3, <4>1, <4>2
      <3>2. QED
        BY <1>0, <1>1, <3>1, ArriveIs, ServerTypes
    <2>2. Used' = Used /\ CreatedKeys' = CreatedKeys
      BY <1>1, <1>2, <1>3, ArriveIs DEF Used, Recorded, CreatedKeys
    <2>3. \A h \in handlers : h.key # post.key /\ record'[h.key] = "in progress" /\ h.key \in KeyNumbers
      BY <1>0, <1>1, <1>2, <1>3 DEF KeyInv
    <2>4. record'[post.key] = "in progress"
      BY <1>1, <1>3
    <2>5. /\ \A h \in handlers' : record'[h.key] = "in progress"
          /\ \A h, i \in handlers' : h.key = i.key => h = i
      <3> DEFINE new == [key |-> post.key, text |-> post.text]
      <3>1. new.key = post.key /\ handlers' = handlers \cup {new}
        BY <1>3
      <3>2. \A h, i \in handlers : h.key = i.key => h = i
        BY <1>0 DEF KeyInv
      <3> HIDE DEF new
      <3>3. QED
        BY <2>3, <2>4, <3>1, <3>2
    <2>6. KeyInv'
      BY <1>0, <2>2, <2>5, ArriveIs DEF KeyInv
    <2>7. QED
      BY <2>1, <2>6 DEF TypeInv
  <1>4. CASE UNCHANGED <<record, handlers>>
    <2>1. TypeOK'
      BY <1>0, <1>1, <1>4, ArriveIs, ServerTypes
    <2>2. QED
      BY <1>0, <1>4, <2>1, ArriveIs, FormStep DEF serving, KeyInv
  <1>5. QED
    BY <1>3, <1>4, ArriveIs

\* The end of a request on the server: its record, its answer, and what it made.
LEMMA EndIs ==
  ASSUME ConstantsOK, TypeInv, NEW h \in handlers, Finish(h) \/ Fail(h)
  PROVE  /\ handlers' = handlers \ {h}
         /\ UNCHANGED <<text, edits, current, posts, draft, page, job, stage, mine>>
         /\ post' \in Request /\ post'.key = post.key /\ post'.text = post.text
         /\ post'.pc # "idle" => post.pc # "idle"
         /\ ~IsOf(h) => post' = post
         /\ IsOf(h) => post'.pc = "answered"
         /\ \/ /\ Fail(h) /\ record' = [record EXCEPT ![h.key] = None] /\ created' = created
               /\ IsOf(h) => Unanswered(post'.answer)
            \/ \E outcome \in {Outcome, "refused"} :
                 /\ outcome \in {"created", "refused", "duplicate", "closed"}
                 /\ record' = [record EXCEPT ![h.key] = outcome]
                 /\ created' = IF outcome = "created" THEN [created EXCEPT ![h.text] = @ + 1] ELSE created
                 /\ IsOf(h) => post'.answer \in {outcome, "nothing"}
  <1>0. TypeOK
    BY DEF TypeInv
  <1>1. CASE Fail(h)
    <2>1. /\ Reply(h, "server error") /\ "server error" \in Answers
          /\ record' = [record EXCEPT ![h.key] = None] /\ handlers' = handlers \ {h}
          /\ UNCHANGED <<text, edits, current, posts, created, draft, page, job, stage, mine>>
      BY <1>1 DEF Fail, Answers
    <2>2. QED
      BY <1>0, <1>1, <2>1, ReplyIs DEF Unanswered
  <1>2. CASE Finish(h)
    <2>1. PICK outcome \in {Outcome, "refused"} :
            /\ created' = IF outcome = "created" THEN [created EXCEPT ![h.text] = @ + 1] ELSE created
            /\ record' = [record EXCEPT ![h.key] = outcome]
            /\ Reply(h, outcome)
      BY <1>2 DEF Finish
    <2>2. outcome \in {"created", "refused", "duplicate", "closed"} /\ outcome \in Answers
      BY DEF Outcome, Answers
    <2>3. /\ handlers' = handlers \ {h}
          /\ UNCHANGED <<text, edits, current, posts, draft, page, job, stage, mine>>
      BY <1>2 DEF Finish
    <2>4. QED
      BY <1>0, <2>1, <2>2, <2>3, ReplyIs
  <1>3. QED
    BY <1>1, <1>2

LEMMA EndType ==
  ASSUME ConstantsOK, TypeInv, NEW h \in handlers, Finish(h) \/ Fail(h)
  PROVE  TypeInv'
  <1>0. TypeOK /\ KeyInv
    BY DEF TypeInv
  <1>1. /\ handlers' = handlers \ {h} /\ posts' = posts /\ current' = current
        /\ UNCHANGED <<text, edits, current, posts, draft, page, job, stage, mine>>
        /\ post' \in Request /\ post'.key = post.key
        /\ post'.pc # "idle" => post.pc # "idle"
    BY EndIs
  <1>2. PICK kept \in {None, "created", "refused", "duplicate", "closed"} :
          /\ record' = [record EXCEPT ![h.key] = kept]
          /\ created' = IF kept = "created" THEN [created EXCEPT ![h.text] = @ + 1] ELSE created
    <2>1. None # "created"
      BY DEF ConstantsOK, Answers
    <2>2. QED
      BY <2>1, EndIs
  <1>3. /\ record \in [KeyNumbers -> Kept] /\ created \in [Texts -> 0 .. MaxPosts]
        /\ handlers \subseteq [key : KeyNumbers, text : Texts]
        /\ h.key \in KeyNumbers /\ h.text \in Texts
    BY <1>0 DEF TypeOK, Kept
  <1>4. record[h.key] = "in progress" /\ None \notin {"in progress", "created"}
    BY <1>0 DEF KeyInv, ConstantsOK, Answers
  <1>5. Used' \subseteq Used
    <2>1. \A k \in KeyNumbers : record'[k] # None => record[k] # None
      BY <1>2, <1>3, <1>4
    <2>2. post'.key = post.key
      BY <1>1
    <2>3. QED
      BY <2>1, <2>2 DEF Used, Recorded
  <1>6. CreatedKeys' = IF kept = "created" THEN CreatedKeys \cup {h.key} ELSE CreatedKeys
    BY <1>2, <1>3, <1>4 DEF CreatedKeys
  <1>7. h.key \notin CreatedKeys
    BY <1>4 DEF CreatedKeys
  <1>8. /\ IsFiniteSet(Used) /\ Cardinality(Used) \in Nat /\ Cardinality(Used) <= posts
        /\ IsFiniteSet(CreatedKeys) /\ Cardinality(CreatedKeys) \in Nat
    BY <1>0, UsedIsFinite DEF KeyInv
  <1>9. IsFiniteSet(Used') /\ Cardinality(Used') <= Cardinality(Used) /\ Cardinality(Used') \in Nat
    BY <1>5, <1>8, FS_Subset, FS_CardinalityType
  <1>10. Cardinality(CreatedKeys') = IF kept = "created" THEN Cardinality(CreatedKeys) + 1
                                                         ELSE Cardinality(CreatedKeys)
    BY <1>6, <1>7, <1>8, FS_AddElement
  <1>11. Cardinality(CreatedKeys') <= Cardinality(Used')
    <2>1. CreatedKeys' \subseteq Used'
      BY <1>2, <1>3, <1>4 DEF CreatedKeys, Used, Recorded
    <2>2. QED
      BY <2>1, <1>9, FS_Subset
  <1>12. \A t \in Texts : created'[t] <= Cardinality(CreatedKeys') /\ created'[t] \in Nat
    <2>1. \A t \in Texts : created[t] <= Cardinality(CreatedKeys) /\ created[t] \in Nat
      BY <1>0, CountsAre DEF KeyInv
    <2>2. CASE kept = "created"
      <3>1. Cardinality(CreatedKeys') = Cardinality(CreatedKeys) + 1
            /\ created' = [created EXCEPT ![h.text] = @ + 1]
        BY <1>2, <1>10, <2>2
      <3>2. \A t \in Texts : created'[t] \in {created[t], created[t] + 1}
        BY <1>3, <3>1
      <3>3. QED
        BY <1>8, <2>1, <3>1, <3>2
    <2>3. CASE kept # "created"
      BY <1>2, <1>10, <2>1, <2>3
    <2>4. QED
      BY <2>2, <2>3
  <1>13. created' \in [Texts -> 0 .. MaxPosts]
    <2>1. \A t \in Texts : created'[t] \in 0 .. MaxPosts
      <3>1. posts \in Nat /\ MaxPosts \in Nat /\ posts <= MaxPosts /\ Cardinality(CreatedKeys') \in Nat
        BY <1>0, <1>8, <1>10, CountsAre
      <3>2. Cardinality(CreatedKeys') <= MaxPosts
        BY <1>8, <1>9, <1>11, <3>1
      <3>3. QED
        BY <1>12, <3>1, <3>2
    <2>2. created' = [t \in Texts |-> created'[t]]
      BY <1>2, <1>3
    <2>3. QED
      BY <2>1, <2>2
  <1>14. TypeOK'
    <2>1. record' \in [KeyNumbers -> Kept] /\ handlers' \subseteq [key : KeyNumbers, text : Texts]
      BY <1>1, <1>2, <1>3 DEF Kept
    <2>2. QED
      <3>1. UNCHANGED <<text, edits, current, posts, draft, page, job, stage, mine>> /\ post' \in Request
        BY <1>1
      <3>2. QED
        BY <1>0, <1>13, <2>1, <3>1, ServerTypes
  <1>15. KeyInv'
    <2>1. /\ \A i \in handlers' : record'[i.key] = "in progress"
          /\ \A i, j \in handlers' : i.key = j.key => i = j
      BY <1>0, <1>1, <1>2, <1>3 DEF KeyInv
    <2>2. Cardinality(Used') <= posts'
      <3>1. posts \in Nat
        BY <1>0, CountsAre
      <3>2. QED
        BY <1>1, <1>8, <1>9, <3>1
    <2>3. QED
      <3>1. current'.key # 0 /\ (post'.pc # "idle" => post'.key # 0)
        BY <1>0, <1>1 DEF KeyInv
      <3>2. \A t \in Texts : created'[t] <= Cardinality(CreatedKeys')
        BY <1>12
      <3>3. QED
        BY <2>1, <2>2, <3>1, <3>2 DEF KeyInv
  <1>16. QED
    BY <1>14, <1>15 DEF TypeInv

LEMMA InitType == ASSUME ConstantsOK, Init PROVE TypeInv
  <1>1. TypeOK
    <2>1. 0 \in 0 .. MaxPosts
      BY NumbersAre
    <2>2. QED
      BY <2>1, NumbersAre DEF Init, TypeOK, NoPost
  <1>2. Used = {} /\ CreatedKeys = {}
    BY DEF Init, Used, Recorded, CreatedKeys, NoPost, ConstantsOK, Answers
  <1>3. KeyInv
    BY <1>2, FS_EmptySet DEF Init, KeyInv, NoPost
  <1>4. QED
    BY <1>1, <1>3 DEF TypeInv

LEMMA TypeStep == ASSUME ConstantsOK, TypeInv, [Next]_vars PROVE TypeInv'
  <1>1. CASE UNCHANGED vars
    <2>1. TypeOK'
      <3>1. TypeOK
        BY DEF TypeInv
      <3>2. /\ post' \in Request /\ record' \in [KeyNumbers -> Kept] /\ created' \in [Texts -> 0 .. MaxPosts]
            /\ handlers' \subseteq [key : KeyNumbers, text : Texts]
        BY <1>1, <3>1 DEF vars, TypeOK, Request, Kept
      <3>3. QED
        BY <1>1, <3>1, <3>2, ServerTypes DEF vars
    <2>2. Used' = Used /\ CreatedKeys' = CreatedKeys
      BY <1>1 DEF vars, Used, Recorded, CreatedKeys
    <2>3. KeyInv'
      BY <1>1, <2>2 DEF vars, TypeInv, KeyInv
    <2>4. QED
      BY <2>1, <2>3 DEF TypeInv
  <1>2. CASE Next
    BY <1>2, TypeType, SubmitType, HearType, PageType, LostType, ArriveType, EndType DEF Next
  <1>3. QED
    BY <1>1, <1>2

LEMMA TypesHold == ASSUME ConstantsOK PROVE Spec => []TypeInv
  <1>1. Init => TypeInv
    BY InitType
  <1>2. TypeInv /\ [Next]_vars => TypeInv'
    BY TypeStep
  <1>3. QED
    BY <1>1, <1>2, PTL DEF Spec

\* Every variable keeps its type, for any numbers of edits and requests: among them that there
\* is always a key that nobody has used.
THEOREM TypeCorrect == ASSUME ConstantsOK PROVE Spec => []TypeOK
  <1>1. TypeInv => TypeOK
    BY DEF TypeInv
  <1>2. QED
    BY <1>1, TypesHold, PTL

-----------------------------------------------------------------------------
(* A job from the editor, while no connection drops under the server.      *)

\* What the invariants of a job read.
jobVars == <<text, edits, current, post, handlers, record, created, page>>

LEMMA JobTypeStep ==
  ASSUME ConstantsOK, Sends = "job", ~Drops, TypeInv, JobInv, DoneOnce, Type
  PROVE  JobInv' /\ DoneOnce'
  <1>0. TypeOK /\ edits + 1 \in Texts /\ edits \in Nat /\ \A t \in Texts : t \in Nat
    <2>1. TypeOK
      BY DEF TypeInv
    <2>2. QED
      BY <2>1, CountsAre DEF Type, Texts
  <1>1. /\ page = "form" /\ ~Pending /\ text' = edits + 1 /\ edits' = edits + 1
        /\ UNCHANGED <<post, posts, handlers, record, created, page>>
    BY DEF Type
  <1>2. current'.input = edits + 1
    BY <1>0, RenderedIs DEF Type
  <1>3. created[edits + 1] = 0 /\ \A t \in Texts : t > edits + 1 => created[t] = 0
    <2>1. \A t \in Texts : t > edits => created[t] = 0
      BY DEF JobInv
    <2>2. QED
      BY <1>0, <2>1
  <1>4. post.pc = "idle"
    BY <1>1 DEF Pending
  <1>5. JobInv'
    BY <1>1, <1>2, <1>3, <1>4 DEF JobInv, Pending
  <1>6. QED
    BY <1>1, <1>5 DEF DoneOnce

LEMMA JobSubmitStep ==
  ASSUME ConstantsOK, Sends = "job", ~Drops, TypeInv, JobInv, DoneOnce, Submit
  PROVE  JobInv' /\ DoneOnce'
  <1>1. /\ page = "form" /\ ~Pending
        /\ post' = [pc |-> "sent", key |-> current.key, text |-> text, answer |-> None]
        /\ UNCHANGED <<text, edits, current, handlers, record, created, page>>
    BY DEF Submit
  <1>2. handlers = {} /\ post'.pc = "sent" /\ post'.key = current.key /\ post'.text = text
    BY <1>1 DEF JobInv, Pending
  <1>3. JobInv'
    BY <1>1, <1>2 DEF JobInv, Pending
  <1>4. QED
    BY <1>1, <1>3 DEF DoneOnce

LEMMA JobHearStep ==
  ASSUME ConstantsOK, Sends = "job", ~Drops, TypeInv, JobInv, DoneOnce, Hear
  PROVE  JobInv' /\ DoneOnce'
  <1>0. TypeOK
    BY DEF TypeInv
  <1>1. /\ post.pc = "answered" /\ page = "form" /\ post' = NoPost
        /\ Rendered(settle(post.answer), text)
        /\ page' = IF post.answer = "created" THEN "done" ELSE page
        /\ UNCHANGED <<text, edits, handlers, record, created>>
    BY DEF Hear, JobInv, Pending
  <1>2. settle(post.answer) \in {current, None} /\ text \in Texts
    BY <1>0 DEF settle, TypeOK
  <1>3. handlers = {} /\ current.input = text /\ post.key = current.key
    BY <1>1 DEF JobInv, Pending
  <1>4. current'.input = text
    BY <1>1, <1>2, RenderedIs
  <1>5. ASSUME page' = "form", created[text] # 0
        PROVE  created[text] = 1 /\ record[current'.key] = "created"
    <2>1. created[text] = 1 /\ record[current.key] = "created" /\ post.answer # "created"
      BY <1>1, <1>5 DEF JobInv
    <2>2. Unanswered(post.answer)
      BY <1>1, <1>3, <2>1 DEF JobInv
    <2>3. current' = current
      BY <1>1, <1>2, <1>3, <2>2, RenderedIs DEF settle
    <2>4. QED
      BY <2>1, <2>3
  <1>6. post'.pc = "idle"
    BY <1>1 DEF NoPost
  <1>7. JobInv'
    BY <1>1, <1>3, <1>4, <1>5, <1>6 DEF JobInv, Pending
  <1>8. QED
    BY <1>1, <1>7 DEF DoneOnce

LEMMA JobArriveStep ==
  ASSUME ConstantsOK, Sends = "job", ~Drops, TypeInv, JobInv, DoneOnce, Arrive
  PROVE  JobInv' /\ DoneOnce'
  <1>0. TypeOK /\ None \notin {"in progress", "created"}
    BY DEF TypeInv, ConstantsOK, Answers
  <1>1. /\ post.pc = "sent" /\ post'.key = post.key /\ post'.text = post.text
        /\ UNCHANGED <<text, edits, current, created, page>>
    BY ArriveIs
  <1>2. /\ handlers = {} /\ page = "form" /\ post.text = text /\ post.key = current.key
        /\ post.key \in KeyNumbers /\ record \in [KeyNumbers -> Kept]
    BY <1>0, <1>1 DEF JobInv, Pending, TypeOK, Kept
  <1>3. CASE /\ record[post.key] = None /\ post'.pc = "working"
             /\ record' = [record EXCEPT ![post.key] = "in progress"]
             /\ handlers' = handlers \cup {[key |-> post.key, text |-> post.text]}
    <2>1. handlers' = {[key |-> post'.key, text |-> post'.text]}
      BY <1>1, <1>2, <1>3
    <2>2. \A k \in KeyNumbers : record'[k] = "in progress" => k = post.key
      BY <1>2, <1>3 DEF JobInv
    <2>3. created[text] = 0
      BY <1>0, <1>2, <1>3 DEF JobInv
    <2>4. JobInv'
      <3>1. \A k \in KeyNumbers : record'[k] = "in progress" => \E h \in handlers' : h.key = k
        BY <1>1, <2>1, <2>2
      <3>2. page' # "away" /\ text' = edits' /\ \A t \in Texts : t > edits' => created'[t] = 0
        BY <1>1 DEF JobInv
      <3>3. page' = "form" => current'.input = text' /\ created'[text'] = 0
        BY <1>1, <2>3 DEF JobInv
      <3>4. post'.text = text' /\ post'.key = current'.key
        BY <1>1, <1>2
      <3>5. QED
        BY <1>1, <1>2, <1>3, <2>1, <3>1, <3>2, <3>3, <3>4 DEF JobInv
    <2>5. QED
      BY <1>1, <2>4 DEF DoneOnce
  <1>4. CASE /\ UNCHANGED <<record, handlers>> /\ post'.pc = "answered"
             /\ post'.answer \in {record[post.key], "nothing"}
    <2>1. JobInv'
      BY <1>1, <1>2, <1>4 DEF JobInv, Pending, Unanswered
    <2>2. QED
      BY <1>1, <2>1 DEF DoneOnce
  <1>5. QED
    BY <1>3, <1>4, ArriveIs

LEMMA JobLoseStep ==
  ASSUME ConstantsOK, Sends = "job", ~Drops, TypeInv, JobInv, DoneOnce, LoseRequest
  PROVE  JobInv' /\ DoneOnce'
  <1>0. TypeOK /\ "nothing" \in Answers
    BY DEF TypeInv, Answers
  <1>1. /\ post.pc = "sent" /\ Answered("nothing")
        /\ UNCHANGED <<text, edits, current, handlers, record, created, page>>
    BY DEF LoseRequest
  <1>2. /\ post'.pc = "answered" /\ post'.answer = "nothing"
        /\ post'.key = post.key /\ post'.text = post.text
    BY <1>0, <1>1, AnsweredIs
  <1>3. JobInv'
    BY <1>1, <1>2 DEF JobInv, Pending, Unanswered
  <1>4. QED
    BY <1>1, <1>3 DEF DoneOnce

\* The server answers the request of the form, which is the only one it has.
LEMMA JobEndStep ==
  ASSUME ConstantsOK, Sends = "job", ~Drops, TypeInv, JobInv, DoneOnce,
         NEW h \in handlers, Finish(h) \/ Fail(h)
  PROVE  JobInv' /\ DoneOnce'
  <1>0. TypeOK /\ KeyInv /\ None \notin {"in progress", "created"}
    BY DEF TypeInv, ConstantsOK, Answers
  <1>1. post.pc = "working" /\ h = [key |-> post.key, text |-> post.text] /\ handlers = {h}
    BY DEF JobInv
  <1>2. IsOf(h) /\ h.key = post.key /\ h.text = post.text
    BY <1>1 DEF IsOf
  <1>3. /\ page = "form" /\ post.text = text /\ post.key = current.key /\ text = edits
        /\ record[post.key] = "in progress" /\ created[text] = 0 /\ current.input = text
    BY <1>0, <1>1, <1>2 DEF JobInv, KeyInv, Pending
  <1>4. /\ post.key \in KeyNumbers /\ record \in [KeyNumbers -> Kept] /\ text \in Texts
        /\ created \in [Texts -> 0 .. MaxPosts] /\ text \in Nat /\ \A t \in Texts : t \in Nat
    BY <1>0, CountsAre DEF TypeOK, Kept
  <1>5. /\ handlers' = {} /\ post'.pc = "answered" /\ post'.key = post.key /\ post'.text = post.text
        /\ UNCHANGED <<text, edits, current, page>>
    BY <1>1, <1>2, EndIs
  <1>6. PICK kept \in {None, "created", "refused", "duplicate", "closed"} :
          /\ record' = [record EXCEPT ![post.key] = kept]
          /\ created' = IF kept = "created" THEN [created EXCEPT ![text] = @ + 1] ELSE created
          /\ Unanswered(post'.answer) \/ post'.answer = kept
    <2>1. CASE Fail(h) /\ record' = [record EXCEPT ![h.key] = None] /\ created' = created
               /\ Unanswered(post'.answer)
      BY <1>0, <1>2, <2>1
    <2>2. ASSUME NEW outcome \in {"created", "refused", "duplicate", "closed"},
                 record' = [record EXCEPT ![h.key] = outcome],
                 created' = IF outcome = "created" THEN [created EXCEPT ![h.text] = @ + 1] ELSE created,
                 post'.answer \in {outcome, "nothing"}
          PROVE  \E kept \in {None, "created", "refused", "duplicate", "closed"} :
                   /\ record' = [record EXCEPT ![post.key] = kept]
                   /\ created' = IF kept = "created" THEN [created EXCEPT ![text] = @ + 1] ELSE created
                   /\ Unanswered(post'.answer) \/ post'.answer = kept
      BY <1>2, <1>3, <2>2 DEF Unanswered
    <2>3. QED
      BY <1>2, <2>1, <2>2, EndIs
  <1>7. record'[post.key] = kept /\ \A k \in KeyNumbers : record'[k] # "in progress"
    <2>1. record'[post.key] = kept /\ \A k \in KeyNumbers : k # post.key => record'[k] = record[k]
      BY <1>4, <1>6
    <2>2. \A k \in KeyNumbers : record[k] = "in progress" => k = post.key
      BY <1>1, <1>2 DEF JobInv
    <2>3. QED
      BY <1>0, <2>1, <2>2
  <1>8. /\ created'[text] = IF kept = "created" THEN 1 ELSE 0
        /\ \A t \in Texts : t # text => created'[t] = created[t]
    <2>1. CASE kept = "created"
      <3>1. created' = [created EXCEPT ![text] = created[text] + 1] /\ created[text] = 0
        BY <1>3, <1>6, <2>1
      <3>2. QED
        BY <1>4, <2>1, <3>1
    <2>2. CASE kept # "created"
      BY <1>3, <1>6, <2>2
    <2>3. QED
      BY <2>1, <2>2
  <1>9. \A t \in Texts : t > edits => created'[t] = 0
    <2>1. \A t \in Texts : t > text => created[t] = 0
      BY <1>3 DEF JobInv
    <2>2. \A t \in Texts : t > edits => t # text /\ t > text
      <3>1. text = edits /\ text \in Nat /\ \A t \in Texts : t \in Nat
        BY <1>3, <1>4
      <3>2. QED
        BY <3>1
    <2>3. QED
      BY <1>8, <2>1, <2>2
  <1>10. JobInv'
    BY <1>3, <1>5, <1>6, <1>7, <1>8, <1>9 DEF JobInv, Pending
  <1>11. DoneOnce'
    BY <1>8 DEF DoneOnce
  <1>12. QED
    BY <1>10, <1>11

LEMMA JobStep ==
  ASSUME ConstantsOK, Sends = "job", ~Drops, TypeInv, JobInv, DoneOnce, [Next]_vars
  PROVE  JobInv' /\ DoneOnce'
  <1>1. CASE UNCHANGED jobVars
    BY <1>1 DEF jobVars, JobInv, DoneOnce, Pending
  <1>2. CASE UNCHANGED vars \/ Withdraw \/ ReadMine \/ ShowMine \/ CloseJob
    BY <1>1, <1>2 DEF vars, jobVars, Withdraw, ReadMine, ShowMine, CloseJob
  <1>3. ~Leave /\ ~Return /\ ~Drop
    BY DEF Leave, Return, Drop, JobInv
  <1>4. QED
    BY <1>2, <1>3, JobTypeStep, JobSubmitStep, JobHearStep, JobArriveStep, JobLoseStep, JobEndStep DEF Next

-----------------------------------------------------------------------------
(* An application from the job's page, whatever connections do.            *)

SafeInv == ApplicationInv /\ LetterSurvives /\ DoneOnce

\* What the invariants of an application read.
applicationVars == <<text, edits, post, record, created, draft, page, mine>>

LEMMA ApplicationTypeStep ==
  ASSUME ConstantsOK, Sends = "application", TypeInv, SafeInv, Type
  PROVE  SafeInv'
  <1>0. edits \in Nat
    BY CountsAre DEF TypeInv
  <1>1. /\ text' = edits + 1 /\ edits' = edits + 1 /\ draft' = edits + 1 /\ edits + 1 # 0
        /\ UNCHANGED <<post, record, created, page, mine>>
    BY <1>0 DEF Type
  <1>2. QED
    BY <1>1 DEF SafeInv, ApplicationInv, LetterSurvives, DoneOnce, Exists

LEMMA ApplicationHearStep ==
  ASSUME ConstantsOK, Sends = "application", TypeInv, SafeInv, Hear
  PROVE  SafeInv'
  <1>0. TypeOK
    BY DEF TypeInv
  <1>1. /\ post' = NoPost /\ UNCHANGED <<text, edits, record, created, page>> /\ Exists' = Exists
        /\ draft' = IF page = "form" /\ post.answer \in {"created", "duplicate"} THEN 0 ELSE draft
    BY DEF Hear, Exists
  <1>2. post'.answer \notin {"created", "duplicate"}
    BY <1>1 DEF NoPost, ConstantsOK, Answers
  <1>3. CASE page = "form" /\ post.answer \in {"created", "duplicate"}
    <2>1. Exists
      BY <1>3 DEF SafeInv, ApplicationInv
    <2>2. mine' = Invalidated \/ mine' = [Invalidated EXCEPT !.submitted = (page = "form")]
      BY <1>3 DEF Hear
    <2>3. mine'.fetch = "asked"
      BY <1>0, <2>2 DEF Invalidated, TypeOK
    <2>4. QED
      BY <1>1, <1>2, <2>1, <2>3 DEF SafeInv, ApplicationInv, LetterSurvives, DoneOnce
  <1>4. CASE ~(page = "form" /\ post.answer \in {"created", "duplicate"})
    <2>1. draft' = draft
      BY <1>1, <1>4
    <2>2. mine' = mine \/ mine'.fetch = "asked"
      <3>1. \/ mine' = mine \/ mine' = Invalidated
            \/ mine' = [Invalidated EXCEPT !.submitted = (page = "form")]
        BY DEF Hear
      <3>2. QED
        BY <1>0, <3>1 DEF Invalidated, TypeOK
    <2>3. QED
      BY <1>1, <1>2, <2>1, <2>2 DEF SafeInv, ApplicationInv, LetterSurvives, DoneOnce
  <1>5. QED
    BY <1>3, <1>4

\* The page, and the list of the candidate's own applications.
LEMMA ApplicationPageStep ==
  ASSUME ConstantsOK, Sends = "application", TypeInv, SafeInv,
         Leave \/ Return \/ Withdraw \/ ReadMine \/ ShowMine
  PROVE  SafeInv'
  <1>0. TypeOK
    BY DEF TypeInv
  <1>1. UNCHANGED <<edits, post, record, created, draft>> /\ Exists' = Exists
    BY DEF Leave, Return, Withdraw, ReadMine, ShowMine, Exists
  <1>2. LetterSurvives'
    <2>1. page' = "form" => (page = "form" /\ text' = text) \/ text' = draft
      BY DEF Leave, Return, Withdraw, ReadMine, ShowMine
    <2>2. QED
      BY <1>1, <2>1 DEF SafeInv, LetterSurvives
  <1>3. \/ mine'.fetch = "asked"
        \/ mine'.fetch = mine.fetch /\ mine'.has = mine.has
        \/ mine'.fetch = (IF Exists THEN stage ELSE "no")
        \/ mine.fetch \notin {"idle", "asked"} /\ mine'.fetch = "idle" /\ mine'.has = mine.fetch
    <2>1. mine \in [has : {"no", "applied", "withdrawn"}, submitted : BOOLEAN,
                    fetch : {"idle", "asked", "no", "applied", "withdrawn"}]
      BY <1>0 DEF TypeOK
    <2>2. CASE Leave
      BY <2>1, <2>2 DEF Leave
    <2>3. CASE Return \/ Withdraw
      BY <2>1, <2>3 DEF Return, Withdraw, Invalidated
    <2>4. CASE ReadMine
      BY <2>1, <2>4 DEF ReadMine
    <2>5. CASE ShowMine
      BY <2>1, <2>5 DEF ShowMine
    <2>6. QED
      BY <2>2, <2>3, <2>4, <2>5
  <1>4. ApplicationInv'
    <2>1. stage \notin {"no", "idle"}
      BY <1>0 DEF TypeOK
    <2>2. ASSUME edits > 0, draft = 0
          PROVE  Exists /\ mine'.fetch # "no" /\ (mine'.fetch = "idle" => mine'.has # "no")
      BY <1>3, <2>1, <2>2 DEF SafeInv, ApplicationInv
    <2>3. QED
      BY <1>1, <2>2 DEF SafeInv, ApplicationInv
  <1>5. QED
    BY <1>1, <1>2, <1>4 DEF SafeInv, DoneOnce

\* The request, on its way.
LEMMA ApplicationSendStep ==
  ASSUME ConstantsOK, Sends = "application", TypeInv, SafeInv,
         Submit \/ LoseRequest \/ Drop \/ Arrive
  PROVE  SafeInv'
  <1>0. TypeOK /\ "nothing" \in Answers /\ None \notin {"created", "duplicate"}
    BY DEF TypeInv, Answers, ConstantsOK
  <1>1. UNCHANGED <<text, edits, created, draft, page, mine>> /\ Exists' = Exists
    BY DEF Submit, LoseRequest, Drop, Arrive, Exists
  <1>2. /\ post'.answer \in {"created", "duplicate"} => Exists
        /\ \A k \in KeyNumbers : record'[k] \in {"created", "duplicate"} => Exists
    <2>1. CASE Submit
      BY <1>0, <2>1 DEF Submit, SafeInv, ApplicationInv
    <2>2. CASE LoseRequest \/ Drop
      <3>1. Answered("nothing") /\ record' = record
        BY <2>2 DEF LoseRequest, Drop
      <3>2. QED
        BY <1>0, <3>1, AnsweredIs DEF SafeInv, ApplicationInv
    <2>3. CASE Arrive
      <3>1. post.key \in KeyNumbers /\ record \in [KeyNumbers -> Kept]
        BY <1>0 DEF TypeOK, Kept
      <3>2. \/ post'.answer = post.answer /\ record' = [record EXCEPT ![post.key] = "in progress"]
            \/ post'.answer \in {record[post.key], "nothing"} /\ record' = record
        BY <2>3, ArriveIs
      <3>3. QED
        BY <3>1, <3>2 DEF SafeInv, ApplicationInv
    <2>4. QED
      BY <2>1, <2>2, <2>3
  <1>3. QED
    BY <1>1, <1>2 DEF SafeInv, ApplicationInv, LetterSurvives, DoneOnce

\* The server acts, and only if there is no application yet.
LEMMA ApplicationEndStep ==
  ASSUME ConstantsOK, Sends = "application", TypeInv, SafeInv,
         NEW h \in handlers, Finish(h) \/ Fail(h)
  PROVE  SafeInv'
  <1>0. /\ TypeOK /\ None \notin {"created", "duplicate"}
        /\ h.key \in KeyNumbers /\ h.text \in Texts
        /\ record \in [KeyNumbers -> Kept] /\ created \in [Texts -> 0 .. MaxPosts]
        /\ \A t \in Texts : created[t] \in Nat
    <2>1. TypeOK
      BY DEF TypeInv
    <2>2. QED
      BY <2>1, CountsAre DEF TypeOK, Kept, ConstantsOK, Answers
  <1>1. UNCHANGED <<text, edits, draft, page, mine>>
    BY EndIs
  <1>2. PICK kept \in {None, "created", "refused", "duplicate", "closed"} :
          /\ record' = [record EXCEPT ![h.key] = kept]
          /\ created' = IF kept = "created" THEN [created EXCEPT ![h.text] = @ + 1] ELSE created
          /\ kept = "created" => ~Exists
          /\ kept = "duplicate" => Exists
          /\ post'.answer \in {"created", "duplicate"} => post'.answer \in {kept, post.answer}
    <2>1. CASE Fail(h) /\ record' = [record EXCEPT ![h.key] = None] /\ created' = created
      BY <1>0, <2>1, EndIs DEF Fail, Reply, Unanswered
    <2>2. CASE \E outcome \in {Outcome, "refused"} :
                 /\ outcome \in {"created", "refused", "duplicate", "closed"}
                 /\ record' = [record EXCEPT ![h.key] = outcome]
                 /\ created' = IF outcome = "created" THEN [created EXCEPT ![h.text] = @ + 1] ELSE created
                 /\ IsOf(h) => post'.answer \in {outcome, "nothing"}
      <3>1. PICK outcome \in {Outcome, "refused"} :
                 /\ outcome \in {"created", "refused", "duplicate", "closed"}
                 /\ record' = [record EXCEPT ![h.key] = outcome]
                 /\ created' = IF outcome = "created" THEN [created EXCEPT ![h.text] = @ + 1] ELSE created
                 /\ IsOf(h) => post'.answer \in {outcome, "nothing"}
        BY <2>2
      <3>2. (outcome = "created" => ~Exists) /\ (outcome = "duplicate" => Exists)
        BY DEF Outcome
      <3>3. post'.answer \in {"created", "duplicate"} => post'.answer \in {outcome, post.answer}
        BY <3>1, EndIs
      <3>4. QED
        BY <3>1, <3>2, <3>3
    <2>3. QED
      BY <2>1, <2>2, EndIs
  <1>3. \A t \in Texts : created'[t] \in {created[t], created[t] + 1}
    BY <1>0, <1>2
  <1>4. Exists => Exists'
    BY <1>0, <1>3 DEF Exists
  <1>5. kept \in {"created", "duplicate"} => Exists'
    <2>1. kept = "created" => created'[h.text] = created[h.text] + 1
      BY <1>0, <1>2
    <2>2. QED
      BY <1>0, <1>2, <1>4, <2>1 DEF Exists
  <1>6. \A k \in KeyNumbers : record'[k] \in {"created", "duplicate"} => Exists'
    <2>1. \A k \in KeyNumbers : record'[k] = record[k] \/ record'[k] = kept
      BY <1>0, <1>2
    <2>2. QED
      BY <1>4, <1>5, <2>1 DEF SafeInv, ApplicationInv
  <1>7. post'.answer \in {"created", "duplicate"} => Exists'
    BY <1>2, <1>4, <1>5 DEF SafeInv, ApplicationInv
  <1>8. ApplicationInv'
    BY <1>1, <1>4, <1>6, <1>7 DEF SafeInv, ApplicationInv
  <1>9. LetterSurvives'
    BY <1>1, <1>4 DEF SafeInv, LetterSurvives
  <1>10. DoneOnce'
    <2>1. CASE kept = "created"
      <3>1. \A t \in Texts : created[t] = 0
        BY <1>0, <1>2, <2>1 DEF Exists
      <3>2. QED
        BY <1>3, <3>1 DEF DoneOnce
    <2>2. CASE kept # "created"
      BY <1>2, <2>2 DEF SafeInv, DoneOnce
    <2>3. QED
      BY <2>1, <2>2
  <1>11. QED
    BY <1>8, <1>9, <1>10 DEF SafeInv

LEMMA ApplicationStep ==
  ASSUME ConstantsOK, Sends = "application", TypeInv, SafeInv, [Next]_vars
  PROVE  SafeInv'
  <1>1. CASE UNCHANGED vars \/ CloseJob
    <2>1. UNCHANGED applicationVars
      BY <1>1 DEF vars, CloseJob, applicationVars
    <2>2. QED
      BY <2>1 DEF applicationVars, SafeInv, ApplicationInv, LetterSurvives, DoneOnce, Exists
  <1>2. QED
    BY <1>1, ApplicationTypeStep, ApplicationHearStep, ApplicationPageStep, ApplicationSendStep,
       ApplicationEndStep DEF Next

-----------------------------------------------------------------------------
(* The theorem.                                                            *)

LEMMA JobsAreSafe == ASSUME ConstantsOK, Sends = "job", ~Drops PROVE Spec => []SentSafely
  <1>1. Init => TypeInv /\ JobInv /\ DoneOnce
    <2>1. SUFFICES ASSUME Init PROVE JobInv /\ DoneOnce
      BY InitType
    <2>2. post.pc = "idle" /\ post.key = 0 /\ page = "form" /\ handlers = {}
      BY <2>1 DEF Init, NoPost
    <2>3. \A k \in KeyNumbers : record[k] = None
      BY <2>1 DEF Init
    <2>4. \A t \in Texts : created[t] = 0
      BY <2>1 DEF Init
    <2>5. text = 0 /\ current = [input |-> 0, key |-> 1]
      BY <2>1 DEF Init
    <2>6. DoneOnce
      BY <2>4 DEF DoneOnce
    <2>7. None # "in progress"
      BY DEF ConstantsOK, Answers
    <2>8. edits = 0 /\ text = 0 /\ current.input = 0 /\ page # "away"
      BY <2>1 DEF Init
    <2>9. JobInv
      <3>1. \A k \in KeyNumbers : record[k] # "in progress"
        BY <2>3, <2>7
      <3>2. handlers = IF post.pc = "working" THEN {[key |-> post.key, text |-> post.text]} ELSE {}
        BY <2>2
      <3>3. created[text] = 0
        BY <2>4, <2>8, NumbersAre
      <3>4. QED
        BY <2>2, <2>4, <2>8, <3>1, <3>2, <3>3 DEF JobInv, Pending
    <2>10. QED
      BY <2>6, <2>9
  <1>2. TypeInv /\ JobInv /\ DoneOnce /\ [Next]_vars => (TypeInv /\ JobInv /\ DoneOnce)'
    BY TypeStep, JobStep
  <1>3. DoneOnce => SentSafely
    BY DEF SentSafely, LetterSurvives, PanelMovesOn
  <1>4. QED
    BY <1>1, <1>2, <1>3, PTL DEF Spec

LEMMA ApplicationsAreSafe == ASSUME ConstantsOK, Sends = "application" PROVE Spec => []SentSafely
  <1>1. Init => TypeInv /\ SafeInv
    <2>1. SUFFICES ASSUME Init PROVE SafeInv
      BY InitType
    <2>2. post.pc = "idle" /\ post.answer = None /\ handlers = {}
      BY <2>1 DEF Init, NoPost
    <2>3. \A k \in KeyNumbers : record[k] = None
      BY <2>1 DEF Init
    <2>4. \A t \in Texts : created[t] = 0
      BY <2>1 DEF Init
    <2>5. text = 0 /\ edits = 0 /\ draft = 0 /\ mine.has = "no" /\ mine.submitted = FALSE
      BY <2>1 DEF Init
    <2>6. DoneOnce
      BY <2>4 DEF DoneOnce
    <2>7. LetterSurvives
      BY <2>5 DEF LetterSurvives
    <2>8. ApplicationInv
      <3>1. None \notin {"created", "duplicate"}
        BY DEF ConstantsOK, Answers
      <3>2. QED
        BY <2>2, <2>3, <2>5, <3>1 DEF ApplicationInv
    <2>9. QED
      BY <2>6, <2>7, <2>8 DEF SafeInv
  <1>2. TypeInv /\ SafeInv /\ [Next]_vars => (TypeInv /\ SafeInv)'
    BY TypeStep, ApplicationStep
  <1>3. SafeInv => SentSafely
    BY DEF SafeInv, ApplicationInv, SentSafely, PanelMovesOn, Panel
  <1>4. QED
    BY <1>1, <1>2, <1>3, PTL DEF Spec

\* An application is sent once whatever connections do, and a job while none drops under the
\* server; the letter is kept until the application is in, and the panel then says so.
THEOREM SentSafelyAlways ==
  ASSUME ConstantsOK, Sends = "application" \/ ~Drops
  PROVE  Spec => []SentSafely
  BY JobsAreSafe, ApplicationsAreSafe DEF ConstantsOK
=============================================================================
