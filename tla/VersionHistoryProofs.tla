------------------------ MODULE VersionHistoryProofs ------------------------
(***************************************************************************)
(* For any contents, descriptions, number of requests and bounds: the      *)
(* documents keep their types, numbers have no gaps, the summary in the    *)
(* roost document is the head's, the text it shows lags only behind an     *)
(* edit or a request overtaken, and the history is RoostLog's.             *)
(***************************************************************************)
EXTENDS VersionHistory, SequenceTheorems, TLAPS

(* A request that has resolved its version works on one that exists.       *)
Resolved ==
  \A r \in Requests :
    req[r].at \in {"resolve", "flip", "look", "mirror"} =>
      req[r].version \in Published

IInv == TypeOK /\ GapFree /\ HeadSummary /\ Resolved

(* The step of the documents when v is published under the next number.    *)
Creates(v, text) ==
  Create(v, text, roost.counter + 1, roost.current)

(* What moving the head writes, field by field.                            *)
LEMMA HeadFields ==
  ASSUME TypeOK, NEW v \in Versions, NEW number \in Nat,
         NEW text \in Texts \cup {NoText}
  PROVE  /\ MovedTo(v, number, text) \in Roosts
         /\ MovedTo(v, number, text).current = v
         /\ MovedTo(v, number, text).number = number
         /\ MovedTo(v, number, text).previous = roost.current
         /\ MovedTo(v, number, text).counter = roost.counter
  BY DEF TypeOK, Roosts, MovedTo

(* Existing versions have a positive number, the others have none.         *)
LEMMA Numbers ==
  ASSUME TypeOK
  PROVE  /\ \A v \in Versions : doc[v].number \in Nat
         /\ Published \subseteq Versions
         /\ \A v \in Versions : v \in Published <=> doc[v].number > 0
  BY DEF TypeOK, Docs, Published, Exists

(* A new version leaves the others as they are.                            *)
LEMMA CreateFields ==
  ASSUME TypeOK, NEW v \in Versions, NEW text \in Texts \cup {NoText},
         ~Exists(v), Creates(v, text)
  PROVE  /\ roost' \in Roosts
         /\ doc' \in [Versions -> Docs]
         /\ doc'[v].number = roost.counter + 1
         /\ doc'[v].parent = roost.current
         /\ \A w \in Versions : w # v => doc'[w] = doc[w]
         /\ roost'.counter = roost.counter + 1
         /\ roost'.current = v
         /\ roost'.number = roost.counter + 1
         /\ roost'.previous = roost.current
         /\ Published' = Published \cup {v}
  <1>1. /\ roost.counter + 1 \in Nat
        /\ roost.current \in Versions \cup {NoVersion}
    BY DEF TypeOK, Roosts
  <1>2. doc' = [doc EXCEPT ![v] = [number |-> roost.counter + 1,
                                   text |-> text, parent |-> roost.current]]
    BY DEF Creates, Create
  <1>3. [number |-> roost.counter + 1, text |-> text,
         parent |-> roost.current] \in Docs
    BY <1>1 DEF Docs
  <1>4. /\ doc' \in [Versions -> Docs]
        /\ doc'[v].number = roost.counter + 1
        /\ doc'[v].parent = roost.current
        /\ \A w \in Versions : w # v => doc'[w] = doc[w]
    BY <1>2, <1>3 DEF TypeOK
  <1>5. /\ MovedTo(v, roost.counter + 1, text) \in Roosts
        /\ MovedTo(v, roost.counter + 1, text).current = v
        /\ MovedTo(v, roost.counter + 1, text).number = roost.counter + 1
        /\ MovedTo(v, roost.counter + 1, text).previous = roost.current
    BY <1>1, HeadFields
  <1>6. roost' = [MovedTo(v, roost.counter + 1, text)
                    EXCEPT !.counter = roost.counter + 1]
    BY DEF Creates, Create
  <1>7. /\ roost' \in Roosts
        /\ roost'.counter = roost.counter + 1
        /\ roost'.current = v
        /\ roost'.number = roost.counter + 1
        /\ roost'.previous = roost.current
    BY <1>1, <1>5, <1>6 DEF Roosts
  <1>8. Published' = Published \cup {v}
    BY <1>1, <1>4 DEF Published, Exists, TypeOK, Roosts
  <1> QED
    BY <1>4, <1>7, <1>8

(* A description does not touch numbers or parents.                        *)
LEMMA TextFields ==
  ASSUME TypeOK, NEW v \in Versions, NEW text \in Texts \cup {NoText},
         doc' = [doc EXCEPT ![v].text = text]
  PROVE  /\ doc' \in [Versions -> Docs]
         /\ \A w \in Versions : /\ doc'[w].number = doc[w].number
                                /\ doc'[w].parent = doc[w].parent
         /\ Published' = Published
  <1>1. \A w \in Versions : doc[w] \in Docs
    BY DEF TypeOK
  <1>2. \A w \in Versions :
          doc'[w] = IF w = v THEN [doc[v] EXCEPT !.text = text] ELSE doc[w]
    BY DEF TypeOK
  <1>3. /\ [doc[v] EXCEPT !.text = text] \in Docs
        /\ [doc[v] EXCEPT !.text = text].number = doc[v].number
        /\ [doc[v] EXCEPT !.text = text].parent = doc[v].parent
    BY <1>1 DEF Docs
  <1>4. doc' \in [Versions -> Docs]
    BY <1>1, <1>2, <1>3 DEF TypeOK
  <1>5. \A w \in Versions : /\ doc'[w].number = doc[w].number
                            /\ doc'[w].parent = doc[w].parent
    BY <1>2, <1>3
  <1>6. Published' = Published
    BY <1>5 DEF Published, Exists
  <1> QED
    BY <1>4, <1>5, <1>6

(* Numbers, parents and the counter stay: so does what GapFree says.       *)
SameNumbers ==
  /\ roost'.counter = roost.counter
  /\ Published' = Published
  /\ \A w \in Versions : /\ doc'[w].number = doc[w].number
                         /\ doc'[w].parent = doc[w].parent

(* Versions and numbers that stay are without a gap afterwards too.        *)
LEMMA GapKept ==
  ASSUME TypeOK, GapFree, SameNumbers
  PROVE  GapFree'
  <1>1. Published \subseteq Versions
    BY DEF Published
  <1>2. \A w \in Versions : Exists(w)' = Exists(w)
    BY DEF SameNumbers, Exists
  <1>3. \A w \in Published : doc[w].parent \in Versions \cup {NoVersion}
    BY <1>1 DEF TypeOK, Docs
  <1>4. \A w \in Published' : doc'[w].number <= roost'.counter
    BY <1>1 DEF GapFree, SameNumbers
  <1>5. \A n \in 1 .. roost'.counter :
          \E w \in Published' : doc'[w].number = n
    BY <1>1 DEF GapFree, SameNumbers
  <1>6. \A w, x \in Published' : doc'[w].number = doc'[x].number => w = x
    BY <1>1 DEF GapFree, SameNumbers
  <1>7. ASSUME NEW w \in Published', doc'[w].parent # NoVersion
        PROVE  /\ Exists(doc[w].parent)'
               /\ doc'[doc'[w].parent].number < doc'[w].number
    <2>1. w \in Published /\ doc'[w].parent = doc[w].parent
      BY <1>1, <1>7 DEF SameNumbers
    <2>2. /\ Exists(doc[w].parent)
          /\ doc[doc[w].parent].number < doc[w].number
      BY <2>1, <1>7 DEF GapFree
    <2> QED
      BY <1>1, <1>2, <1>3, <1>7, <2>1, <2>2 DEF SameNumbers, Exists
  <1>8. \A w \in Published' : doc'[w].parent # NoVersion =>
          Exists(doc[w].parent)' /\ doc'[w].parent = doc[w].parent
            /\ doc'[doc'[w].parent].number < doc'[w].number
    BY <1>1, <1>7 DEF SameNumbers
  <1> QED
    BY <1>4, <1>5, <1>6, <1>8 DEF GapFree, Exists

(* A version published under the next number leaves no gap.                *)
LEMMA GapCreate ==
  ASSUME IInv, NEW v \in Versions, NEW text \in Texts \cup {NoText},
         ~Exists(v), Creates(v, text)
  PROVE  GapFree'
  <1> USE DEF IInv
  <1>1. /\ doc'[v].number = roost.counter + 1
        /\ doc'[v].parent = roost.current
        /\ \A w \in Versions : w # v => doc'[w] = doc[w]
        /\ roost'.counter = roost.counter + 1
        /\ Published' = Published \cup {v}
    BY CreateFields
  <1>2. roost.counter \in Nat
    BY DEF TypeOK, Roosts
  <1>3. /\ Published \subseteq Versions /\ v \notin Published
        /\ \A w \in Published : doc'[w] = doc[w] /\ doc[w].number \in Nat
    BY <1>1, Numbers DEF Published
  <1>4. \A w \in Published : doc[w].number <= roost.counter
    BY DEF GapFree
  <1>5. \A w \in Published' : doc'[w].number <= roost'.counter
    BY <1>1, <1>2, <1>3, <1>4
  <1>6. \A n \in 1 .. roost'.counter :
          \E w \in Published' : doc'[w].number = n
    <2> SUFFICES ASSUME NEW n \in 1 .. roost'.counter
                 PROVE  \E w \in Published' : doc'[w].number = n
      OBVIOUS
    <2>1. CASE n = roost.counter + 1
      BY <1>1, <2>1
    <2>2. CASE n # roost.counter + 1
      <3>1. n \in 1 .. roost.counter
        BY <1>1, <1>2, <2>2
      <3>2. PICK w \in Published : doc[w].number = n
        BY <3>1 DEF GapFree
      <3> QED
        BY <1>1, <1>3, <3>2
    <2> QED
      BY <2>1, <2>2
  <1>7. \A w, x \in Published' : doc'[w].number = doc'[x].number => w = x
    BY <1>1, <1>2, <1>3, <1>4 DEF GapFree
  <1>8. ASSUME NEW w \in Published', doc'[w].parent # NoVersion
        PROVE  LET p == doc'[w].parent IN
               doc'[p].number > 0 /\ doc'[p].number < doc'[w].number
    <2>1. CASE w = v
      <3>1. Exists(roost.current) /\ doc'[w].parent = roost.current
        BY <1>1, <1>8, <2>1 DEF HeadSummary
      <3>2. roost.current \in Published
        BY <3>1, <1>1, <1>8, <2>1 DEF Published, TypeOK, Roosts
      <3> QED
        BY <1>1, <1>2, <1>3, <1>4, <2>1, <3>1, <3>2 DEF Exists
    <2>2. CASE w # v
      <3>1. w \in Published /\ doc'[w] = doc[w]
        BY <1>1, <1>3, <2>2
      <3>2. doc[w].parent \in Versions
        BY <1>3, <1>8, <3>1 DEF TypeOK, Docs
      <3>3. /\ Exists(doc[w].parent)
            /\ doc[doc[w].parent].number < doc[w].number
        BY <1>8, <3>1 DEF GapFree
      <3>4. doc[w].parent \in Published
        BY <3>2, <3>3 DEF Published
      <3> QED
        BY <1>3, <3>1, <3>3, <3>4 DEF Exists
    <2> QED
      BY <2>1, <2>2
  <1>9. \A w \in Published' : doc'[w].parent # NoVersion =>
          /\ doc'[doc'[w].parent].number > 0
          /\ doc'[doc'[w].parent].number < doc'[w].number
    BY <1>8
  <1> QED
    BY <1>5, <1>6, <1>7, <1>9 DEF GapFree, Exists

(* What a move of the head to v has to leave behind for the summary.       *)
LEMMA SummaryMoved ==
  ASSUME IInv, NEW v \in Versions, v # roost.current,
         doc'[v].number > 0, roost'.current = v,
         roost'.number = doc'[v].number,
         roost'.previous = roost.current,
         roost.current # NoVersion => doc'[roost.current].number > 0
  PROVE  HeadSummary'
  <1>1. v # NoVersion
    BY VersionAssumption
  <1> QED
    BY <1>1 DEF HeadSummary, Exists

(* A document that keeps head, number and counter keeps the summary.       *)
LEMMA SummaryKept ==
  ASSUME IInv, SameNumbers, roost'.current = roost.current,
         roost'.number = roost.number, roost'.previous = roost.previous
  PROVE  HeadSummary'
  <1>1. /\ roost.current \in Versions \cup {NoVersion}
        /\ roost.previous \in Versions \cup {NoVersion}
    BY DEF IInv, TypeOK, Roosts
  <1> QED
    BY <1>1 DEF IInv, HeadSummary, SameNumbers, Exists

(* Requests stay resolved while versions are only added.                   *)
LEMMA ResolvedKept ==
  ASSUME IInv, UNCHANGED req, Published \subseteq Published'
  PROVE  Resolved'
  BY DEF IInv, Resolved

----------------------------------------------------------------------------
(* The invariant holds at first.                                           *)
LEMMA Initially == Init => IInv
  <1> SUFFICES ASSUME Init PROVE IInv
    OBVIOUS
  <1>1. TypeOK
    BY DEF Init, TypeOK, Roosts, Docs, NoDoc, Idle, Stages
  <1>2. Published = {}
    BY DEF Init, Published, Exists, NoDoc
  <1>3. GapFree /\ HeadSummary /\ Resolved
    BY <1>2 DEF Init, GapFree, HeadSummary, Resolved, Idle
  <1> QED
    BY <1>1, <1>3 DEF IInv

(* The history variables and the bounds keep their types.                  *)
TypeRest ==
  /\ torn' \in BOOLEAN
  /\ spent' \in [{"writes", "deaths"} -> Nat]

(* The flags and the bounds keep their types.                              *)
LEMMA RestTyped ==
  ASSUME TypeOK, Watch,
         \/ UNCHANGED spent
         \/ \E k \in {"writes", "deaths"}, n \in Nat : Spend(k, n)
  PROVE  TypeRest
  <1>1. torn' \in BOOLEAN
    BY DEF Watch, TypeOK
  <1>2. spent' \in [{"writes", "deaths"} -> Nat]
    BY DEF Spend, TypeOK
  <1> QED
    BY <1>1, <1>2 DEF TypeRest

(* POST /versions keeps the invariant: promoted or created.                *)
LEMMA PublishKeeps ==
  ASSUME IInv, Watch, NEW v \in Versions, NEW text \in Texts \cup {NoText},
         NEW expected, Publish(v, text, expected)
  PROVE  IInv'
  <1> USE DEF IInv
  <1>1. /\ Write /\ roost.current # v /\ UNCHANGED <<req, strayed>>
        /\ \/ Exists(v) /\ Promote(v)
           \/ ~Exists(v) /\ Creates(v, text)
    BY DEF Publish, Accepts, Creates
  <1>2. TypeRest
    BY <1>1, RestTyped, VersionAssumption DEF Write
  <1>3. CASE Exists(v) /\ Promote(v)
    <2>1. /\ doc[v].number \in Nat /\ doc[v].text \in Texts \cup {NoText}
      BY DEF TypeOK, Docs
    <2>2. /\ roost' \in Roosts /\ doc' = doc
          /\ roost'.current = v /\ roost'.number = doc[v].number
          /\ roost'.previous = roost.current
          /\ roost'.counter = roost.counter
      BY <1>3, <2>1, HeadFields DEF Promote
    <2>3. SameNumbers
      BY <2>2 DEF SameNumbers, Published, Exists
    <2>4. TypeOK'
      BY <1>1, <1>2, <2>2 DEF TypeOK, TypeRest
    <2>5. HeadSummary'
      BY <1>1, <1>3, <2>2, SummaryMoved DEF HeadSummary, Exists
    <2> QED
      BY <1>1, <2>3, <2>4, <2>5, GapKept, ResolvedKept DEF SameNumbers
  <1>4. CASE ~Exists(v) /\ Creates(v, text)
    <2>1. /\ roost' \in Roosts
          /\ doc' \in [Versions -> Docs]
          /\ doc'[v].number = roost.counter + 1
          /\ \A w \in Versions : w # v => doc'[w] = doc[w]
          /\ roost'.current = v
          /\ roost'.number = roost.counter + 1
          /\ roost'.previous = roost.current
          /\ Published' = Published \cup {v}
      BY <1>4, CreateFields
    <2>2. TypeOK'
      BY <1>1, <1>2, <2>1 DEF TypeOK, TypeRest
    <2>3. roost.counter \in Nat
          /\ roost.current \in Versions \cup {NoVersion}
      BY DEF TypeOK, Roosts
    <2>4. roost.current # NoVersion => doc'[roost.current].number > 0
      BY <1>1, <2>1, <2>3 DEF HeadSummary, Exists
    <2>5. HeadSummary'
      BY <1>1, <2>1, <2>3, <2>4, SummaryMoved
    <2> QED
      BY <1>1, <1>4, <2>1, <2>2, <2>5, GapCreate, ResolvedKept
  <1> QED
    BY <1>1, <1>3, <1>4

(* A rollback's transaction keeps the invariant: whatever happened since   *)
(* its version was resolved, the version and its number are still there.   *)
LEMMA FlipKeeps ==
  ASSUME IInv, Watch, NEW r \in Requests, FlipHead(r)
  PROVE  IInv'
  <1> USE DEF IInv
  <1> DEFINE v == req[r].version
  <1>1. /\ v \in Versions /\ doc[v].number \in Nat /\ doc[v].number > 0
        /\ req[r].text \in Texts \cup {NoText}
        /\ req[r].alias \in BOOLEAN
    BY Numbers DEF FlipHead, Resolved, TypeOK
  <1>2. /\ doc' = doc /\ spent' = spent
        /\ req' = [req EXCEPT ![r] = Idle]
    BY DEF FlipHead
  <1>3. /\ req' \in [Requests -> [at : Stages, version : Versions \cup
                        {NoVersion}, text : Texts \cup {NoText},
                        alias : BOOLEAN]]
        /\ \A q \in Requests : q # r => req'[q] = req[q]
        /\ req'[r].at = "idle"
    BY <1>2 DEF TypeOK, Idle, Stages
  <1>4. TypeRest /\ Published' = Published
    BY <1>2, RestTyped DEF Published, Exists
  <1>5. Resolved'
    BY <1>3, <1>4 DEF Resolved
  <1>6. CASE UNCHANGED <<roost, strayed>>
    <2>1. SameNumbers
      BY <1>2, <1>4, <1>6 DEF SameNumbers
    <2>2. TypeOK'
      BY <1>2, <1>3, <1>4, <1>6 DEF TypeOK, TypeRest
    <2> QED
      BY <1>5, <1>6, <2>1, <2>2, GapKept, SummaryKept
  <1>7. CASE /\ ~Refused(v)
             /\ roost' = MovedTo(v, doc[v].number, req[r].text)
             /\ strayed' = (strayed \/ (req[r].alias /\ v # roost.previous))
    <2>1. /\ roost' \in Roosts
          /\ roost'.current = v /\ roost'.number = doc[v].number
          /\ roost'.previous = roost.current
          /\ roost'.counter = roost.counter
      BY <1>1, <1>7, HeadFields
    <2>2. SameNumbers
      BY <1>2, <1>4, <2>1 DEF SameNumbers
    <2>3. strayed' \in BOOLEAN
      BY <1>7 DEF TypeOK
    <2>4. TypeOK'
      BY <1>2, <1>3, <1>4, <2>1, <2>3 DEF TypeOK, TypeRest
    <2>5. HeadSummary'
      BY <1>1, <1>2, <1>7, <2>1, SummaryMoved
         DEF HeadSummary, Exists, Refused
    <2> QED
      BY <1>5, <2>2, <2>4, <2>5, GapKept
  <1> QED
    BY <1>6, <1>7 DEF FlipHead

(* What the other steps leave alone.                                       *)
SameHead ==
  /\ roost' \in Roosts
  /\ roost'.counter = roost.counter /\ roost'.current = roost.current
  /\ roost'.number = roost.number /\ roost'.previous = roost.previous

Asked(r, new) == req' = [req EXCEPT ![r] = new]

(* A request that only moves on keeps the invariant.                       *)
LEMMA AskKeeps ==
  ASSUME IInv, Watch, SameHead, SameNumbers, UNCHANGED strayed,
         doc' \in [Versions -> Docs],
         \/ UNCHANGED spent
         \/ \E k \in {"writes", "deaths"}, n \in Nat : Spend(k, n),
         NEW r \in Requests, NEW new,
         new \in [at : Stages, version : Versions \cup {NoVersion},
                 text : Texts \cup {NoText}, alias : BOOLEAN],
         new.at \in {"resolve", "flip", "look", "mirror"} =>
           new.version \in Published,
         Asked(r, new)
  PROVE  IInv'
  <1> USE DEF IInv
  <1>1. TypeRest
    BY RestTyped
  <1>2. /\ \A q \in Requests : req'[q] = IF q = r THEN new ELSE req[q]
        /\ req' \in [Requests -> [at : Stages, version : Versions \cup
                        {NoVersion}, text : Texts \cup {NoText},
                        alias : BOOLEAN]]
    BY DEF Asked, TypeOK
  <1>3. Resolved'
    BY <1>2 DEF Resolved, SameNumbers
  <1>4. TypeOK'
    BY <1>1, <1>2 DEF TypeOK, TypeRest, SameHead
  <1> QED
    BY <1>3, <1>4, GapKept, SummaryKept DEF SameHead

(* A step that leaves both documents alone keeps head and numbers.         *)
LEMMA SameAll ==
  ASSUME TypeOK, UNCHANGED <<roost, doc>>
  PROVE  SameHead /\ SameNumbers /\ doc' \in [Versions -> Docs]
  BY DEF TypeOK, SameHead, SameNumbers, Published, Exists

(* An idle request has the type of one.                                    *)
LEMMA IdleRequest ==
  /\ Idle \in [at : Stages, version : Versions \cup {NoVersion},
               text : Texts \cup {NoText}, alias : BOOLEAN]
  /\ Idle.at = "idle"
  BY DEF Idle, Stages

(* The steps of a request that do not move the head keep the invariant.    *)
LEMMA RequestKeeps ==
  ASSUME IInv, Watch, NEW r \in Requests,
         \/ AskRollback(r) \/ ResolveRollback(r)
         \/ EditText(r) \/ LookAtHead(r) \/ MirrorText(r)
         \/ AskCreate(r) \/ CreateRoost(r) \/ Die(r)
  PROVE  IInv'
  <1> DEFINE Reqs == [at : Stages, version : Versions \cup {NoVersion},
                      text : Texts \cup {NoText}, alias : BOOLEAN]
  <1>1. /\ TypeOK /\ Resolved /\ req[r] \in Reqs
        /\ Published \subseteq Versions
    BY DEF IInv, TypeOK, Published
  <1>2. ASSUME Write
        PROVE  \E k \in {"writes", "deaths"}, n \in Nat : Spend(k, n)
    BY <1>2, VersionAssumption DEF Write
  <1>3. CASE AskRollback(r)
    <2>1. PICK alias \in BOOLEAN, v \in Published :
            Asked(r, [Idle EXCEPT !.at = "resolve", !.version = v,
                                  !.alias = alias])
      BY <1>3 DEF AskRollback, Asked
    <2> DEFINE new == [Idle EXCEPT !.at = "resolve", !.version = v,
                                   !.alias = alias]
    <2>2. new \in Reqs /\ new.version \in Published
      BY <1>1 DEF Idle, Stages
    <2>3. UNCHANGED <<roost, doc, strayed>> /\ Write
      BY <1>3 DEF AskRollback
    <2> HIDE DEF new
    <2> QED
      BY <1>1, <1>2, <2>1, <2>2, <2>3, SameAll, AskKeeps DEF new
  <1>4. CASE ResolveRollback(r)
    <2> DEFINE new == [req[r] EXCEPT !.at = "flip",
                                     !.text = doc[req[r].version].text]
    <2>1. req[r].version \in Published
      BY <1>1, <1>4 DEF ResolveRollback, Resolved
    <2>2. doc[req[r].version].text \in Texts \cup {NoText}
      BY <1>1, <2>1 DEF TypeOK, Docs
    <2>3. new \in Reqs /\ new.version \in Published
      BY <1>1, <2>1, <2>2 DEF Stages
    <2>4. UNCHANGED <<roost, doc, strayed, spent>> /\ Asked(r, new)
      BY <1>1, <1>4 DEF ResolveRollback, Asked, TypeOK
    <2> HIDE DEF new
    <2> QED
      BY <1>1, <2>3, <2>4, SameAll, AskKeeps
  <1>5. CASE EditText(r)
    <2>1. PICK v \in Published, text \in Texts \cup {NoText} :
            /\ doc' = [doc EXCEPT ![v].text = text]
            /\ Asked(r, [Idle EXCEPT !.at = "look", !.version = v,
                                    !.text = text])
      BY <1>5 DEF EditText, Asked
    <2> DEFINE new == [Idle EXCEPT !.at = "look", !.version = v,
                                   !.text = text]
    <2>2. new \in Reqs /\ new.version \in Published
      BY <1>1 DEF Idle, Stages
    <2>3. UNCHANGED <<roost, strayed>> /\ Write
      BY <1>5 DEF EditText
    <2>4. /\ doc' \in [Versions -> Docs] /\ Published' = Published
          /\ \A w \in Versions : /\ doc'[w].number = doc[w].number
                                 /\ doc'[w].parent = doc[w].parent
      BY <1>1, <2>1, TextFields
    <2>5. SameHead /\ SameNumbers
      BY <1>1, <2>3, <2>4 DEF SameHead, SameNumbers, TypeOK
    <2> HIDE DEF new
    <2> QED
      BY <1>2, <2>1, <2>2, <2>3, <2>4, <2>5, AskKeeps DEF new
  <1>6. CASE LookAtHead(r)
    <2> DEFINE new == IF roost.current = req[r].version
                      THEN [req[r] EXCEPT !.at = "mirror"] ELSE Idle
    <2>1. req[r].version \in Published
      BY <1>1, <1>6 DEF LookAtHead, Resolved
    <2>2. /\ [req[r] EXCEPT !.at = "mirror"] \in Reqs
          /\ [req[r] EXCEPT !.at = "mirror"].version = req[r].version
      BY <1>1 DEF Stages
    <2>3. /\ new \in Reqs
          /\ new.at \in {"resolve", "flip", "look", "mirror"} =>
               new.version \in Published
      BY <2>1, <2>2, IdleRequest
    <2>4. UNCHANGED <<roost, doc, strayed, spent>> /\ Asked(r, new)
      BY <1>6 DEF LookAtHead, Asked
    <2> HIDE DEF new
    <2> QED
      BY <1>1, <2>3, <2>4, SameAll, AskKeeps
  <1>7. CASE MirrorText(r)
    <2>1. roost' = [roost EXCEPT !.text = req[r].text]
      BY <1>7 DEF MirrorText
    <2>2. UNCHANGED <<doc, strayed, spent>> /\ Asked(r, Idle)
      BY <1>7 DEF MirrorText, Asked
    <2>3. SameHead /\ SameNumbers /\ doc' \in [Versions -> Docs]
      BY <1>1, <2>1, <2>2
         DEF SameHead, SameNumbers, TypeOK, Roosts, Published, Exists
    <2> QED
      BY <2>2, <2>3, IdleRequest, AskKeeps
  <1>8. CASE AskCreate(r)
    <2> DEFINE new == [Idle EXCEPT !.at = "create"]
    <2>1. new \in Reqs /\ new.at = "create"
      BY DEF Idle, Stages
    <2>2. UNCHANGED <<roost, doc, strayed>> /\ Write /\ Asked(r, new)
      BY <1>8 DEF AskCreate, Asked
    <2> HIDE DEF new
    <2> QED
      BY <1>1, <1>2, <2>1, <2>2, SameAll, AskKeeps
  <1>9. CASE CreateRoost(r)
    <2>1. roost' = [roost EXCEPT !.exists = TRUE, !.deleted = FALSE]
      BY <1>9 DEF CreateRoost
    <2>2. UNCHANGED <<doc, strayed, spent>> /\ Asked(r, Idle)
      BY <1>9 DEF CreateRoost, Asked
    <2>3. SameHead /\ SameNumbers /\ doc' \in [Versions -> Docs]
      BY <1>1, <2>1, <2>2
         DEF SameHead, SameNumbers, TypeOK, Roosts, Published, Exists
    <2> QED
      BY <2>2, <2>3, IdleRequest, AskKeeps
  <1>10. CASE Die(r)
    <2>1. UNCHANGED <<roost, doc, strayed>> /\ Asked(r, Idle)
      BY <1>10 DEF Die, Asked
    <2>2. Spend("deaths", MaxDeaths) /\ MaxDeaths \in Nat
      BY <1>10, VersionAssumption DEF Die
    <2> QED
      BY <1>1, <2>1, <2>2, IdleRequest, SameAll, AskKeeps
  <1> QED
    BY <1>3, <1>4, <1>5, <1>6, <1>7, <1>8, <1>9, <1>10

(* A delete only marks the roost.                                          *)
LEMMA DeleteKeeps ==
  ASSUME IInv, Watch, Delete
  PROVE  IInv'
  <1> USE DEF IInv
  <1>1. /\ roost' = [roost EXCEPT !.deleted = TRUE] /\ Write
        /\ UNCHANGED <<doc, req, strayed>>
    BY DEF Delete
  <1>2. SameHead /\ SameNumbers
    BY <1>1 DEF SameHead, SameNumbers, TypeOK, Roosts, Published, Exists
  <1>3. TypeRest
    BY <1>1, RestTyped, VersionAssumption DEF Write
  <1>4. TypeOK'
    BY <1>1, <1>2, <1>3 DEF TypeOK, TypeRest, SameHead
  <1>5. Published \subseteq Published'
    BY <1>2 DEF SameNumbers
  <1> QED
    BY <1>1, <1>2, <1>4, <1>5, GapKept, SummaryKept, ResolvedKept
       DEF SameHead

(* Every step keeps the invariant.                                         *)
LEMMA StepKeeps == IInv /\ [Next]_vars => IInv'
  <1> SUFFICES ASSUME IInv, [Next]_vars PROVE IInv'
    OBVIOUS
  <1>1. CASE Next
    <2>1. Watch /\ Step
      BY <1>1 DEF Next
    <2>2. CASE \E v \in Versions, text \in Texts \cup {NoText},
                 expected \in Versions \cup {NoVersion, Unchecked} :
                 Publish(v, text, expected)
      BY <2>1, <2>2, PublishKeeps
    <2>3. CASE Delete
      BY <2>1, <2>3, DeleteKeeps
    <2>4. ASSUME NEW r \in Requests,
                 \/ AskRollback(r) \/ ResolveRollback(r) \/ FlipHead(r)
                 \/ EditText(r) \/ LookAtHead(r) \/ MirrorText(r)
                 \/ AskCreate(r) \/ CreateRoost(r) \/ Die(r)
          PROVE  IInv'
      BY <2>1, <2>4, FlipKeeps, RequestKeeps
    <2> QED
      BY <2>1, <2>2, <2>3, <2>4 DEF Step
  <1>2. CASE UNCHANGED vars
    <2>1. Published' = Published
      BY <1>2 DEF vars, Published, Exists
    <2> QED
      BY <1>2, <2>1
         DEF IInv, vars, TypeOK, GapFree, HeadSummary, Resolved, Exists
  <1> QED
    BY <1>1, <1>2

(* The inductive invariant holds throughout: its parts are what the        *)
(* publish, rollback and description routes rely on.                       *)
THEOREM Invariance == Spec => []IInv
  BY Initially, StepKeeps, PTL DEF Spec

(* The documents and requests keep their types.                            *)
THEOREM TypeCorrect == Spec => []TypeOK
  <1>1. IInv => TypeOK
    BY DEF IInv
  <1> QED
    BY Invariance, <1>1, PTL

(* However publishes and promotions interleave, version numbers are 1 to   *)
(* the counter, each once, and the parents are older.                      *)
THEOREM NumbersWithoutGaps == Spec => []GapFree
  <1>1. IInv => GapFree
    BY DEF IInv
  <1> QED
    BY Invariance, <1>1, PTL

(* The number in the list is the head's, and a previous version is one     *)
(* that exists and is not the head.                                        *)
THEOREM SummaryIsTheHead == Spec => []HeadSummary
  <1>1. IInv => HeadSummary
    BY DEF IInv
  <1> QED
    BY Invariance, <1>1, PTL

----------------------------------------------------------------------------
(* The text the list shows.                                                *)

(* Why a copy that is behind has a request that will mend it: as long as   *)
(* no request is overtaken, every one holds the text of its version, only  *)
(* the head's is copied, and the copy is the head's or is being edited.    *)
InStep ==
  torn \/
    /\ \A r \in Requests :
         Holding(r) => req[r].text = doc[req[r].version].text
    /\ \A r \in Requests :
         req[r].at = "mirror" => req[r].version = roost.current
    /\ \/ Described
       \/ \E r \in Requests : Editing(r) /\ req[r].version = roost.current

(* What a request does to itself is not seen by the others.                *)
LEMMA OthersUnmoved ==
  ASSUME TypeOK, NEW r \in Requests, NEW new, req' = [req EXCEPT ![r] = new]
  PROVE  \A q \in Requests : req'[q] = IF q = r THEN new ELSE req[q]
  BY DEF TypeOK

(* Watch raises the flag when another request holds what a step changes.   *)
LEMMA Overtaken ==
  ASSUME Watch, ~torn', roost'.current # roost.current \/ doc' # doc,
         NEW q \in Requests, req'[q] = req[q]
  PROVE  ~Holding(q)
  BY DEF Watch

(* A step that moves the head and overtakes nobody shows the right text.   *)
LEMMA HeadInStep ==
  ASSUME TypeOK, Watch, roost'.current # roost.current, Described',
         \A q \in Requests : req'[q] = req[q] \/ req'[q] = Idle
  PROVE  InStep'
  <1> SUFFICES ASSUME ~torn'
               PROVE  \A q \in Requests : ~Holding(q)'
    BY DEF InStep, Holding, Editing
  <1>1. ASSUME NEW q \in Requests PROVE ~Holding(q)'
    <2>1. CASE req'[q] = Idle
      BY <2>1 DEF Holding, Editing, Idle
    <2>2. CASE req'[q] = req[q]
      BY <2>2, Overtaken DEF Holding, Editing
    <2> QED
      BY <1>1, <2>1, <2>2
  <1> QED
    BY <1>1

(* Publishing and rolling back keep InStep.                                *)
LEMMA MovesInStep ==
  ASSUME IInv, InStep, Watch,
         \/ \E v \in Versions, text \in Texts \cup {NoText},
               expected \in Versions \cup {NoVersion, Unchecked} :
              Publish(v, text, expected)
         \/ \E r \in Requests : FlipHead(r)
  PROVE  InStep'
  <1>0. TypeOK
    BY DEF IInv
  <1>1. ASSUME NEW v \in Versions, NEW text \in Texts \cup {NoText},
               NEW expected \in Versions \cup {NoVersion, Unchecked},
               Publish(v, text, expected)
        PROVE  InStep'
    <2>1. /\ UNCHANGED req /\ roost.current # v
          /\ \/ Exists(v) /\ Promote(v)
             \/ Create(v, text, roost.counter + 1, roost.current)
      BY <1>1 DEF Publish, Accepts
    <2>2. roost'.current = v /\ roost'.text = doc'[v].text
      <3>1. CASE Promote(v)
        <4>1. roost' = MovedTo(v, doc[v].number, doc[v].text) /\ doc' = doc
          BY <3>1 DEF Promote
        <4> QED
          BY <1>0, <4>1 DEF MovedTo, TypeOK, Roosts
      <3>2. CASE Create(v, text, roost.counter + 1, roost.current)
        <4>1. roost'.current = v /\ roost'.text = text
          BY <1>0, <3>2 DEF Create, MovedTo, TypeOK, Roosts
        <4>2. doc'[v].text = text
          BY <1>0, <3>2 DEF Create, TypeOK
        <4> QED
          BY <4>1, <4>2
      <3> QED
        BY <2>1, <3>1, <3>2
    <2> QED
      BY <1>0, <2>1, <2>2, HeadInStep DEF Described
  <1>2. ASSUME NEW r \in Requests, FlipHead(r)
        PROVE  InStep'
    <2>0. /\ UNCHANGED doc /\ req[r].at = "flip"
          /\ req' = [req EXCEPT ![r] = Idle]
      BY <1>2 DEF FlipHead
    <2>1. /\ UNCHANGED doc /\ req[r].at = "flip"
          /\ \A q \in Requests : req'[q] = IF q = r THEN Idle ELSE req[q]
      BY <1>0, <2>0, OthersUnmoved
    <2>2. torn => torn'
      BY DEF Watch
    <2>3. CASE UNCHANGED roost
      BY <2>1, <2>2, <2>3 DEF InStep, Holding, Editing, Idle, Described
    <2>4. CASE roost' # roost
      <3> DEFINE v == req[r].version
      <3>1. /\ ~Refused(v)
            /\ roost' = MovedTo(v, doc[v].number, req[r].text)
        BY <1>2, <2>4 DEF FlipHead
      <3>2. roost'.current = v /\ roost'.text = req[r].text
        BY <1>0, <3>1 DEF MovedTo, TypeOK, Roosts
      <3>3. roost'.current # roost.current
        BY <3>1, <3>2 DEF Refused
      <3>4. torn \/ req[r].text = doc[v].text
        BY <2>1 DEF InStep, Holding
      <3> QED
        BY <1>0, <2>1, <2>2, <3>2, <3>3, <3>4, HeadInStep
           DEF Described, InStep
    <2> QED
      BY <2>3, <2>4
  <1> QED
    BY <1>1, <1>2

(* Edits keep InStep: the edit itself, the look at the head and the copy.  *)
LEMMA EditsInStep ==
  ASSUME IInv, InStep, Watch, NEW r \in Requests,
         EditText(r) \/ LookAtHead(r) \/ MirrorText(r)
  PROVE  InStep'
  <1>0. TypeOK /\ Resolved /\ Published \subseteq Versions
    BY DEF IInv, Published
  <1>1. torn => torn'
    BY DEF Watch
  <1> SUFFICES ASSUME ~torn' PROVE InStep'
    BY DEF InStep
  <1>2. CASE EditText(r)
    <2>1. PICK v \in Published, text \in Texts \cup {NoText} :
            /\ doc' = [doc EXCEPT ![v].text = text]
            /\ req' = [req EXCEPT ![r] = [Idle EXCEPT !.at = "look",
                                            !.version = v, !.text = text]]
      BY <1>2 DEF EditText
    <2>0. req'[r] = [Idle EXCEPT !.at = "look", !.version = v,
                                 !.text = text]
      BY <1>0, <2>1 DEF TypeOK
    <2>2. /\ \A q \in Requests : q # r => req'[q] = req[q]
          /\ req'[r].at = "look" /\ req'[r].version = v
          /\ req'[r].text = text
      BY <1>0, <2>0, <2>1, OthersUnmoved DEF Idle
    <2>3. /\ doc'[v].text = text
          /\ \A w \in Versions \ {v} : doc'[w] = doc[w]
      BY <1>0, <2>1 DEF TypeOK, Docs
    <2>4. /\ req[r].at = "idle" /\ UNCHANGED roost
          /\ roost.current \in Versions \cup {NoVersion}
      <3>1. req[r] = Idle /\ UNCHANGED roost
        BY <1>2 DEF EditText
      <3> QED
        BY <1>0, <3>1, IdleRequest DEF TypeOK, Roosts
    <2>5. CASE doc' = doc
      BY <1>1, <2>2, <2>3, <2>4, <2>5 DEF InStep, Holding, Editing, Described
    <2>6. CASE doc' # doc
      <3>1. \A q \in Requests : q # r => ~Holding(q)
        BY <2>2, <2>6, Overtaken
      <3>2. \A q \in Requests : q # r => ~Holding(q)'
        BY <2>2, <3>1 DEF Holding, Editing
      <3>3. ~Holding(r)
        BY <2>4 DEF Holding, Editing
      <3>4. Described
        BY <1>1, <3>1, <3>3 DEF InStep, Holding
      <3>5. CASE v = roost.current
        BY <2>2, <2>3, <2>4, <3>2, <3>5 DEF InStep, Holding, Editing
      <3>6. CASE v # roost.current
        <4>1. Described'
          BY <2>3, <2>4, <3>4, <3>6 DEF Described
        <4> QED
          BY <2>2, <2>3, <3>2, <4>1 DEF InStep, Holding, Editing
      <3> QED
        BY <3>5, <3>6
    <2> QED
      BY <2>5, <2>6
  <1>3. CASE LookAtHead(r)
    <2>1. UNCHANGED <<roost, doc>> /\ req[r].at = "look"
      BY <1>3 DEF LookAtHead
    <2>2. CASE roost.current = req[r].version
      <3>1. /\ \A q \in Requests : q # r => req'[q] = req[q]
            /\ req'[r] = [req[r] EXCEPT !.at = "mirror"]
        <4>1. req' = [req EXCEPT ![r] = [req[r] EXCEPT !.at = "mirror"]]
          BY <1>3, <2>2 DEF LookAtHead
        <4> QED
          BY <1>0, <4>1 DEF TypeOK
      <3>2. /\ req'[r].at = "mirror" /\ req'[r].version = req[r].version
            /\ req'[r].text = req[r].text
        BY <1>0, <3>1 DEF TypeOK
      <3>3. \A q \in Requests : Holding(q)' =>
              /\ Holding(q)
              /\ req'[q].text = req[q].text
              /\ req'[q].version = req[q].version
        BY <2>1, <3>1, <3>2 DEF Holding, Editing
      <3> QED
        BY <1>1, <2>1, <2>2, <3>1, <3>2, <3>3 DEF InStep, Editing
    <2>3. CASE roost.current # req[r].version
      <3>1. \A q \in Requests : req'[q] = IF q = r THEN Idle ELSE req[q]
        BY <1>0, <1>3, <2>3, OthersUnmoved DEF LookAtHead
      <3> QED
        BY <1>1, <2>1, <2>3, <3>1
           DEF InStep, Holding, Editing, Idle, Described
    <2> QED
      BY <2>2, <2>3
  <1>4. CASE MirrorText(r)
    <2>1. /\ UNCHANGED doc /\ req[r].at = "mirror"
          /\ roost'.text = req[r].text /\ roost'.current = roost.current
      BY <1>0, <1>4 DEF MirrorText, TypeOK, Roosts
    <2>2. \A q \in Requests : req'[q] = IF q = r THEN Idle ELSE req[q]
      <3>1. req' = [req EXCEPT ![r] = Idle]
        BY <1>4 DEF MirrorText
      <3> QED
        BY <1>0, <3>1, OthersUnmoved
    <2>3. Described'
      BY <1>1, <2>1 DEF InStep, Holding, Editing, Described
    <2> QED
      BY <1>1, <2>1, <2>2, <2>3 DEF InStep, Holding, Editing, Idle
  <1> QED
    BY <1>2, <1>3, <1>4

(* The other steps neither move the head nor write a text.                 *)
LEMMA RestInStep ==
  ASSUME IInv, InStep, Watch,
         \/ Delete
         \/ \E r \in Requests :
              \/ AskRollback(r) \/ ResolveRollback(r)
              \/ AskCreate(r) \/ CreateRoost(r) \/ Die(r)
  PROVE  InStep'
  <1>0. TypeOK
    BY DEF IInv
  <1>1. torn => torn'
    BY DEF Watch
  <1> SUFFICES ASSUME ~torn' PROVE InStep'
    BY DEF InStep
  <1>2. /\ UNCHANGED doc
        /\ roost'.current = roost.current /\ roost'.text = roost.text
    BY <1>0 DEF Delete, AskRollback, ResolveRollback, AskCreate, CreateRoost,
       Die, TypeOK, Roosts
  <1>3. CASE Delete
    BY <1>1, <1>2, <1>3 DEF Delete, InStep, Holding, Editing, Described
  <1>4. ASSUME NEW r \in Requests, ~Editing(r), ~Editing(r)',
               \A q \in Requests : q # r => req'[q] = req[q],
               Holding(r)' => req'[r].text = doc[req'[r].version].text
        PROVE  InStep'
    BY <1>1, <1>2, <1>4 DEF InStep, Holding, Editing, Described
  <1>5. ASSUME NEW r \in Requests,
               AskRollback(r) \/ AskCreate(r) \/ CreateRoost(r)
        PROVE  InStep'
    <2>1. /\ \A q \in Requests : q # r => req'[q] = req[q]
          /\ req[r].at \in {"idle", "create"}
          /\ req'[r].at \in {"resolve", "create", "idle"}
      <3>1. CASE AskRollback(r)
        <4>1. PICK alias \in BOOLEAN, v \in Published :
                req' = [req EXCEPT ![r] = [Idle EXCEPT !.at = "resolve",
                                             !.version = v, !.alias = alias]]
          BY <3>1 DEF AskRollback
        <4>2. /\ req[r] = Idle
              /\ req'[r] = [Idle EXCEPT !.at = "resolve", !.version = v,
                                        !.alias = alias]
          BY <1>0, <3>1, <4>1 DEF AskRollback, TypeOK
        <4>3. req'[r].at = "resolve"
          BY <4>2 DEF Idle
        <4> QED
          BY <1>0, <4>1, <4>2, <4>3, OthersUnmoved, IdleRequest
      <3>2. CASE AskCreate(r)
        <4>1. /\ req[r] = Idle
              /\ req' = [req EXCEPT ![r] = [Idle EXCEPT !.at = "create"]]
          BY <3>2 DEF AskCreate
        <4>2. req'[r] = [Idle EXCEPT !.at = "create"]
          BY <1>0, <4>1 DEF TypeOK
        <4>3. req'[r].at = "create"
          BY <4>2 DEF Idle
        <4> QED
          BY <1>0, <4>1, <4>3, OthersUnmoved, IdleRequest
      <3>3. CASE CreateRoost(r)
        <4>1. req[r].at = "create" /\ req' = [req EXCEPT ![r] = Idle]
          BY <3>3 DEF CreateRoost
        <4> QED
          BY <1>0, <4>1, OthersUnmoved, IdleRequest
      <3> QED
        BY <1>5, <3>1, <3>2, <3>3
    <2> QED
      BY <1>4, <2>1 DEF Holding, Editing
  <1>6. ASSUME NEW r \in Requests, ResolveRollback(r)
        PROVE  InStep'
    <2>1. /\ \A q \in Requests : q # r => req'[q] = req[q]
          /\ req[r].at = "resolve" /\ req'[r].at = "flip"
          /\ req'[r].version = req[r].version
          /\ req'[r].text = doc[req[r].version].text
      BY <1>0, <1>6 DEF ResolveRollback, TypeOK
    <2> QED
      BY <1>4, <2>1 DEF Editing
  <1>7. ASSUME NEW r \in Requests, Die(r)
        PROVE  InStep'
    <2>1. \A q \in Requests : req'[q] = IF q = r THEN Idle ELSE req[q]
      BY <1>0, <1>7, OthersUnmoved DEF Die
    <2>2. spent'["deaths"] > spent["deaths"]
      BY <1>0, <1>7 DEF Die, Spend, TypeOK
    <2>3. ~Editing(r)
      BY <2>1, <2>2 DEF Watch
    <2> QED
      BY <1>4, <2>1, <2>3 DEF Holding, Editing, Idle
  <1> QED
    BY <1>3, <1>5, <1>6, <1>7

(* Every step keeps InStep.                                                *)
LEMMA InStepKept == IInv /\ InStep /\ [Next]_vars => InStep'
  <1> SUFFICES ASSUME IInv, InStep, [Next]_vars PROVE InStep'
    OBVIOUS
  <1>1. CASE UNCHANGED vars
    BY <1>1 DEF vars, InStep, Holding, Editing, Described
  <1>2. CASE Next
    BY <1>2, MovesInStep, EditsInStep, RestInStep DEF Next, Step
  <1> QED
    BY <1>1, <1>2

(* The list shows the head's description unless an edit is under way, or a *)
(* request was overtaken or died half-way.                                 *)
THEOREM ShownTextIsTheHeads == Spec => []StaleOnlyWhenTorn
  <1>1. Init => InStep
    BY DEF Init, InStep, Holding, Editing, Idle, Described
  <1>2. InStep => StaleOnlyWhenTorn
    BY DEF InStep, StaleOnlyWhenTorn
  <1> QED
    BY <1>1, <1>2, Initially, StepKeeps, InStepKept, PTL DEF Spec

----------------------------------------------------------------------------
(* The log of the refinement: the version with number i is its entry i.    *)
LogNow == [i \in 1 .. roost.counter |->
             CHOOSE v \in Versions : doc[v].number = i]

(* The log holds the published versions in the order of their numbers.     *)
LEMMA LogEntries ==
  ASSUME IInv
  PROVE  /\ roost.counter \in Nat
         /\ \A i \in 1 .. roost.counter : /\ LogNow[i] \in Published
                                         /\ doc[LogNow[i]].number = i
         /\ \A v \in Published : /\ doc[v].number \in 1 .. roost.counter
                                /\ LogNow[doc[v].number] = v
  <1> USE DEF IInv
  <1>1. roost.counter \in Nat
    BY DEF TypeOK, Roosts
  <1>2. ASSUME NEW i \in 1 .. roost.counter
        PROVE  /\ LogNow[i] \in Published
               /\ doc[LogNow[i]].number = i
    <2>1. \E v \in Versions : doc[v].number = i
      BY DEF GapFree, Published
    <2>2. LogNow[i] \in Versions /\ doc[LogNow[i]].number = i
      BY <2>1 DEF LogNow
    <2> QED
      BY <1>1, <2>2 DEF Published, Exists
  <1>3. ASSUME NEW v \in Published
        PROVE  /\ doc[v].number \in 1 .. roost.counter
               /\ LogNow[doc[v].number] = v
    <2>1. doc[v].number \in 1 .. roost.counter
      BY <1>1, Numbers DEF GapFree
    <2>2. /\ LogNow[doc[v].number] \in Published
          /\ doc[LogNow[doc[v].number]].number = doc[v].number
      BY <1>2, <2>1
    <2> QED
      BY <2>1, <2>2 DEF GapFree
  <1> QED
    BY <1>1, <1>2, <1>3

(* The entry at a version's number is that version.                        *)
LEMMA LogInverse ==
  IInv => \A v \in Published : LogNow[doc[v].number] = v
  BY LogEntries

(* A log has one entry for each number.                                    *)
LEMMA LogShape ==
  /\ LogNow = [i \in 1 .. roost.counter |-> LogNow[i]]
  /\ DOMAIN LogNow = 1 .. roost.counter
  BY DEF LogNow

(* The log holds the published versions and no others.                     *)
LEMMA PublishedInLog ==
  ASSUME IInv
  PROVE  {LogNow[i] : i \in DOMAIN LogNow} = Published
  BY LogEntries, LogShape

(* The log is a sequence of versions, before a step and after it.          *)
LEMMA LogIsSeq ==
  IInv => LogNow \in Seq(Versions) /\ Len(LogNow) = roost.counter
  <1> SUFFICES ASSUME IInv
               PROVE  LogNow \in Seq(Versions) /\ Len(LogNow) = roost.counter
    OBVIOUS
  <1>1. roost.counter \in Nat
    BY LogEntries
  <1>2. \A i \in 1 .. roost.counter : LogNow[i] \in Versions
    BY LogEntries DEF Published
  <1> DEFINE n == roost.counter
             f == LogNow
  <1>3. f = [i \in 1 .. n |-> f[i]]
    BY LogShape
  <1>4. f \in [1 .. n -> Versions]
    BY <1>2, <1>3
  <1>5. n \in Nat
    BY <1>1
  <1> HIDE DEF n, f
  <1>6. f \in Seq(Versions) /\ Len(f) = n
    BY <1>4, <1>5
  <1> QED
    BY <1>6 DEF n, f

(* After a step the log is a sequence of versions too.                     *)
LEMMA NextLogIsSeq ==
  IInv' => LogNow' \in Seq(Versions) /\ Len(LogNow') = roost'.counter
  <1>1. (IInv => LogNow \in Seq(Versions) /\ Len(LogNow) = roost.counter)'
    BY LogIsSeq, PTL
  <1> QED
    BY <1>1

(* After a step a version is still found at its number.                    *)
LEMMA NextLogInverse ==
  IInv' => \A v \in Published' : LogNow'[doc'[v].number] = v
  <1>1. (IInv => \A v \in Published : LogNow[doc[v].number] = v)'
    BY LogInverse, PTL
  <1> QED
    BY <1>1

(* Numbers that stay leave the log as it is.                               *)
LEMMA LogKept ==
  ASSUME IInv, SameNumbers
  PROVE  LogNow' = LogNow
  BY DEF LogNow, SameNumbers

(* A version published under the next number is appended to the log.       *)
LEMMA LogAppended ==
  ASSUME IInv, IInv', NEW v \in Versions, NEW text \in Texts \cup {NoText},
         ~Exists(v), Creates(v, text)
  PROVE  LogNow' = Append(LogNow, v)
  <1>1. /\ doc'[v].number = roost.counter + 1
        /\ \A w \in Versions : w # v => doc'[w] = doc[w]
        /\ roost'.counter = roost.counter + 1
        /\ Published' = Published \cup {v}
    BY CreateFields DEF IInv
  <1>2. roost.counter \in Nat
    BY LogEntries
  <1>3. \A w \in Published' : LogNow'[doc'[w].number] = w
    BY NextLogInverse
  <1>4. LogNow'[roost.counter + 1] = v
    BY <1>1, <1>3
  <1>5. ASSUME NEW i \in 1 .. roost.counter
        PROVE  LogNow'[i] = LogNow[i]
    <2>1. LogNow[i] \in Published /\ doc[LogNow[i]].number = i
      BY LogEntries
    <2>2. LogNow[i] \in Versions /\ LogNow[i] # v
      BY <2>1 DEF Published
    <2> QED
      BY <1>1, <1>3, <2>1, <2>2
  <1>6. /\ LogNow \in Seq(Versions) /\ LogNow' \in Seq(Versions)
        /\ Len(LogNow) = roost.counter /\ Len(LogNow') = roost.counter + 1
    BY <1>1, LogIsSeq, NextLogIsSeq
  <1>7. /\ Append(LogNow, v) \in Seq(Versions)
        /\ Len(Append(LogNow, v)) = roost.counter + 1
        /\ Append(LogNow, v)[roost.counter + 1] = v
        /\ \A i \in 1 .. roost.counter : Append(LogNow, v)[i] = LogNow[i]
    BY <1>2, <1>6, AppendProperties
  <1>8. \A i \in 1 .. Len(LogNow') : LogNow'[i] = Append(LogNow, v)[i]
    BY <1>2, <1>4, <1>5, <1>6, <1>7
  <1> QED
    BY <1>6, <1>7, <1>8, SeqEqual

(* An empty roost is an empty log.                                         *)
LEMMA LogStarts == Init => Log!Init
  <1> SUFFICES ASSUME Init PROVE Log!Init
    OBVIOUS
  <1>1. IInv
    BY Initially
  <1>2. LogNow \in Seq(Versions) /\ Len(LogNow) = 0
    BY <1>1, LogIsSeq DEF Init
  <1>3. LogNow = <<>>
    BY <1>2, EmptySeq
  <1>4. LogNow = [i \in 1 .. roost.counter |->
                    CHOOSE v \in Versions : doc[v].number = i]
    BY DEF LogNow
  <1> QED
    BY <1>3, <1>4 DEF Init, Log!Init

(* RoostLog's actions, said of the log above.                              *)
LEMMA LogNamed ==
  /\ \A v : Log!MoveTo(v) = (/\ roost.current # v
                             /\ roost'.current = v
                             /\ roost'.previous = roost.current)
  /\ \A v : Log!Publish(v) <=> /\ v \notin Log!Published
                               /\ LogNow' = Append(LogNow, v)
                               /\ Log!MoveTo(v)
  /\ \A v : Log!Return(v) <=> /\ v \in Log!Published
                              /\ Log!MoveTo(v)
                              /\ LogNow' = LogNow
  /\ Log!Published = {LogNow[i] : i \in DOMAIN LogNow}
  BY DEF Log!MoveTo, Log!Publish, Log!Return, Log!Published, LogNow

(* The steps that neither publish nor roll back are stutters of the log.   *)
LEMMA OthersStutter ==
  ASSUME TypeOK,
         \/ Delete
         \/ \E r \in Requests :
              \/ AskRollback(r) \/ ResolveRollback(r)
              \/ EditText(r) \/ LookAtHead(r) \/ MirrorText(r)
              \/ AskCreate(r) \/ CreateRoost(r) \/ Die(r)
  PROVE  SameNumbers /\ SameHead
  <1>1. CASE UNCHANGED <<roost, doc>>
    BY <1>1, SameAll
  <1>2. ASSUME NEW r \in Requests, EditText(r)
        PROVE  SameNumbers /\ SameHead
    <2>1. PICK v \in Published, text \in Texts \cup {NoText} :
            doc' = [doc EXCEPT ![v].text = text]
      BY <1>2 DEF EditText
    <2>2. v \in Versions /\ roost' = roost
      BY <1>2 DEF EditText, Published
    <2> QED
      BY <2>1, <2>2, TextFields DEF SameNumbers, SameHead, TypeOK
  <1>3. CASE /\ UNCHANGED doc
             /\ \/ roost' = [roost EXCEPT !.deleted = TRUE]
                \/ roost' = [roost EXCEPT !.exists = TRUE, !.deleted = FALSE]
                \/ \E r \in Requests :
                     /\ req[r].text \in Texts \cup {NoText}
                     /\ roost' = [roost EXCEPT !.text = req[r].text]
    BY <1>3 DEF SameNumbers, SameHead, TypeOK, Roosts, Published, Exists
  <1>4. \A r \in Requests : req[r].text \in Texts \cup {NoText}
    BY DEF TypeOK
  <1> QED
    BY <1>1, <1>2, <1>3, <1>4
       DEF Delete, AskRollback, ResolveRollback, LookAtHead, MirrorText,
           AskCreate, CreateRoost, Die

(* Every step of the documents is a step of the log, or a stutter.         *)
LEMMA LogSteps ==
  ASSUME IInv, IInv', [Next]_vars
  PROVE  [Log!Next]_(Log!vars)
  <1> USE DEF IInv
  <1>1. ASSUME SameNumbers, SameHead
        PROVE  UNCHANGED Log!vars
    BY <1>1, LogKept DEF SameHead, Log!vars, LogNow
  <1>2. ASSUME NEW v \in Versions, NEW text \in Texts \cup {NoText},
               NEW expected, Publish(v, text, expected)
        PROVE  Log!Next
    <2>1. roost.current # v
      BY <1>2 DEF Publish, Accepts
    <2>2. CASE Exists(v) /\ Promote(v)
      <3>1. /\ doc[v].number \in Nat /\ doc[v].text \in Texts \cup {NoText}
        BY DEF TypeOK, Docs
      <3>2. /\ doc' = doc /\ roost'.current = v
            /\ roost'.previous = roost.current
            /\ roost'.counter = roost.counter
        BY <2>2, <3>1, HeadFields DEF Promote
      <3>3. SameNumbers
        BY <3>2 DEF SameNumbers, Published, Exists
      <3>4. Log!Return(v)
        BY <2>1, <2>2, <3>2, <3>3, LogKept, LogNamed, PublishedInLog
           DEF Published
      <3> QED
        BY <3>4 DEF Log!Next
    <2>3. CASE ~Exists(v) /\ Creates(v, text)
      <3>1. roost'.current = v /\ roost'.previous = roost.current
        BY <2>3, CreateFields
      <3>2. LogNow' = Append(LogNow, v)
        BY <2>3, LogAppended
      <3>3. Log!Publish(v)
        BY <2>1, <2>3, <3>1, <3>2, LogNamed, PublishedInLog DEF Published
      <3> QED
        BY <3>3 DEF Log!Next
    <2> QED
      BY <1>2, <2>2, <2>3 DEF Publish, Creates
  <1>3. ASSUME NEW r \in Requests, FlipHead(r)
        PROVE  Log!Next \/ UNCHANGED Log!vars
    <2> DEFINE v == req[r].version
    <2>1. /\ v \in Published /\ v \in Versions /\ doc[v].number \in Nat
          /\ req[r].text \in Texts \cup {NoText}
      BY <1>3, Numbers DEF FlipHead, Resolved, TypeOK
    <2>2. CASE UNCHANGED roost
      BY <1>1, <1>3, <2>2, SameAll DEF FlipHead
    <2>3. CASE ~Refused(v) /\ roost' = MovedTo(v, doc[v].number, req[r].text)
      <3>1. /\ roost'.current = v /\ roost'.previous = roost.current
            /\ roost'.counter = roost.counter /\ doc' = doc
        BY <1>3, <2>1, <2>3, HeadFields DEF FlipHead
      <3>2. SameNumbers
        BY <3>1 DEF SameNumbers, Published, Exists
      <3>3. Log!Return(v)
        BY <2>1, <2>3, <3>1, <3>2, LogKept, LogNamed, PublishedInLog
           DEF Refused
      <3> QED
        BY <2>1, <3>3 DEF Log!Next
    <2> QED
      BY <1>3, <2>2, <2>3 DEF FlipHead
  <1>4. CASE UNCHANGED vars
    BY <1>1, <1>4, SameAll DEF vars
  <1>5. CASE Next
    BY <1>1, <1>2, <1>3, <1>5, OthersStutter DEF Next, Step
  <1> QED
    BY <1>4, <1>5

(* Publishes, promotions and rollbacks, interleaved with edits, deletes    *)
(* and requests that die, are a log with a head that moves over it.        *)
THEOREM ImplementsLog == Spec => LogSpec
  <1>1. Init => Log!Init
    BY LogStarts
  <1>2. IInv /\ IInv' /\ [Next]_vars => [Log!Next]_(Log!vars)
    BY LogSteps
  <1> QED
    BY <1>1, <1>2, Invariance, PTL DEF Spec, LogSpec, Log!Spec
=============================================================================
