--------------------------- MODULE VersionHistory ---------------------------
(***************************************************************************)
(* One roost document and its versions subcollection under the routes that *)
(* write them: publish, rollback, the edit of a description, delete and    *)
(* create.  A transaction is one action; a route that reads first and      *)
(* writes later is a request whose steps interleave with the others'.      *)
(***************************************************************************)
EXTENDS Naturals, FiniteSets

CONSTANTS Versions, NoVersion,   \* contents, named by their hash
          Texts, NoText,         \* descriptions
          Requests,              \* requests that are in flight together
          Unchecked,             \* a publish without an expected head
          MaxWrites,             \* bound on publishes, requests and deletes
          MaxDeaths              \* bound on requests that die half-way

ASSUME VersionAssumption ==
  /\ NoVersion \notin Versions /\ Unchecked \notin Versions
  /\ Unchecked # NoVersion
  /\ NoText \notin Texts
  /\ MaxWrites \in Nat /\ MaxDeaths \in Nat

VARIABLES roost,   \* the roost document
          doc,     \* doc[v]: v's version document
          req,     \* req[r]: the request r
          torn,    \* history: a request was overtaken, or died half-way
          strayed, \* history: a default rollback missed the previous version
          spent    \* writes and deaths so far

vars == <<roost, doc, req, torn, strayed, spent>>

NoDoc == [number |-> 0, text |-> NoText, parent |-> NoVersion]
Docs == [number : Nat, text : Texts \cup {NoText},
         parent : Versions \cup {NoVersion}]
Roosts ==
  [exists : BOOLEAN, deleted : BOOLEAN, counter : Nat,
   current : Versions \cup {NoVersion}, number : Nat,
   text : Texts \cup {NoText}, previous : Versions \cup {NoVersion}]

Idle == [at |-> "idle", version |-> NoVersion, text |-> NoText,
         alias |-> FALSE]
Stages == {"idle", "resolve", "flip", "look", "mirror", "create"}

Exists(v) == doc[v].number > 0
Published == {v \in Versions : Exists(v)}

Spend(kind, bound) ==
  /\ spent[kind] < bound
  /\ spent' = [spent EXCEPT ![kind] = @ + 1]
Write == Spend("writes", MaxWrites)

Init ==
  /\ roost = [exists |-> FALSE, deleted |-> FALSE, counter |-> 0,
              current |-> NoVersion, number |-> 0, text |-> NoText,
              previous |-> NoVersion]
  /\ doc = [v \in Versions |-> NoDoc]
  /\ req = [r \in Requests |-> Idle]
  /\ torn = FALSE /\ strayed = FALSE
  /\ spent = [k \in {"writes", "deaths"} |-> 0]

----------------------------------------------------------------------------
(* The head moves to v; what the list of roosts shows is copied.           *)
MovedTo(v, number, text) ==
  [roost EXCEPT !.exists = TRUE, !.current = v, !.number = number,
                !.text = text, !.previous = roost.current]

Create(v, text, number, parent) ==
  /\ roost' = [MovedTo(v, number, text) EXCEPT !.counter = number]
  /\ doc' = [doc EXCEPT ![v] = [number |-> number, text |-> text,
                                parent |-> parent]]

(* Mutant: the previous version is taken for the parent.                   *)
MutPromote(v) ==
  /\ roost' = [MovedTo(v, doc[v].number, doc[v].text)
                 EXCEPT !.previous = doc[v].parent]
  /\ UNCHANGED doc

Promote(v) ==
  /\ roost' = MovedTo(v, doc[v].number, doc[v].text)
  /\ UNCHANGED doc

Accepts(v, expected) ==
  /\ Write
  /\ roost.current # v
  /\ expected \in {Unchecked, roost.current}

(* Mutants: the parent is what the caller expected; the next number is     *)
(* counted from the head.                                                  *)
MutParent(v, text, expected) ==
  /\ Accepts(v, expected)
  /\ \/ Exists(v) /\ Promote(v)
     \/ ~Exists(v) /\ Create(v, text, roost.counter + 1, expected)
  /\ UNCHANGED <<req, strayed>>

MutNumber(v, text, expected) ==
  /\ Accepts(v, expected)
  /\ \/ Exists(v) /\ Promote(v)
     \/ ~Exists(v) /\ Create(v, text, roost.number + 1, roost.current)
  /\ UNCHANGED <<req, strayed>>

Publish(v, text, expected) ==
  /\ Accepts(v, expected)
  /\ \/ Exists(v) /\ Promote(v)
     \/ ~Exists(v) /\ Create(v, text, roost.counter + 1, roost.current)
  /\ UNCHANGED <<req, strayed>>

(* POST /rollback: the reference is resolved by reads of their own, and a  *)
(* transaction then moves the head to what was read.                       *)
AskRollback(r) ==
  /\ req[r] = Idle
  /\ Write
  /\ \E alias \in BOOLEAN, v \in Published :
       /\ alias => v = roost.previous
       /\ req' = [req EXCEPT ![r] = [Idle EXCEPT !.at = "resolve",
                                       !.version = v, !.alias = alias]]
  /\ UNCHANGED <<roost, doc, strayed>>

ResolveRollback(r) ==
  /\ req[r].at = "resolve"
  /\ req' = [req EXCEPT ![r].at = "flip",
                        ![r].text = doc[req[r].version].text]
  /\ UNCHANGED <<roost, doc, strayed, spent>>

(* Mutant: a rollback to the head is carried out.                          *)
MutRefused(v) == ~roost.exists \/ roost.deleted

Refused(v) == ~roost.exists \/ roost.deleted \/ roost.current = v

(* Mutant: the description in the roost document is not touched.           *)
MutFlipHead(r) ==
  LET v == req[r].version IN
  /\ req[r].at = "flip"
  /\ ~Refused(v)
  /\ roost' = MovedTo(v, doc[v].number, roost.text)
  /\ strayed' = (strayed \/ (req[r].alias /\ v # roost.previous))
  /\ req' = [req EXCEPT ![r] = Idle]
  /\ UNCHANGED <<doc, spent>>

FlipHead(r) ==
  LET v == req[r].version IN
  /\ req[r].at = "flip"
  /\ \/ Refused(v) /\ UNCHANGED <<roost, strayed>>
     \/ /\ ~Refused(v)
        /\ roost' = MovedTo(v, doc[v].number, req[r].text)
        /\ strayed' = (strayed \/ (req[r].alias /\ v # roost.previous))
  /\ req' = [req EXCEPT ![r] = Idle]
  /\ UNCHANGED <<doc, spent>>

(* PATCH /versions/{ref}: the version document first, then, if the version *)
(* is the head by then, the copy in the roost document.                    *)
EditText(r) ==
  /\ req[r] = Idle
  /\ Write
  /\ \E v \in Published, text \in Texts \cup {NoText} :
       /\ doc' = [doc EXCEPT ![v].text = text]
       /\ req' = [req EXCEPT ![r] = [Idle EXCEPT !.at = "look",
                                       !.version = v, !.text = text]]
  /\ UNCHANGED <<roost, strayed>>

LookAtHead(r) ==
  /\ req[r].at = "look"
  /\ req' = [req EXCEPT ![r] = IF roost.current = req[r].version
                               THEN [req[r] EXCEPT !.at = "mirror"]
                               ELSE Idle]
  /\ UNCHANGED <<roost, doc, strayed, spent>>

MirrorText(r) ==
  /\ req[r].at = "mirror"
  /\ roost' = [roost EXCEPT !.text = req[r].text]
  /\ req' = [req EXCEPT ![r] = Idle]
  /\ UNCHANGED <<doc, strayed, spent>>

(* DELETE marks the roost and nothing else; POST /roosts creates it, or    *)
(* clears the mark of a deleted one.                                       *)
Delete ==
  /\ Write
  /\ roost.exists
  /\ roost' = [roost EXCEPT !.deleted = TRUE]
  /\ UNCHANGED <<doc, req, strayed>>

AskCreate(r) ==
  /\ req[r] = Idle
  /\ Write
  /\ ~roost.exists \/ roost.deleted
  /\ req' = [req EXCEPT ![r] = [Idle EXCEPT !.at = "create"]]
  /\ UNCHANGED <<roost, doc, strayed>>

CreateRoost(r) ==
  /\ req[r].at = "create"
  /\ roost' = [roost EXCEPT !.exists = TRUE, !.deleted = FALSE]
  /\ req' = [req EXCEPT ![r] = Idle]
  /\ UNCHANGED <<doc, strayed, spent>>

(* The server goes away before a request is through.                       *)
Die(r) ==
  /\ req[r] # Idle
  /\ Spend("deaths", MaxDeaths)
  /\ req' = [req EXCEPT ![r] = Idle]
  /\ UNCHANGED <<roost, doc, strayed>>

----------------------------------------------------------------------------
Editing(r) == req[r].at \in {"look", "mirror"}
Holding(r) == Editing(r) \/ req[r].at = "flip"

(* History: the head or a text changes under a request that has read it,   *)
(* or an edit dies before its copy.                                        *)
Watch ==
  torn' = \/ torn
          \/ /\ <<roost'.current, doc'>> # <<roost.current, doc>>
             /\ \E r \in Requests : Holding(r) /\ req'[r] = req[r]
          \/ /\ spent'["deaths"] > spent["deaths"]
             /\ \E r \in Requests : Editing(r) /\ req'[r] = Idle

Step ==
  \/ \E v \in Versions, text \in Texts \cup {NoText},
        expected \in Versions \cup {NoVersion, Unchecked} :
       Publish(v, text, expected)
  \/ \E r \in Requests :
       \/ AskRollback(r) \/ ResolveRollback(r) \/ FlipHead(r)
       \/ EditText(r) \/ LookAtHead(r) \/ MirrorText(r)
       \/ AskCreate(r) \/ CreateRoost(r) \/ Die(r)
  \/ Delete

Next == Step /\ Watch

Spec == Init /\ [][Next]_vars

----------------------------------------------------------------------------
(* The documents hold what their schema says.                              *)
TypeOK ==
  /\ roost \in Roosts
  /\ doc \in [Versions -> Docs]
  /\ req \in [Requests -> [at : Stages, version : Versions \cup {NoVersion},
                           text : Texts \cup {NoText}, alias : BOOLEAN]]
  /\ torn \in BOOLEAN /\ strayed \in BOOLEAN
  /\ spent \in [{"writes", "deaths"} -> Nat]

(* changelog.md: versionNumber is "monotonic + gap-free even under         *)
(* concurrent publishes": the numbers of the versions are 1 to the         *)
(* counter, each once, and a parent has a smaller one than its child.      *)
GapFree ==
  /\ \A v \in Published : doc[v].number <= roost.counter
  /\ \A n \in 1 .. roost.counter : \E v \in Published : doc[v].number = n
  /\ \A v, w \in Published : doc[v].number = doc[w].number => v = w
  /\ \A v \in Published :
       LET p == doc[v].parent IN
       p # NoVersion => Exists(p) /\ doc[p].number < doc[v].number

(* The head and the previous version are two versions that exist, and the  *)
(* number the list shows is the head's, whatever was published, promoted   *)
(* or rolled back in between.                                              *)
HeadSummary ==
  /\ roost.current # NoVersion =>
       Exists(roost.current) /\ roost.number = doc[roost.current].number
  /\ roost.previous # NoVersion =>
       Exists(roost.previous) /\ roost.previous # roost.current
  /\ roost.counter > 0 => roost.current # NoVersion

Described ==
  roost.current # NoVersion => roost.text = doc[roost.current].text

(* The description the list shows is the head's, unless a request was      *)
(* overtaken or died: with no edit under way, nothing else leaves the copy *)
(* behind the version document.                                            *)
StaleOnlyWhenTorn ==
  torn \/ (\E r \in Requests : Editing(r)) \/ Described

(* versions/[versionRef]/route.ts: "Mirror the description onto the roost  *)
(* doc when this version is the current pointer: the /roost list reads     *)
(* denormalised `currentVersionDescription`, so the row preview would      *)
(* otherwise lag".  With no request under way the copy is the head's.      *)
PreviewKeepsUp ==
  (\A r \in Requests : req[r] = Idle) => Described

(* rollback/route.ts: "the transactional read of the roost head catches a  *)
(* concurrent push landing between resolveVersion() and the update".  A    *)
(* default rollback moves the head to what is previous at that moment.     *)
RollbackTakesPrevious == ~strayed

(* The history is a log of publishes with a head that moves over it.       *)
Log == INSTANCE RoostLog WITH
  log <- [i \in 1 .. roost.counter |->
            CHOOSE v \in Versions : doc[v].number = i],
  head <- roost.current,
  previous <- roost.previous

LogSpec == Log!Spec
=============================================================================
