--------------------------- MODULE DocDeleteProofs ---------------------------
(***************************************************************************)
(* What is proved of DocDelete, for every set of places, number of uploads *)
(* and deletes, and for every choice of the steps that may fail.           *)
(***************************************************************************)
EXTENDS DocDelete, TLAPS

-----------------------------------------------------------------------------
(* Types.  An upload that has been looked at may still take its number.       *)

DelType == [at : {"idle", "locking", "aside", "clear", "back"},
            trigger : {"none", "rest", "retention"}, todo : SUBSET Places,
            moved : SUBSET Places, left : SUBSET Places, picked : BOOLEAN]
UpType  == [at : {"idle", "parse", "write", "row", "answer", "fail", "fail_row"},
            gen : Gens, seen : {"none", "there", "absent"}, place : Typed,
            replacing : BOOLEAN, answer : {"none", "ok", "failed"}]
ThrType == [at : {"none", "due", "writing", "over"}, place : Typed]
EnvType == [up : {"up", "down", "sweep"}, todo : SUBSET Places, crashes : Nat,
            faults : Nat, deletes : Nat]
Dirs    == [Places -> Content \cup {Absent}]
TypeInv == TypeOK /\ (up.seen # "none" => up.gen < MaxGen)

LEMMA Types ==
  TypeOK <=> /\ dir \in Dirs /\ tomb \in Dirs /\ row \in Row \cup {Absent}
             /\ del \in DelType /\ up \in UpType /\ thr \in [Gens -> ThrType]
             /\ lock \in {"none", "delete", "upload", "summary"}
             /\ env \in EnvType /\ known \in Gens \cup {Absent, Unknown}
  BY DEF TypeOK, Dirs, DelType, UpType, ThrType, EnvType

LEMMA TypesNext ==
  (TypeOK)' <=> /\ dir' \in Dirs /\ tomb' \in Dirs /\ row' \in Row \cup {Absent}
               /\ del' \in DelType /\ up' \in UpType /\ thr' \in [Gens -> ThrType]
               /\ lock' \in {"none", "delete", "upload", "summary"}
               /\ env' \in EnvType /\ known' \in Gens \cup {Absent, Unknown}
  BY DEF TypeOK, Dirs, DelType, UpType, ThrType, EnvType

LEMMA RemainsType ==
  ASSUME NEW c \in Content \cup {Absent}, NEW d \in Remains(c)
  PROVE  d \in Content \cup {Absent}
  BY DEF Remains, Content

(* What a step does to the delete and to the process, field by field.         *)
DelGets(at, todo, moved, left) ==
  /\ del' \in DelType
  /\ del'.at = at /\ del'.todo = todo /\ del'.moved = moved /\ del'.left = left
  /\ del'.trigger = del.trigger
DelSame == DelGets(del.at, del.todo, del.moved, del.left)
EnvSame == /\ env' \in EnvType /\ env'.up = env.up /\ env'.todo = env.todo
           /\ env'.faults = env.faults
EnvFaults == /\ env' \in EnvType /\ env'.up = env.up /\ env'.todo = env.todo
             /\ env'.faults = env.faults + 1

LEMMA Faults == ASSUME TypeOK, NEW step, Fault(step) PROVE EnvFaults
  BY DEF TypeOK, EnvType, Fault, EnvFaults
LEMMA NoFaults == ASSUME TypeOK, NoFault PROVE EnvSame
  BY DEF TypeOK, EnvType, NoFault, EnvSame
LEMMA Goes == ASSUME TypeOK, NEW at \in {"idle", "locking", "aside", "clear", "back"}, DelGoes(at)
              PROVE  DelGets(at, del.todo, del.moved, del.left)
  BY DEF TypeOK, DelType, DelGoes, DelGets
LEMMA DelStays == ASSUME TypeOK, UNCHANGED del PROVE DelSame
  BY DEF TypeOK, DelType, DelSame, DelGets

-----------------------------------------------------------------------------
(* What the steps of a delete do.                                             *)

LEMMA RetentionPicksEffect ==
  ASSUME TypeOK, RetentionPicks
  PROVE  DelSame /\ EnvSame /\ UNCHANGED <<dir, tomb, row, lock, known, up, thr, env>>
  <1>1. DelSame
    BY DEF TypeOK, DelType, RetentionPicks, DelSame, DelGets
  <1>2. UNCHANGED <<dir, tomb, row, lock, known, up, thr, env>>
    BY DEF RetentionPicks, DelOnly
  <1> QED
    BY <1>1, <1>2, NoFaults DEF NoFault

(* It begins, for a client or for retention, or retention looks again and     *)
(* lets the document be.                                                      *)
Begins(trigger) ==
  /\ del' \in DelType
  /\ del'.at = "locking" /\ del'.todo = del.todo /\ del'.moved = del.moved
  /\ del'.left = del.left /\ del'.trigger = trigger
LEMMA DeleteAsksEffect ==
  ASSUME TypeOK, DeleteAsks
  PROVE  /\ env.up = "up" /\ del.at = "idle" /\ up.at = "idle"
         /\ UNCHANGED <<dir, tomb, row, lock, known, up, thr>>
         /\ EnvSame
         /\ Begins("rest") \/ (Begins("retention") /\ StillExpired) \/ DelSame
  <1>1. /\ env.up = "up" /\ del.at = "idle" /\ up.at = "idle"
        /\ UNCHANGED <<dir, tomb, row, lock, known, up, thr>>
    BY DEF DeleteAsks, Idle, DelOnly
  <1>2. CASE /\ env.deletes < MaxDeletes
             /\ del' = [del EXCEPT !.at = "locking", !.trigger = "rest"]
             /\ env' = [env EXCEPT !.deletes = @ + 1]
    <2>1. Begins("rest")
      BY <1>2 DEF TypeOK, DelType, Begins
    <2>2. EnvSame
      BY <1>2 DEF TypeOK, EnvType, EnvSame
    <2> QED
      BY <1>1, <2>1, <2>2
  <1>3. CASE /\ StillExpired /\ NoFault
             /\ del' = [del EXCEPT !.at = "locking", !.trigger = "retention", !.picked = FALSE]
    <2>1. Begins("retention")
      BY <1>3 DEF TypeOK, DelType, Begins
    <2> QED
      BY <1>1, <1>3, <2>1, NoFaults
  <1>4. CASE NoFault /\ del' = [del EXCEPT !.picked = FALSE]
    <2>1. DelSame
      BY <1>4 DEF TypeOK, DelType, DelSame, DelGets
    <2> QED
      BY <1>1, <1>4, <2>1, NoFaults
  <1> QED
    BY <1>2, <1>3, <1>4 DEF DeleteAsks

LEMMA DeleteLocksEffect ==
  ASSUME ConstantsAssumption, TypeOK, DeleteLocks
  PROVE  /\ env.up = "up" /\ del.at = "locking" /\ lock = "none" /\ lock' = "delete"
         /\ DelGets("aside", Candidates, del.moved, del.left)
         /\ UNCHANGED <<dir, tomb, row, known, up, thr>> /\ EnvSame
  <1>1. Candidates \subseteq Places
    BY DEF Candidates, Places, TypeOK, Row, Exists
  <1>2. /\ env.up = "up" /\ del.at = "locking" /\ lock = "none" /\ lock' = "delete"
        /\ del' = [del EXCEPT !.at = "aside", !.todo = Candidates]
        /\ UNCHANGED <<dir, tomb, row, known, up, thr, env>>
    BY DEF DeleteLocks, Deleting, DelOnly
  <1>3. DelGets("aside", Candidates, del.moved, del.left)
    BY <1>1, <1>2 DEF TypeOK, DelType, DelGets
  <1> QED
    BY <1>2, <1>3, NoFaults DEF NoFault

(* The branches of SetAside: nothing there, a stale tombstone is removed or   *)
(* stays in part, the directory is renamed, or cannot be.                     *)
Skips(p) == /\ ~Exists(dir[p]) /\ UNCHANGED <<dir, tomb>> /\ EnvSame
            /\ DelGets("aside", del.todo \ {p}, del.moved, del'.left)
            /\ Exists(tomb[p]) \/ del'.left = del.left
DropsStale(p) == /\ Exists(dir[p]) /\ UNCHANGED dir /\ EnvSame /\ DelSame
                 /\ tomb' = [tomb EXCEPT ![p] = Absent]
TearsStale(p) == /\ Exists(dir[p]) /\ UNCHANGED dir /\ EnvFaults
                 /\ DelGets("back", del.todo, del.moved, del.left)
                 /\ \E c \in Remains(tomb[p]) : tomb' = [tomb EXCEPT ![p] = c]
Renames(p) == /\ Exists(dir[p]) /\ ~Exists(tomb[p]) /\ EnvSame
              /\ DelGets("aside", del.todo \ {p}, del.moved \cup {p}, del.left)
              /\ dir' = [dir EXCEPT ![p] = Absent] /\ tomb' = [tomb EXCEPT ![p] = dir[p]]
GivesUp == /\ UNCHANGED <<dir, tomb>> /\ EnvFaults
           /\ DelGets("back", del.todo, del.moved, del.left)

LEMMA SetAsideEffect ==
  ASSUME TypeOK, SetAside
  PROVE  /\ env.up = "up" /\ del.at = "aside" /\ UNCHANGED <<row, lock, known, up, thr>>
         /\ \E p \in del.todo : \/ Skips(p) \/ DropsStale(p) \/ TearsStale(p) \/ Renames(p)
                                \/ GivesUp
  <1>1. /\ env.up = "up" /\ del.at = "aside" /\ UNCHANGED <<row, lock, known, up, thr>>
        /\ del \in DelType
    BY Types DEF SetAside, Deleting, DelOnly
  <1>2. PICK p \in del.todo :
          LET done == [del EXCEPT !.todo = @ \ {p}] IN
          \/ /\ ~Exists(dir[p])
             /\ del' = [done EXCEPT !.left = IF Exists(tomb[p]) THEN @ \cup {p} ELSE @]
             /\ NoFault /\ UNCHANGED <<dir, tomb>>
          \/ /\ Exists(dir[p]) /\ Exists(tomb[p])
             /\ \/ tomb' = [tomb EXCEPT ![p] = Absent] /\ NoFault /\ UNCHANGED del
                \/ /\ Fault("stale") /\ DelGoes("back")
                   /\ \E c \in Remains(tomb[p]) : tomb' = [tomb EXCEPT ![p] = c]
             /\ UNCHANGED dir
          \/ /\ Exists(dir[p]) /\ ~Exists(tomb[p])
             /\ \/ /\ dir' = [dir EXCEPT ![p] = Absent]
                   /\ tomb' = [tomb EXCEPT ![p] = dir[p]]
                   /\ del' = [done EXCEPT !.moved = @ \cup {p}] /\ NoFault
                \/ Fault("set_aside") /\ DelGoes("back") /\ UNCHANGED <<dir, tomb>>
    BY DEF SetAside
  <1>3. p \in Places
    BY <1>1, <1>2 DEF DelType
  <1> DEFINE done == [del EXCEPT !.todo = @ \ {p}]
  <1>4. CASE /\ ~Exists(dir[p]) /\ NoFault /\ UNCHANGED <<dir, tomb>>
             /\ del' = [done EXCEPT !.left = IF Exists(tomb[p]) THEN @ \cup {p} ELSE @]
    <2>1. DelGets("aside", del.todo \ {p}, del.moved, del'.left)
      <3>1. CASE Exists(tomb[p])
        <4>1. del' = [done EXCEPT !.left = @ \cup {p}]
          BY <1>4, <3>1
        <4> QED
          BY <1>1, <1>3, <4>1 DEF DelType, DelGets
      <3>2. CASE ~Exists(tomb[p])
        <4>1. del' = [done EXCEPT !.left = @]
          BY <1>4, <3>2
        <4> QED
          BY <1>1, <1>3, <4>1 DEF DelType, DelGets
      <3> QED
        BY <3>1, <3>2
    <2>2. Exists(tomb[p]) \/ del'.left = del.left
      BY <1>1, <1>4 DEF DelType
    <2> QED
      BY <1>1, <1>4, <2>1, <2>2, NoFaults DEF Skips
  <1>5. CASE /\ Exists(dir[p]) /\ UNCHANGED dir
             /\ tomb' = [tomb EXCEPT ![p] = Absent] /\ NoFault /\ UNCHANGED del
    BY <1>1, <1>5, NoFaults, DelStays DEF DropsStale
  <1>6. CASE /\ Exists(dir[p]) /\ UNCHANGED dir /\ Fault("stale") /\ DelGoes("back")
             /\ \E c \in Remains(tomb[p]) : tomb' = [tomb EXCEPT ![p] = c]
    BY <1>1, <1>6, Faults, Goes DEF TearsStale
  <1>7. CASE /\ Exists(dir[p]) /\ ~Exists(tomb[p])
             /\ dir' = [dir EXCEPT ![p] = Absent]
             /\ tomb' = [tomb EXCEPT ![p] = dir[p]]
             /\ del' = [done EXCEPT !.moved = @ \cup {p}] /\ NoFault
    <2>1. DelGets("aside", del.todo \ {p}, del.moved \cup {p}, del.left)
      BY <1>1, <1>3, <1>7 DEF DelType, DelGets
    <2> QED
      BY <1>1, <1>7, <2>1, NoFaults DEF Renames
  <1>8. CASE Fault("set_aside") /\ DelGoes("back") /\ UNCHANGED <<dir, tomb>>
    BY <1>1, <1>8, Faults, Goes DEF GivesUp
  <1> HIDE DEF done
  <1> QED
    BY <1>1, <1>2, <1>4, <1>5, <1>6, <1>7, <1>8 DEF done

LEMMA CommitDeleteEffect ==
  ASSUME TypeOK, CommitDelete
  PROVE  /\ env.up = "up" /\ del.at = "aside" /\ del.todo = {}
         /\ UNCHANGED <<dir, tomb, lock, up, thr>>
         /\ \/ /\ row' = Absent /\ known' = Absent /\ EnvSame
               /\ DelGets("clear", {}, {}, del.left \cup del.moved)
            \/ GivesUp /\ UNCHANGED <<row, known>>
  <1>1. /\ env.up = "up" /\ del.at = "aside" /\ del.todo = {}
        /\ UNCHANGED <<dir, tomb, lock, up, thr>> /\ del \in DelType
    BY Types DEF CommitDelete, Deleting, DelOnly
  <1>2. CASE /\ row' = Absent /\ known' = Absent /\ NoFault
             /\ del' = [del EXCEPT !.at = "clear", !.left = @ \cup del.moved, !.moved = {}]
    <2>1. DelGets("clear", {}, {}, del.left \cup del.moved)
      BY <1>1, <1>2 DEF DelType, DelGets
    <2> QED
      BY <1>1, <1>2, <2>1, NoFaults
  <1>3. CASE Fault("commit") /\ DelGoes("back") /\ UNCHANGED <<row, known>>
    BY <1>1, <1>3, Faults, Goes DEF GivesUp
  <1> QED
    BY <1>2, <1>3 DEF CommitDelete

LEMMA ClearTombstoneEffect ==
  ASSUME TypeOK, ClearTombstone
  PROVE  /\ env.up = "up" /\ del.at = "clear" /\ UNCHANGED <<dir, row, lock, known, up, thr>>
         /\ \E p \in del.left :
              /\ DelGets("clear", del.todo, del.moved, del.left \ {p})
              /\ \/ tomb' = [tomb EXCEPT ![p] = Absent] /\ EnvSame
                 \/ EnvFaults /\ \E c \in Remains(tomb[p]) : tomb' = [tomb EXCEPT ![p] = c]
  <1>1. /\ env.up = "up" /\ del.at = "clear" /\ UNCHANGED <<dir, row, lock, known, up, thr>>
        /\ del \in DelType
    BY Types DEF ClearTombstone, Deleting, DelOnly
  <1>2. PICK p \in del.left :
          /\ del' = [del EXCEPT !.left = @ \ {p}]
          /\ \/ tomb' = [tomb EXCEPT ![p] = Absent] /\ NoFault
             \/ /\ Fault("clear")
                /\ \E c \in Remains(tomb[p]) : tomb' = [tomb EXCEPT ![p] = c]
    BY DEF ClearTombstone
  <1>3. DelGets("clear", del.todo, del.moved, del.left \ {p})
    BY <1>1, <1>2 DEF DelType, DelGets
  <1> QED
    BY <1>1, <1>2, <1>3, NoFaults, Faults

LEMMA PutBackAsideEffect ==
  ASSUME TypeOK, PutBackAside
  PROVE  /\ env.up = "up" /\ del.at = "back" /\ UNCHANGED <<row, lock, known, up, thr>>
         /\ \E p \in del.moved :
              /\ DelGets("back", del.todo, del.moved \ {p}, del.left)
              /\ \/ /\ dir' = [dir EXCEPT ![p] = tomb[p]]
                    /\ tomb' = [tomb EXCEPT ![p] = Absent] /\ EnvSame
                 \/ "put_back" \in FaultySteps /\ UNCHANGED <<dir, tomb>> /\ EnvFaults
  <1>1. /\ env.up = "up" /\ del.at = "back" /\ UNCHANGED <<row, lock, known, up, thr>>
        /\ del \in DelType
    BY Types DEF PutBackAside, Deleting, DelOnly
  <1>2. PICK p \in del.moved :
          /\ del' = [del EXCEPT !.moved = @ \ {p}]
          /\ \/ /\ dir' = [dir EXCEPT ![p] = tomb[p]]
                /\ tomb' = [tomb EXCEPT ![p] = Absent] /\ NoFault
             \/ Fault("put_back") /\ UNCHANGED <<dir, tomb>>
    BY DEF PutBackAside
  <1>3. DelGets("back", del.todo, del.moved \ {p}, del.left)
    BY <1>1, <1>2 DEF DelType, DelGets
  <1>4. Fault("put_back") => "put_back" \in FaultySteps
    BY DEF Fault
  <1> QED
    BY <1>1, <1>2, <1>3, <1>4, NoFaults, Faults

LEMMA DeleteAnswersEffect ==
  ASSUME TypeOK, DeleteAnswers
  PROVE  /\ env.up = "up"
         /\ \/ del.at = "clear" /\ del.left = {}
            \/ del.at = "back" /\ del.moved = {}
         /\ del' \in DelType /\ del'.at = "idle" /\ del'.todo = {} /\ del'.moved = {}
         /\ del'.left = {} /\ del'.trigger = "none"
         /\ lock' = "none" /\ UNCHANGED <<dir, tomb, row, known, up, thr>> /\ EnvSame
  <1>1. /\ env.up = "up"
        /\ \/ del.at = "clear" /\ del.left = {}
           \/ del.at = "back" /\ del.moved = {}
        /\ del' = [NoDel EXCEPT !.picked = del.picked]
        /\ lock' = "none" /\ UNCHANGED <<dir, tomb, row, known, up, thr, env>>
    BY DEF DeleteAnswers, Deleting, DelEnds, DelOnly
  <1>2. /\ del' \in DelType /\ del'.at = "idle" /\ del'.todo = {} /\ del'.moved = {}
        /\ del'.left = {} /\ del'.trigger = "none"
    BY <1>1 DEF NoDel, TypeOK, DelType
  <1> QED
    BY <1>1, <1>2, NoFaults DEF NoFault

-----------------------------------------------------------------------------
(* What the steps of an upload and of a summary thread do.                    *)

UpGets(at) == /\ up' \in UpType
              /\ up'.at = at /\ up'.gen = up.gen /\ up'.seen = up.seen
              /\ up'.place = up.place
              /\ at # "idle" => up'.replacing = up.replacing
LEMMA UpGoesEffect ==
  ASSUME TypeOK, NEW at \in {"idle", "parse", "write", "row", "answer", "fail", "fail_row"},
         UpGoes(at)
  PROVE  UpGets(at)
  BY Types DEF UpType, UpGoes, UpGets
LEMMA RepliesEffect ==
  ASSUME TypeOK, NEW a \in {"ok", "failed"}, Replies(a)
  PROVE  UpGets("idle")
  BY Types DEF UpType, NoUp, Replies, UpGets

LEMMA ArriveEffect ==
  ASSUME TypeOK, Arrive
  PROVE  /\ env.up = "up" /\ up.gen < MaxGen
         /\ up' \in UpType /\ up'.at = up.at /\ up'.gen = up.gen /\ up'.place = up.place
         /\ up'.replacing = up.replacing
         /\ UNCHANGED <<dir, row, thr, lock, known, tomb>> /\ DelSame /\ EnvSame
  <1>1. UNCHANGED <<dir, row, thr, lock, known, tomb, del, env>> /\ env.up = "up" /\ up.gen < MaxGen
    BY DEF Arrive, UpOnly
  <1>2. up' = [up EXCEPT !.seen = IF ExistsAnywhere THEN "there" ELSE "absent"]
    BY DEF Arrive
  <1>3. /\ up' \in UpType /\ up'.at = up.at /\ up'.gen = up.gen /\ up'.place = up.place
        /\ up'.replacing = up.replacing
    <2>1. PICK seen \in {"there", "absent"} : up' = [up EXCEPT !.seen = seen]
      BY <1>2
    <2> QED
      BY <2>1, Types DEF UpType
  <1> QED
    BY <1>1, <1>3, DelStays, NoFaults DEF NoFault

(* A replacement goes where the document is, if that is a content type.       *)
LEMMA StartEffect ==
  ASSUME ConstantsAssumption, TypeInv, Start
  PROVE  /\ env.up = "up" /\ del.at = "idle" /\ up.at = "idle"
         /\ up' \in UpType /\ up'.at = "parse" /\ up'.gen = up.gen + 1 /\ up'.seen = "none"
         /\ ~up'.replacing => ~ExistsAnywhere
         /\ Resolved \in Typed => up'.place = Resolved
         /\ dir' = [dir EXCEPT ![up'.place] = IF Exists(@) THEN @ ELSE Empty]
         /\ UNCHANGED <<row, thr, lock, known, tomb>> /\ DelSame /\ EnvSame
  <1>1. /\ UNCHANGED <<row, thr, lock, known, tomb, del, env>>
        /\ env.up = "up" /\ del.at = "idle" /\ up.at = "idle" /\ up.seen # "none"
    BY DEF Start, UpOnly, Idle
  <1> DEFINE rep == up.seen = "there" \/ ExistsAnywhere
  <1>2. PICK p \in Destinations(rep) :
          /\ up' = [up EXCEPT !.at = "parse", !.gen = @ + 1, !.seen = "none", !.place = p,
                              !.replacing = rep, !.answer = "none"]
          /\ dir' = [dir EXCEPT ![p] = IF Exists(@) THEN @ ELSE Empty]
    BY DEF Start
  <1>3. p \in Typed /\ (Resolved \in Typed => p = Resolved)
    <2>1. Resolved \in Typed => ExistsAnywhere
      BY DEF ExistsAnywhere, ConstantsAssumption, Places, Known
    <2> QED
      BY <1>2, <2>1 DEF Destinations, ConstantsAssumption
  <1>4. up.gen + 1 \in Gens
    BY <1>1, Types DEF TypeInv, UpType, Gens, ConstantsAssumption
  <1>5. rep \in BOOLEAN /\ (~rep => ~ExistsAnywhere)
    BY DEF ExistsAnywhere
  <1> HIDE DEF rep
  <1>6. /\ up' \in UpType /\ up'.at = "parse" /\ up'.gen = up.gen + 1 /\ up'.seen = "none"
        /\ up'.place = p /\ up'.replacing = rep
    BY <1>2, <1>3, <1>4, <1>5, Types DEF TypeInv, UpType
  <1> QED
    BY <1>1, <1>2, <1>3, <1>5, <1>6, DelStays, NoFaults DEF NoFault, TypeInv

LEMMA ParseEffect ==
  ASSUME TypeOK, Parse
  PROVE  /\ env.up = "up" /\ up.at = "parse" /\ (UpGets("write") \/ UpGets("fail"))
         /\ UNCHANGED <<dir, row, thr, lock, known, tomb>> /\ DelSame /\ EnvSame
  <1>1. /\ UNCHANGED <<dir, row, thr, lock, known, tomb, del, env>>
        /\ env.up = "up" /\ up.at = "parse" /\ (UpGoes("write") \/ UpGoes("fail"))
    BY DEF Parse, UpOnly, Serving
  <1> QED
    BY <1>1, DelStays, NoFaults, UpGoesEffect DEF NoFault

LEMMA WriteFilesEffect ==
  ASSUME TypeOK, WriteFiles
  PROVE  /\ env.up = "up" /\ up.at = "write" /\ UpGets("row") /\ lock = "none" /\ lock' = "upload"
         /\ known' = IF known = Absent THEN Unknown ELSE known
         /\ dir' = [dir EXCEPT ![up.place] = IF @ \in Gens THEN @ ELSE up.gen]
         /\ UNCHANGED <<row, thr, tomb>> /\ DelSame /\ EnvSame
  <1>1. /\ UNCHANGED <<row, thr, tomb, del, env>>
        /\ env.up = "up" /\ up.at = "write" /\ UpGoes("row") /\ lock = "none" /\ lock' = "upload"
        /\ known' = IF known = Absent THEN Unknown ELSE known
        /\ dir' = [dir EXCEPT ![up.place] = IF @ \in Gens THEN @ ELSE up.gen]
    BY DEF WriteFiles, UpOnly, Serving, Unsettled
  <1> QED
    BY <1>1, DelStays, NoFaults, UpGoesEffect DEF NoFault

LEMMA CommitRowEffect ==
  ASSUME TypeOK, CommitRow
  PROVE  /\ env.up = "up" /\ up.at = "row" /\ lock' = "none"
         /\ UNCHANGED <<thr, known, tomb>> /\ DelSame
         /\ \/ /\ row' = [gen |-> up.gen, place |-> up.place]
               /\ dir' = [dir EXCEPT ![up.place] = up.gen]
               /\ UpGets("answer") /\ EnvSame
            \/ EnvFaults /\ UpGets("fail") /\ UNCHANGED <<row, dir>>
  <1>1. /\ env.up = "up" /\ up.at = "row" /\ lock' = "none"
        /\ UNCHANGED <<thr, known, tomb, del>>
        /\ \/ /\ row' = [gen |-> up.gen, place |-> up.place]
              /\ dir' = [dir EXCEPT ![up.place] = up.gen]
              /\ UpGoes("answer") /\ NoFault
           \/ Fault("write_row") /\ UpGoes("fail") /\ UNCHANGED <<row, dir>>
    BY DEF CommitRow, UpOnly, Serving
  <1> QED
    BY <1>1, DelStays, NoFaults, Faults, UpGoesEffect

LEMMA AnswerEffect ==
  ASSUME TypeOK, Answer
  PROVE  /\ env.up = "up" /\ up.at = "answer"
         /\ UNCHANGED <<dir, row, lock, tomb>> /\ DelSame
         /\ \/ /\ UpGets("idle") /\ known' = up.gen /\ EnvSame
               /\ \/ UNCHANGED thr
                  \/ thr' = [thr EXCEPT ![up.gen] = [at |-> "due", place |-> up.place]]
            \/ EnvFaults /\ UpGets("fail") /\ UNCHANGED <<thr, known>>
  <1>1. /\ env.up = "up" /\ up.at = "answer"
        /\ UNCHANGED <<dir, row, lock, tomb, del>>
        /\ \/ /\ Replies("ok") /\ known' = up.gen /\ NoFault
              /\ \/ UNCHANGED thr
                 \/ thr' = [thr EXCEPT ![up.gen] = [at |-> "due", place |-> up.place]]
           \/ Fault("start_worker") /\ UpGoes("fail") /\ UNCHANGED <<thr, known>>
    BY DEF Answer, UpOnly, Serving
  <1> QED
    BY <1>1, DelStays, NoFaults, Faults, UpGoesEffect, RepliesEffect

LEMMA FailReplacementEffect ==
  ASSUME TypeOK, FailReplacement
  PROVE  /\ env.up = "up" /\ up.at = "fail" /\ up.replacing /\ UpGets("idle")
         /\ UNCHANGED <<dir, row, thr, lock, known, tomb>> /\ DelSame /\ EnvSame
  <1>1. /\ UNCHANGED <<dir, row, thr, lock, known, tomb, del, env>>
        /\ env.up = "up" /\ up.at = "fail" /\ up.replacing /\ Replies("failed")
    BY DEF FailReplacement, UpOnly, Serving
  <1> QED
    BY <1>1, DelStays, NoFaults, RepliesEffect DEF NoFault

(* The second of the two steps belongs to the same upload as the first.       *)
LEMMA FailNewEffect ==
  ASSUME TypeOK, FailNew
  PROVE  /\ env.up = "up" /\ UNCHANGED <<thr, lock, known, tomb>> /\ DelSame
         /\ \/ /\ up.at = "fail" /\ ~up.replacing /\ UpGets("fail_row") /\ EnvSame
               /\ dir' = [dir EXCEPT ![up.place] = Empty] /\ UNCHANGED row
            \/ /\ up.at = "fail_row" /\ UpGets("idle")
               /\ dir' = [dir EXCEPT ![up.place] = Record]
               /\ \/ row' = Absent /\ EnvSame
                  \/ EnvFaults /\ UNCHANGED row
  <1>1. /\ UNCHANGED <<thr, lock, known, tomb, del>>
        /\ \/ /\ Serving("fail") /\ ~up.replacing /\ UpGoes("fail_row")
              /\ dir' = [dir EXCEPT ![up.place] = Empty]
              /\ NoFault /\ UNCHANGED row
           \/ /\ Serving("fail_row") /\ Replies("failed")
              /\ dir' = [dir EXCEPT ![up.place] = Record]
              /\ \/ row' = Absent /\ NoFault
                 \/ Fault("fail_row") /\ UNCHANGED row
    BY DEF FailNew, UpOnly
  <1> QED
    BY <1>1, DelStays, NoFaults, Faults, UpGoesEffect, RepliesEffect DEF Serving

LEMMA ThreadLooksEffect ==
  ASSUME TypeOK, NEW g \in Gens, ThreadLooks(g)
  PROVE  /\ env.up = "up" /\ thr[g].at = "due" /\ lock = "none"
         /\ thr' \in [Gens -> ThrType] /\ thr'[g].place = thr[g].place
         /\ \A h \in Gens \ {g} : thr'[h] = thr[h]
         /\ \/ dir[thr[g].place] = g /\ thr'[g].at = "writing" /\ lock' = "summary"
            \/ dir[thr[g].place] # g /\ thr'[g].at = "over" /\ UNCHANGED lock
         /\ UNCHANGED <<dir, tomb, row, up, known>> /\ DelSame /\ EnvSame
  <1>1. /\ env.up = "up" /\ thr[g].at = "due" /\ lock = "none"
        /\ UNCHANGED <<dir, tomb, row, del, up, env, known>> /\ thr \in [Gens -> ThrType]
    BY Types DEF ThreadLooks
  <1>2. CASE dir[thr[g].place] = g /\ thr' = [thr EXCEPT ![g].at = "writing"] /\ lock' = "summary"
    <2>1. /\ thr' \in [Gens -> ThrType] /\ thr'[g].place = thr[g].place
          /\ \A h \in Gens \ {g} : thr'[h] = thr[h]
          /\ thr'[g].at = "writing"
      BY <1>1, <1>2 DEF ThrType
    <2> QED
      BY <1>1, <1>2, <2>1, DelStays, NoFaults DEF NoFault
  <1>3. CASE dir[thr[g].place] # g /\ thr' = [thr EXCEPT ![g].at = "over"] /\ UNCHANGED lock
    <2>1. /\ thr' \in [Gens -> ThrType] /\ thr'[g].place = thr[g].place
          /\ \A h \in Gens \ {g} : thr'[h] = thr[h]
          /\ thr'[g].at = "over"
      BY <1>1, <1>3 DEF ThrType
    <2> QED
      BY <1>1, <1>3, <2>1, DelStays, NoFaults DEF NoFault
  <1> QED
    BY <1>2, <1>3 DEF ThreadLooks

LEMMA ThreadWritesEffect ==
  ASSUME TypeOK, NEW g \in Gens, ThreadWrites(g)
  PROVE  /\ env.up = "up" /\ thr[g].at = "writing"
         /\ thr' \in [Gens -> ThrType] /\ thr'[g].at = "over" /\ lock' = "none"
         /\ \A h \in Gens \ {g} : thr'[h] = thr[h]
         /\ dir' = [dir EXCEPT ![thr[g].place] = g]
         /\ row' = [gen |-> g, place |-> thr[g].place]
         /\ UNCHANGED <<tomb, up, known>> /\ DelSame /\ EnvSame
  <1>1. /\ env.up = "up" /\ thr[g].at = "writing"
        /\ thr' = [thr EXCEPT ![g].at = "over"] /\ lock' = "none"
        /\ dir' = [dir EXCEPT ![thr[g].place] = g]
        /\ row' = [gen |-> g, place |-> thr[g].place]
        /\ UNCHANGED <<tomb, del, up, env, known>> /\ thr \in [Gens -> ThrType]
    BY Types DEF ThreadWrites
  <1>2. /\ thr' \in [Gens -> ThrType] /\ thr'[g].at = "over"
        /\ \A h \in Gens \ {g} : thr'[h] = thr[h]
    BY <1>1 DEF ThrType
  <1> QED
    BY <1>1, <1>2, DelStays, NoFaults DEF NoFault

-----------------------------------------------------------------------------
(* What a start and a crash do.                                               *)

LEMMA RestartEffect ==
  ASSUME TypeOK, Restart
  PROVE  /\ env.up = "down" /\ env' \in EnvType /\ env'.up = "sweep"
         /\ \/ env'.faults = env.faults /\ env'.todo = Tombstones
            \/ env'.faults = env.faults + 1 /\ "read_index" \in FaultySteps
         /\ UNCHANGED <<dir, tomb, row, del, up, thr, lock, known>> /\ DelSame
  <1>1. env.up = "down" /\ UNCHANGED <<dir, tomb, row, del, up, thr, lock, known>>
    BY DEF Restart
  <1>2. CASE env' = [env EXCEPT !.up = "sweep", !.todo = Tombstones]
    <2>1. Tombstones \subseteq Places
      BY DEF Tombstones
    <2>2. /\ env' \in EnvType /\ env'.up = "sweep"
          /\ env'.faults = env.faults /\ env'.todo = Tombstones
      BY <1>2, <2>1, Types DEF EnvType
    <2> QED
      BY <1>1, <2>2, DelStays
  <1>3. CASE /\ "read_index" \in FaultySteps
             /\ env' = [env EXCEPT !.up = "sweep", !.faults = @ + 1]
    <2>1. env' \in EnvType /\ env'.up = "sweep" /\ env'.faults = env.faults + 1
      <3>1. env \in EnvType /\ env.faults + 1 \in Nat
        BY Types DEF EnvType
      <3>2. env' = [env EXCEPT !.up = "sweep", !.faults = env.faults + 1]
        BY <1>3
      <3> QED
        BY <3>1, <3>2 DEF EnvType
    <2> QED
      BY <1>1, <1>3, <2>1, DelStays
  <1> QED
    BY <1>2, <1>3 DEF Restart

(* The sweep of a tombstone: it is put back or removed, or some of it stays.  *)
EnvSweeps(p, n) == /\ env' \in EnvType /\ env'.up = "sweep" /\ env'.todo = env.todo \ {p}
                   /\ env'.faults = env.faults + n
LEMMA SweepEffect ==
  ASSUME TypeOK, Sweep
  PROVE  /\ env.up = "sweep" /\ UNCHANGED <<row, del, up, thr, lock, known>> /\ DelSame
         /\ \E p \in env.todo :
              \/ /\ Uncommitted(p) /\ dir' = [dir EXCEPT ![p] = tomb[p]]
                 /\ tomb' = [tomb EXCEPT ![p] = Absent] /\ EnvSweeps(p, 0)
              \/ "restore" \in FaultySteps /\ EnvSweeps(p, 1) /\ UNCHANGED <<dir, tomb>>
              \/ /\ ~Uncommitted(p) /\ UNCHANGED dir
                 /\ tomb' = [tomb EXCEPT ![p] = Absent] /\ EnvSweeps(p, 0)
              \/ /\ ~Uncommitted(p) /\ UNCHANGED dir /\ EnvSweeps(p, 1)
                 /\ \E c \in Remains(tomb[p]) : tomb' = [tomb EXCEPT ![p] = c]
  <1>1. env.up = "sweep" /\ UNCHANGED <<row, del, up, thr, lock, known>> /\ env \in EnvType
    BY Types DEF Sweep
  <1>2. PICK p \in env.todo :
          LET done == [env EXCEPT !.todo = @ \ {p}]
              failed == [done EXCEPT !.faults = @ + 1]
              MayFail(step) == step \in FaultySteps /\ env.faults < MaxFaults
          IN \/ /\ Uncommitted(p)
                /\ \/ /\ dir' = [dir EXCEPT ![p] = tomb[p]]
                      /\ tomb' = [tomb EXCEPT ![p] = Absent] /\ env' = done
                   \/ MayFail("restore") /\ env' = failed /\ UNCHANGED <<dir, tomb>>
             \/ /\ ~Uncommitted(p)
                /\ \/ tomb' = [tomb EXCEPT ![p] = Absent] /\ env' = done
                   \/ /\ MayFail("sweep") /\ env' = failed
                      /\ \E c \in Remains(tomb[p]) : tomb' = [tomb EXCEPT ![p] = c]
                /\ UNCHANGED dir
    BY DEF Sweep
  <1> DEFINE done == [env EXCEPT !.todo = @ \ {p}]
             failed == [done EXCEPT !.faults = @ + 1]
  <1>3. env' = done => EnvSweeps(p, 0)
    BY <1>1 DEF EnvType, EnvSweeps
  <1>4. env' = failed => EnvSweeps(p, 1)
    <2>1. done \in EnvType /\ done.up = "sweep" /\ done.todo = env.todo \ {p}
          /\ done.faults = env.faults
      BY <1>1 DEF EnvType
    <2> HIDE DEF done
    <2> QED
      BY <2>1 DEF EnvType, EnvSweeps
  <1> HIDE DEF done, failed
  <1>5. \/ /\ Uncommitted(p)
           /\ \/ /\ dir' = [dir EXCEPT ![p] = tomb[p]]
                 /\ tomb' = [tomb EXCEPT ![p] = Absent] /\ env' = done
              \/ "restore" \in FaultySteps /\ env' = failed /\ UNCHANGED <<dir, tomb>>
        \/ /\ ~Uncommitted(p)
           /\ \/ tomb' = [tomb EXCEPT ![p] = Absent] /\ env' = done
              \/ /\ env' = failed
                 /\ \E c \in Remains(tomb[p]) : tomb' = [tomb EXCEPT ![p] = c]
           /\ UNCHANGED dir
    BY <1>2, Zenon DEF done, failed
  <1> QED
    BY <1>1, <1>2, <1>3, <1>4, <1>5, DelStays

LEMMA SweptEffect ==
  ASSUME TypeOK, Swept
  PROVE  /\ env.up = "sweep" /\ env.todo = {} /\ env' \in EnvType /\ env'.up = "up"
         /\ env'.todo = {} /\ env'.faults = env.faults
         /\ UNCHANGED <<dir, tomb, row, del, up, thr, lock, known>> /\ DelSame
  BY Types, DelStays DEF Swept, EnvType

LEMMA CrashEffect ==
  ASSUME ConstantsAssumption, TypeOK, Crash
  PROVE  /\ env.up # "down" /\ env' \in EnvType /\ env'.up = "down" /\ env'.faults = env.faults
         /\ del' = NoDel /\ lock' = "none"
         /\ up' \in UpType /\ up'.at = "idle" /\ up'.gen = up.gen /\ up'.seen = "none"
         /\ thr' \in [Gens -> ThrType] /\ \A g \in Gens : thr'[g].at = "none"
         /\ UNCHANGED <<dir, row, known>>
         /\ \/ UNCHANGED tomb
            \/ \E p \in Removing : \E c \in Remains(tomb[p]) : tomb' = [tomb EXCEPT ![p] = c]
  <1>1. /\ env.up # "down" /\ del' = NoDel /\ lock' = "none"
        /\ UNCHANGED <<dir, row, known>>
        /\ \/ UNCHANGED tomb
           \/ \E p \in Removing : \E c \in Remains(tomb[p]) : tomb' = [tomb EXCEPT ![p] = c]
    BY DEF Crash
  <1>2. env' \in EnvType /\ env'.up = "down" /\ env'.faults = env.faults
    <2>1. env \in EnvType /\ env.crashes + 1 \in Nat
      BY Types DEF EnvType
    <2>2. env' = [env EXCEPT !.up = "down", !.crashes = env.crashes + 1, !.todo = {}]
      BY DEF Crash
    <2> QED
      BY <2>1, <2>2 DEF EnvType
  <1>3. up' \in UpType /\ up'.at = "idle" /\ up'.gen = up.gen /\ up'.seen = "none"
    BY Types DEF Crash, NoUp, UpType, ConstantsAssumption
  <1>4. thr' \in [Gens -> ThrType] /\ \A g \in Gens : thr'[g].at = "none"
    BY DEF Crash, NoThr, ThrType, ConstantsAssumption
  <1> QED
    BY <1>1, <1>2, <1>3, <1>4

-----------------------------------------------------------------------------
(* The first invariant: what holds whatever fails.                            *)

(* Two locks: a delete and an upload exclude each other by the lock of the    *)
(* doc_id, and whoever writes holds the writer lock.  A process that is not   *)
(* up has neither, and no thread.                                             *)
Locked ==
  /\ lock = "delete" <=> del.at \in {"aside", "clear", "back"}
  /\ lock = "upload" <=> up.at = "row"
  /\ \A g \in Gens : thr[g].at = "writing" => lock = "summary"
  /\ \A g, h \in Gens : thr[g].at = "writing" /\ thr[h].at = "writing" => g = h
  /\ del.at # "idle" => up.at = "idle"
  /\ env.up # "up" => del.at = "idle" /\ up.at = "idle" /\ \A g \in Gens : thr[g].at = "none"

(* What a delete has done so far: a directory it moved is a tombstone nobody  *)
(* has touched since, and once it has looked at a place there is none there.  *)
Steps ==
  /\ del.at \in {"idle", "locking"} => del.moved = {} /\ del.left = {}
  /\ del.at = "idle" => del.trigger = "none"
  /\ del.at = "clear" => del.moved = {} /\ ~Exists(row)
  /\ \A p \in del.moved :
       ~Exists(dir[p]) /\ Exists(tomb[p]) /\ tomb[p] # Torn /\ p \notin del.todo
  /\ del.at = "aside" => \A p \in Known \ del.todo : ~Exists(dir[p])

(* A torn tombstone is never one that a start puts back.                      *)
Whole ==
  /\ \A p \in Places : dir[p] # Torn
  /\ \A p \in Places : tomb[p] = Torn => ~Uncommitted(p)

(* While nothing has failed a tombstone is in the hands of a delete or of the *)
(* start that will settle it.                                                 *)
Clean ==
  env.faults = 0 =>
    /\ del.at # "back"
    /\ \A p \in Places : Exists(tomb[p]) =>
         \/ p \in del.moved
         \/ del.at = "clear" /\ p \in del.left
         \/ env.up = "down"
         \/ env.up = "sweep" /\ p \in env.todo

(* Threads belong to uploads that were answered; an upload that found no      *)
(* document is alone with the directory it made; a thread that writes found   *)
(* its own version; and what is about to be written may not be called gone.   *)
Uploading ==
  /\ up.at = "fail_row" => ~up.replacing
  /\ \A g \in Gens : thr[g].at # "none" => g < up.gen \/ (g = up.gen /\ up.at = "idle")
  /\ up.at # "idle" /\ ~up.replacing =>
       \A p \in Known : dir[p] \in Gens => p = up.place /\ dir[p] = up.gen
  /\ \A g \in Gens : thr[g].at = "writing" => dir[thr[g].place] = g
  /\ up.at \in {"row", "answer"} => known # Absent

(* What the clients may call gone has no row and no version, also not one     *)
(* that a delete which fails would put back.                                  *)
Vanished ==
  known = Absent =>
    /\ ~Exists(row)
    /\ \A p \in Known : dir[p] \notin Gens /\ (p \in del.moved => tomb[p] \notin Gens)

SafeInv == TypeInv /\ Locked /\ Steps /\ Whole /\ Clean /\ Uploading /\ Vanished

(* _doc_exists_anywhere, place by place.                                      *)
LEMMA Anywhere ==
  ASSUME ConstantsAssumption
  PROVE  /\ ~ExistsAnywhere => \A p \in Known : dir[p] \notin Gens
         /\ ExistsAnywhere /\ ~Exists(row) => \E p \in Known : dir[p] \in Gens
  BY DEF ExistsAnywhere, Resolved, Typeds, Readable, Known, Places, Exists, ConstantsAssumption

(* The parts of the invariant a step leaves alone, by what it leaves alone.   *)
LEMMA SameWhole == ASSUME Whole, UNCHANGED <<dir, tomb, row>> PROVE Whole'
  BY DEF Whole, Uncommitted, Exists
LEMMA SameVanished ==
  ASSUME Vanished, UNCHANGED <<dir, tomb, row, known>>, del'.moved \subseteq del.moved
  PROVE  Vanished'
  BY DEF Vanished, Exists
LEMMA TombVanished ==
  ASSUME Vanished, UNCHANGED <<dir, row, known>>, del'.moved \subseteq del.moved,
         \A p \in del.moved : tomb'[p] = tomb[p]
  PROVE  Vanished'
  BY DEF Vanished, Exists
LEMMA SameSteps == ASSUME Steps, DelSame, UNCHANGED <<dir, tomb, row>> PROVE Steps'
  BY DEF Steps, DelSame, DelGets, Exists
LEMMA SameClean == ASSUME Clean, DelSame, EnvSame, UNCHANGED tomb PROVE Clean'
  BY DEF Clean, DelSame, DelGets, EnvSame, Exists
LEMMA FaultClean == ASSUME TypeOK, EnvFaults PROVE Clean'
  BY Types DEF Clean, EnvFaults, EnvType
LEMMA SameUploading == ASSUME Uploading, UNCHANGED <<dir, up, thr, known>> PROVE Uploading'
  BY DEF Uploading
LEMMA SafeParts ==
  ASSUME SafeInv
  PROVE  TypeOK /\ TypeInv /\ Locked /\ Steps /\ Whole /\ Clean /\ Uploading /\ Vanished
  BY DEF SafeInv, TypeInv

LEMMA RetentionPicksSafe ==
  ASSUME ConstantsAssumption, SafeInv, RetentionPicks
  PROVE  SafeInv'
  <1>1. DelSame /\ EnvSame /\ UNCHANGED <<dir, tomb, row, lock, known, up, thr, env>>
    BY RetentionPicksEffect, SafeParts
  <1>2. TypeInv'
    BY <1>1, SafeParts, Types, TypesNext DEF TypeInv, DelSame, DelGets
  <1>3. Locked'
    BY <1>1, SafeParts DEF Locked, DelSame, DelGets
  <1> QED
    BY <1>1, <1>2, <1>3, SafeParts, SameWhole, SameVanished, SameSteps, SameClean,
       SameUploading DEF SafeInv, DelSame, DelGets

LEMMA DeleteAsksSafe ==
  ASSUME ConstantsAssumption, SafeInv, DeleteAsks
  PROVE  SafeInv'
  <1>1. /\ env.up = "up" /\ del.at = "idle" /\ up.at = "idle"
        /\ UNCHANGED <<dir, tomb, row, lock, known, up, thr>> /\ EnvSame
    BY DeleteAsksEffect, SafeParts
  <1>2. /\ del' \in DelType /\ del'.at \in {"idle", "locking"} /\ del'.moved = del.moved
        /\ del'.left = del.left /\ del'.todo = del.todo
        /\ del'.at = "idle" => del'.trigger = del.trigger
    BY <1>1, DeleteAsksEffect, SafeParts DEF Begins, DelSame, DelGets
  <1>3. TypeInv'
    BY <1>1, <1>2, SafeParts, Types, TypesNext DEF TypeInv, EnvSame
  <1>4. Locked'
    BY <1>1, <1>2, SafeParts DEF Locked, EnvSame
  <1>5. Steps'
    BY <1>1, <1>2, SafeParts DEF Steps, Exists
  <1>6. Clean'
    BY <1>1, <1>2, SafeParts DEF Clean, Exists, EnvSame
  <1> QED
    BY <1>1, <1>2, <1>3, <1>4, <1>5, <1>6, SafeParts, SameWhole, SameVanished,
       SameUploading DEF SafeInv, DelSame, DelGets

LEMMA DeleteLocksSafe ==
  ASSUME ConstantsAssumption, SafeInv, DeleteLocks
  PROVE  SafeInv'
  <1>1. /\ env.up = "up" /\ del.at = "locking" /\ lock = "none" /\ lock' = "delete"
        /\ DelGets("aside", Candidates, del.moved, del.left)
        /\ UNCHANGED <<dir, tomb, row, known, up, thr>> /\ EnvSame
    BY DeleteLocksEffect, SafeParts
  <1>2. TypeInv'
    BY <1>1, SafeParts, Types, TypesNext DEF TypeInv, EnvSame, DelGets
  <1>3. Locked'
    <2>1. \A g \in Gens : thr[g].at # "writing"
      BY <1>1, SafeParts DEF Locked
    <2> QED
      BY <1>1, <2>1, SafeParts DEF Locked, EnvSame, DelGets
  <1>4. Steps'
    <2>1. del.moved = {} /\ Known \subseteq Candidates
      BY <1>1, SafeParts DEF Steps, Candidates
    <2> QED
      BY <1>1, <2>1 DEF Steps, DelGets
  <1>5. Clean'
    BY <1>1, SafeParts DEF Clean, EnvSame, DelGets, Exists
  <1> QED
    BY <1>1, <1>2, <1>3, <1>4, <1>5, SafeParts, SameWhole, SameVanished,
       SameUploading DEF SafeInv, DelSame, DelGets

(* Whatever a delete does to a place, others see the locks it holds.          *)
LEMMA DelLocked ==
  ASSUME SafeInv, UNCHANGED <<lock, up, thr>>, env'.up = env.up,
         del.at \in {"aside", "clear", "back"}, del'.at \in {"aside", "clear", "back"}
  PROVE  Locked'
  BY SafeParts DEF Locked
(* No thread writes while a delete holds the writer lock.                     *)
LEMMA DelUploading ==
  ASSUME SafeInv, UNCHANGED <<up, thr>>, del.at \in {"aside", "clear", "back"}
  PROVE  Uploading'
  BY SafeParts DEF Uploading, Locked

LEMMA SetAsideSafe ==
  ASSUME ConstantsAssumption, SafeInv, SetAside
  PROVE  SafeInv'
  <1>1. env.up = "up" /\ del.at = "aside" /\ UNCHANGED <<row, lock, known, up, thr>>
    BY SetAsideEffect, SafeParts
  <1>2. PICK p \in del.todo : \/ Skips(p) \/ DropsStale(p) \/ TearsStale(p) \/ Renames(p)
                              \/ GivesUp
    BY SetAsideEffect, SafeParts
  <1>3. p \in Places
    BY SafeParts, Types DEF DelType
  <1>4. /\ dir \in Dirs /\ tomb \in Dirs
        /\ env'.up = env.up /\ env' \in EnvType /\ del' \in DelType
        /\ del'.at \in {"aside", "back"}
    BY <1>1, <1>2, SafeParts, Types
    DEF Skips, DropsStale, TearsStale, Renames, GivesUp, EnvSame, EnvFaults, DelSame, DelGets
  <1>5. Locked' /\ Uploading'
    BY <1>1, <1>4, DelLocked, DelUploading
  <1>6. CASE Skips(p)
    <2>1. TypeInv'
      BY <1>1, <1>4, <1>6, SafeParts, Types, TypesNext DEF TypeInv, Skips
    <2>2. Steps'
      BY <1>1, <1>6, SafeParts DEF Steps, Skips, DelGets, Exists
    <2>3. Clean'
      BY <1>1, <1>6, SafeParts DEF Clean, Skips, DelGets, EnvSame, Exists
    <2> QED
      BY <1>1, <1>5, <1>6, <2>1, <2>2, <2>3, SafeParts, SameWhole, SameVanished
      DEF SafeInv, Skips, DelGets
  <1>7. CASE DropsStale(p)
    <2>1. TypeInv'
      <3>1. tomb' \in Dirs
        BY <1>3, <1>4, <1>7 DEF DropsStale, Dirs
      <3> QED
        BY <1>1, <1>4, <1>7, <3>1, SafeParts, Types, TypesNext DEF TypeInv, DropsStale
    <2>2. Steps'
      BY <1>1, <1>3, <1>4, <1>7, SafeParts DEF Steps, DropsStale, DelSame, DelGets, Exists, Dirs
    <2>3. Clean'
      BY <1>1, <1>3, <1>4, <1>7, SafeParts DEF Clean, DropsStale, DelSame, DelGets, EnvSame, Exists, Dirs
    <2>4. Whole'
      BY <1>1, <1>3, <1>4, <1>7, SafeParts
      DEF Whole, DropsStale, Uncommitted, Exists, Dirs, ConstantsAssumption
    <2>5. Vanished'
      BY <1>1, <1>3, <1>4, <1>7, SafeParts, TombVanished
      DEF DropsStale, DelSame, DelGets, Dirs, Steps
    <2> QED
      BY <1>1, <1>5, <1>7, <2>1, <2>2, <2>3, <2>4, <2>5, SafeParts
      DEF SafeInv, DropsStale
  <1>8. CASE TearsStale(p)
    <2>0. PICK c \in Remains(tomb[p]) : tomb' = [tomb EXCEPT ![p] = c]
      BY <1>8 DEF TearsStale
    <2>1. TypeInv'
      <3>1. c \in Content \cup {Absent}
        BY <1>3, <1>4, RemainsType DEF Dirs
      <3>2. tomb' \in Dirs
        BY <1>3, <1>4, <2>0, <3>1 DEF Dirs
      <3> QED
        BY <1>1, <1>4, <1>8, <3>2, SafeParts, Types, TypesNext DEF TypeInv, TearsStale
    <2>2. Steps'
      BY <1>1, <1>3, <1>4, <1>8, <2>0, SafeParts DEF Steps, TearsStale, DelGets, Exists, Dirs
    <2>4. Whole'
      BY <1>1, <1>3, <1>4, <1>8, <2>0, SafeParts DEF Whole, TearsStale, Uncommitted, Exists, Dirs
    <2>5. Vanished'
      BY <1>1, <1>3, <1>4, <1>8, <2>0, SafeParts, TombVanished DEF TearsStale, DelGets, Dirs, Steps
    <2> QED
      BY <1>1, <1>5, <1>8, <2>1, <2>2, <2>4, <2>5, SafeParts, FaultClean
      DEF SafeInv, TearsStale
  <1>9. CASE Renames(p)
    <2>1. dir' \in Dirs /\ tomb' \in Dirs
      BY <1>3, <1>4, <1>9 DEF Renames, Dirs
    <2>2. TypeInv'
      BY <1>1, <1>4, <1>9, <2>1, SafeParts, Types, TypesNext DEF TypeInv, Renames
    <2>3. /\ dir'[p] = Absent /\ tomb'[p] = dir[p] /\ dir[p] # Absent /\ dir[p] # Torn
          /\ \A q \in Places \ {p} : dir'[q] = dir[q] /\ tomb'[q] = tomb[q]
      BY <1>3, <1>4, <1>9, SafeParts DEF Renames, Dirs, Whole, Exists
    <2>4. Steps'
      <3>1. p \notin del.moved /\ del.moved \subseteq Places
        BY <1>2, SafeParts, Types DEF Steps, DelType
      <3> QED
        BY <1>1, <1>3, <1>9, <2>3, <3>1, SafeParts
        DEF Steps, Renames, DelGets, Exists, Known, Places
    <2>5. Clean'
      BY <1>1, <1>3, <1>9, <2>3, SafeParts DEF Clean, Renames, DelGets, EnvSame, Exists
    <2>6. Whole'
      BY <1>1, <2>3, SafeParts DEF Whole, Uncommitted, Exists, ConstantsAssumption
    <2>7. Vanished'
      BY <1>1, <1>9, <2>3, SafeParts
      DEF Vanished, Renames, DelGets, Exists, Known, Places, ConstantsAssumption
    <2> QED
      BY <1>5, <2>2, <2>4, <2>5, <2>6, <2>7 DEF SafeInv
  <1>10. CASE GivesUp
    <2>1. TypeInv'
      BY <1>1, <1>4, <1>10, SafeParts, Types, TypesNext DEF TypeInv, GivesUp
    <2>2. Steps'
      BY <1>1, <1>10, SafeParts DEF Steps, GivesUp, DelGets, Exists
    <2> QED
      BY <1>1, <1>5, <1>10, <2>1, <2>2, SafeParts, SameWhole, SameVanished, FaultClean
      DEF SafeInv, GivesUp, DelGets
  <1> QED
    BY <1>2, <1>6, <1>7, <1>8, <1>9, <1>10

LEMMA CommitDeleteSafe ==
  ASSUME ConstantsAssumption, SafeInv, CommitDelete
  PROVE  SafeInv'
  <1>1. /\ env.up = "up" /\ del.at = "aside" /\ del.todo = {}
        /\ UNCHANGED <<dir, tomb, lock, up, thr>>
    BY CommitDeleteEffect, SafeParts
  <1>2. CASE /\ row' = Absent /\ known' = Absent /\ EnvSame
             /\ DelGets("clear", {}, {}, del.left \cup del.moved)
    <2>1. TypeInv'
      BY <1>1, <1>2, SafeParts, Types, TypesNext DEF TypeInv, EnvSame, DelGets
    <2>2. Locked' /\ Uploading'
      BY <1>1, <1>2, DelLocked, DelUploading DEF EnvSame, DelGets
    <2>3. Steps'
      BY <1>2 DEF Steps, DelGets, Exists
    <2>4. Clean'
      BY <1>1, <1>2, SafeParts DEF Clean, DelGets, EnvSame, Exists
    <2>5. Whole'
      BY <1>1, <1>2, SafeParts DEF Whole, Uncommitted, Exists
    <2>6. Vanished'
      BY <1>1, <1>2, SafeParts DEF Vanished, Steps, DelGets, Exists, ConstantsAssumption
    <2> QED
      BY <2>1, <2>2, <2>3, <2>4, <2>5, <2>6 DEF SafeInv
  <1>3. CASE GivesUp /\ UNCHANGED <<row, known>>
    <2>1. TypeInv'
      BY <1>1, <1>3, SafeParts, Types, TypesNext DEF TypeInv, GivesUp, EnvFaults, DelGets
    <2>2. Locked' /\ Uploading'
      BY <1>1, <1>3, DelLocked, DelUploading DEF GivesUp, EnvFaults, DelGets
    <2>3. Steps'
      BY <1>1, <1>3, SafeParts DEF Steps, GivesUp, DelGets, Exists
    <2> QED
      BY <1>1, <1>3, <2>1, <2>2, <2>3, SafeParts, SameWhole, SameVanished, FaultClean
      DEF SafeInv, GivesUp, DelGets
  <1> QED
    BY <1>2, <1>3, CommitDeleteEffect, SafeParts

LEMMA ClearTombstoneSafe ==
  ASSUME ConstantsAssumption, SafeInv, ClearTombstone
  PROVE  SafeInv'
  <1>1. /\ env.up = "up" /\ del.at = "clear" /\ UNCHANGED <<dir, row, lock, known, up, thr>>
    BY ClearTombstoneEffect, SafeParts
  <1>2. PICK p \in del.left :
          /\ DelGets("clear", del.todo, del.moved, del.left \ {p})
          /\ \/ tomb' = [tomb EXCEPT ![p] = Absent] /\ EnvSame
             \/ EnvFaults /\ \E c \in Remains(tomb[p]) : tomb' = [tomb EXCEPT ![p] = c]
    BY ClearTombstoneEffect, SafeParts
  <1>3. p \in Places /\ tomb \in Dirs /\ ~Exists(row) /\ del.moved = {}
    BY <1>1, SafeParts, Types DEF DelType, Steps
  <1>4. PICK c \in Content \cup {Absent} :
          tomb' = [tomb EXCEPT ![p] = c] /\ (EnvSame => c = Absent)
    <2>1. CASE tomb' = [tomb EXCEPT ![p] = Absent] /\ EnvSame
      BY <2>1
    <2>2. CASE EnvFaults /\ \E c \in Remains(tomb[p]) : tomb' = [tomb EXCEPT ![p] = c]
      <3>1. ~EnvSame
        BY <2>2, SafeParts, Types DEF EnvFaults, EnvSame, EnvType
      <3> QED
        BY <1>3, <2>2, <3>1, RemainsType DEF Dirs
    <2> QED
      BY <1>2, <2>1, <2>2
  <1>5. tomb' \in Dirs /\ tomb'[p] = c /\ \A q \in Places \ {p} : tomb'[q] = tomb[q]
    BY <1>3, <1>4 DEF Dirs
  <1>6. env' \in EnvType /\ env'.up = env.up
    BY <1>2 DEF EnvSame, EnvFaults
  <1>7. TypeInv'
    BY <1>1, <1>2, <1>5, <1>6, SafeParts, Types, TypesNext DEF TypeInv, DelGets
  <1>8. Locked' /\ Uploading'
    BY <1>1, <1>2, <1>6, DelLocked, DelUploading DEF DelGets
  <1>9. Steps'
    BY <1>1, <1>2, <1>3 DEF Steps, DelGets, Exists
  <1>10. Whole'
    BY <1>1, <1>3, SafeParts DEF Whole, Uncommitted, Exists
  <1>11. Clean'
    <2>1. CASE EnvSame
      BY <1>1, <1>2, <1>3, <1>4, <1>5, <2>1, SafeParts DEF Clean, DelGets, EnvSame, Exists
    <2>2. CASE EnvFaults
      BY <2>2, FaultClean, SafeParts
    <2> QED
      BY <1>2, <2>1, <2>2
  <1>12. Vanished'
    BY <1>1, <1>2, <1>3, SafeParts, TombVanished DEF DelGets
  <1> QED
    BY <1>1, <1>7, <1>8, <1>9, <1>10, <1>11, <1>12, SafeParts DEF SafeInv

LEMMA PutBackAsideSafe ==
  ASSUME ConstantsAssumption, SafeInv, PutBackAside
  PROVE  SafeInv'
  <1>1. /\ env.up = "up" /\ del.at = "back" /\ UNCHANGED <<row, lock, known, up, thr>>
    BY PutBackAsideEffect, SafeParts
  <1>2. PICK p \in del.moved :
          /\ DelGets("back", del.todo, del.moved \ {p}, del.left)
          /\ \/ /\ dir' = [dir EXCEPT ![p] = tomb[p]]
                /\ tomb' = [tomb EXCEPT ![p] = Absent] /\ EnvSame
             \/ "put_back" \in FaultySteps /\ UNCHANGED <<dir, tomb>> /\ EnvFaults
    BY PutBackAsideEffect, SafeParts
  <1>3. p \in Places /\ dir \in Dirs /\ tomb \in Dirs
    BY <1>1, <1>2, SafeParts, Types DEF DelType
  <1>4. env' \in EnvType /\ env'.up = env.up
    BY <1>2 DEF EnvSame, EnvFaults
  <1>5. Locked' /\ Uploading'
    BY <1>1, <1>2, <1>4, DelLocked, DelUploading DEF DelGets
  <1>6. CASE /\ dir' = [dir EXCEPT ![p] = tomb[p]]
             /\ tomb' = [tomb EXCEPT ![p] = Absent] /\ EnvSame
    <2>1. /\ dir' \in Dirs /\ tomb' \in Dirs /\ dir'[p] = tomb[p] /\ tomb'[p] = Absent
          /\ \A q \in Places \ {p} : dir'[q] = dir[q] /\ tomb'[q] = tomb[q]
      BY <1>3, <1>6 DEF Dirs
    <2>2. /\ ~Exists(dir[p]) /\ Exists(tomb[p]) /\ tomb[p] # Torn /\ env.faults # 0
      BY <1>1, <1>2, SafeParts DEF Steps, Clean
    <2>3. TypeInv'
      BY <1>1, <1>2, <1>4, <2>1, SafeParts, Types, TypesNext DEF TypeInv, DelGets
    <2>4. Steps'
      <3>1. del.moved \subseteq Places
        BY SafeParts, Types DEF DelType
      <3> QED
        BY <1>1, <1>2, <2>1, <3>1, SafeParts DEF Steps, DelGets
    <2>5. Whole'
      BY <1>1, <2>1, <2>2, SafeParts DEF Whole, Uncommitted, Exists, ConstantsAssumption
    <2>6. Clean'
      BY <1>6, <2>2 DEF Clean, EnvSame
    <2>7. Vanished'
      BY <1>1, <1>2, <2>1, SafeParts DEF Vanished, DelGets, Exists, Known, Places, ConstantsAssumption
    <2> QED
      BY <1>5, <2>3, <2>4, <2>5, <2>6, <2>7 DEF SafeInv
  <1>7. CASE UNCHANGED <<dir, tomb>> /\ EnvFaults
    <2>1. TypeInv'
      BY <1>1, <1>2, <1>4, <1>7, SafeParts, Types, TypesNext DEF TypeInv, DelGets
    <2>2. Steps'
      BY <1>1, <1>2, <1>7, SafeParts DEF Steps, DelGets, Exists
    <2> QED
      BY <1>1, <1>2, <1>5, <1>7, <2>1, <2>2, SafeParts, SameWhole, SameVanished, FaultClean
      DEF SafeInv, DelGets
  <1> QED
    BY <1>2, <1>6, <1>7

LEMMA DeleteAnswersSafe ==
  ASSUME ConstantsAssumption, SafeInv, DeleteAnswers
  PROVE  SafeInv'
  <1>1. /\ env.up = "up"
        /\ \/ del.at = "clear" /\ del.left = {}
           \/ del.at = "back" /\ del.moved = {}
        /\ del' \in DelType /\ del'.at = "idle" /\ del'.todo = {} /\ del'.moved = {}
        /\ del'.left = {} /\ del'.trigger = "none"
        /\ lock' = "none" /\ UNCHANGED <<dir, tomb, row, known, up, thr>> /\ EnvSame
    BY DeleteAnswersEffect, SafeParts
  <1>2. TypeInv'
    BY <1>1, SafeParts, Types, TypesNext DEF TypeInv, EnvSame
  <1>3. Locked'
    BY <1>1, SafeParts DEF Locked, EnvSame
  <1>4. Steps'
    BY <1>1 DEF Steps
  <1>5. Clean'
    BY <1>1, SafeParts DEF Clean, EnvSame, Exists, Steps
  <1> QED
    BY <1>1, <1>2, <1>3, <1>4, <1>5, SafeParts, SameWhole, SameVanished, SameUploading DEF SafeInv

-----------------------------------------------------------------------------
(* The steps of an upload.                                                    *)

(* A step of an upload that leaves the library and the locks alone.           *)
LEMMA UpSafe ==
  ASSUME ConstantsAssumption, SafeInv, DelSame, EnvSame, env.up = "up", up' \in UpType,
         UNCHANGED <<dir, tomb, row, thr, lock, known>>,
         up'.at # "row", up.at # "row", del.at = "idle", TypeInv', Uploading'
  PROVE  SafeInv'
  <1>1. Locked'
    BY SafeParts DEF Locked, DelSame, DelGets, EnvSame
  <1> QED
    BY <1>1, SafeParts, SameWhole, SameVanished, SameSteps, SameClean DEF SafeInv, DelSame, DelGets

LEMMA ArriveSafe ==
  ASSUME ConstantsAssumption, SafeInv, Arrive
  PROVE  SafeInv'
  <1>1. /\ env.up = "up" /\ up.gen < MaxGen
        /\ up' \in UpType /\ up'.at = up.at /\ up'.gen = up.gen /\ up'.place = up.place
        /\ up'.replacing = up.replacing
        /\ UNCHANGED <<dir, row, thr, lock, known, tomb>> /\ DelSame /\ EnvSame
    BY ArriveEffect, SafeParts
  <1>2. TypeInv'
    BY <1>1, SafeParts, Types, TypesNext DEF TypeInv, EnvSame, DelSame, DelGets
  <1>3. Locked'
    BY <1>1, SafeParts DEF Locked, EnvSame, DelSame, DelGets
  <1>4. Uploading'
    BY <1>1, SafeParts DEF Uploading
  <1> QED
    BY <1>1, <1>2, <1>3, <1>4, SafeParts, SameWhole, SameVanished, SameSteps, SameClean
    DEF SafeInv, DelSame, DelGets

LEMMA StartSafe ==
  ASSUME ConstantsAssumption, SafeInv, Start
  PROVE  SafeInv'
  <1>1. /\ env.up = "up" /\ del.at = "idle" /\ up.at = "idle"
        /\ up' \in UpType /\ up'.at = "parse" /\ up'.gen = up.gen + 1 /\ up'.seen = "none"
        /\ ~up'.replacing => ~ExistsAnywhere
        /\ dir' = [dir EXCEPT ![up'.place] = IF Exists(@) THEN @ ELSE Empty]
        /\ UNCHANGED <<row, thr, lock, known, tomb>> /\ DelSame /\ EnvSame
    BY StartEffect, SafeParts
  <1>2. /\ up'.place \in Places /\ up'.place \in Typed /\ dir \in Dirs /\ up \in UpType
        /\ up.gen \in Nat /\ del.moved = {}
    BY <1>1, SafeParts, Types DEF UpType, Known, Places, Gens, ConstantsAssumption, Steps
  <1>3. /\ dir' \in Dirs
        /\ dir'[up'.place] = dir[up'.place] \/ (dir'[up'.place] = Empty /\ ~Exists(dir[up'.place]))
        /\ \A q \in Places \ {up'.place} : dir'[q] = dir[q]
    <2>1. CASE Exists(dir[up'.place])
      <3>1. dir' = dir
        BY <1>1, <1>2, <2>1 DEF Dirs
      <3> QED
        BY <1>2, <3>1
    <2>2. CASE ~Exists(dir[up'.place])
      <3>1. dir' = [dir EXCEPT ![up'.place] = Empty]
        BY <1>1, <2>2
      <3> QED
        BY <1>2, <2>2, <3>1 DEF Dirs, Content
    <2> QED
      BY <2>1, <2>2
  <1>4. \A q \in Places : (dir'[q] \in Gens => dir'[q] = dir[q]) /\ (Exists(dir[q]) => dir'[q] = dir[q])
    BY <1>3 DEF ConstantsAssumption, Exists
  <1>5. TypeInv'
    BY <1>1, <1>3, SafeParts, Types, TypesNext DEF TypeInv, EnvSame, DelSame, DelGets
  <1>6. Locked'
    BY <1>1, SafeParts DEF Locked, EnvSame, DelSame, DelGets
  <1>7. Steps'
    BY <1>1, <1>2, SafeParts DEF Steps, DelSame, DelGets
  <1>8. Whole'
    BY <1>1, <1>3, <1>4, SafeParts DEF Whole, Uncommitted, Exists, ConstantsAssumption
  <1>9. Uploading'
    <2>1. \A g \in Gens : thr'[g].at # "none" => g < up'.gen
      BY <1>1, <1>2, SafeParts DEF Uploading, Gens, ConstantsAssumption
    <2>2. ~up'.replacing => \A p \in Known : dir'[p] \notin Gens
      BY <1>1, <1>4, Anywhere DEF Places
    <2>3. \A g \in Gens : thr'[g].at = "writing" => dir'[thr'[g].place] = g
      <3>1. \A g \in Gens : thr[g].place \in Places
        BY SafeParts, Types DEF ThrType, Known, Places
      <3> QED
        BY <1>1, <1>4, <3>1, SafeParts DEF Uploading, Exists, ConstantsAssumption
    <2> QED
      BY <1>1, <2>1, <2>2, <2>3 DEF Uploading
  <1>10. Vanished'
    BY <1>1, <1>2, <1>4, SafeParts DEF Vanished, DelSame, DelGets, Exists, Places
  <1> QED
    BY <1>1, <1>5, <1>6, <1>7, <1>8, <1>9, <1>10, SafeParts, SameClean DEF SafeInv

LEMMA ParseSafe ==
  ASSUME ConstantsAssumption, SafeInv, Parse
  PROVE  SafeInv'
  <1>1. /\ env.up = "up" /\ up.at = "parse" /\ (UpGets("write") \/ UpGets("fail"))
        /\ UNCHANGED <<dir, row, thr, lock, known, tomb>> /\ DelSame /\ EnvSame
    BY ParseEffect, SafeParts
  <1>2. TypeInv'
    BY <1>1, SafeParts, Types, TypesNext DEF TypeInv, EnvSame, DelSame, DelGets, UpGets
  <1>3. Uploading'
    BY <1>1, SafeParts DEF Uploading, UpGets
  <1> QED
    BY <1>1, <1>2, <1>3, SafeParts, UpSafe DEF UpGets, Locked

LEMMA FailReplacementSafe ==
  ASSUME ConstantsAssumption, SafeInv, FailReplacement
  PROVE  SafeInv'
  <1>1. /\ env.up = "up" /\ up.at = "fail" /\ up.replacing /\ UpGets("idle")
        /\ UNCHANGED <<dir, row, thr, lock, known, tomb>> /\ DelSame /\ EnvSame
    BY FailReplacementEffect, SafeParts
  <1>2. TypeInv'
    BY <1>1, SafeParts, Types, TypesNext DEF TypeInv, EnvSame, DelSame, DelGets, UpGets
  <1>3. Uploading'
    BY <1>1, SafeParts DEF Uploading, UpGets
  <1> QED
    BY <1>1, <1>2, <1>3, SafeParts, UpSafe DEF UpGets, Locked

LEMMA WriteFilesSafe ==
  ASSUME ConstantsAssumption, SafeInv, WriteFiles
  PROVE  SafeInv'
  <1>1. /\ env.up = "up" /\ up.at = "write" /\ UpGets("row") /\ lock = "none" /\ lock' = "upload"
        /\ known' = IF known = Absent THEN Unknown ELSE known
        /\ dir' = [dir EXCEPT ![up.place] = IF @ \in Gens THEN @ ELSE up.gen]
        /\ UNCHANGED <<row, thr, tomb>> /\ DelSame /\ EnvSame
    BY WriteFilesEffect, SafeParts
  <1>2. /\ up.place \in Places /\ up.place \in Typed /\ dir \in Dirs /\ up.gen \in Gens
        /\ del.at = "idle" /\ del.moved = {} /\ known' # Absent
        /\ known' \in Gens \cup {Absent, Unknown}
    BY <1>1, SafeParts, Types DEF UpType, Known, Places, ConstantsAssumption, Steps, Locked
  <1>3. /\ dir' \in Dirs
        /\ dir'[up.place] \in Gens
        /\ dir'[up.place] = up.gen \/ dir'[up.place] = dir[up.place]
        /\ dir[up.place] \in Gens => dir'[up.place] = dir[up.place]
        /\ \A q \in Places \ {up.place} : dir'[q] = dir[q]
    <2>1. CASE dir[up.place] \in Gens
      <3>1. dir' = dir
        BY <1>1, <1>2, <2>1 DEF Dirs
      <3> QED
        BY <1>2, <2>1, <3>1
    <2>2. CASE dir[up.place] \notin Gens
      <3>1. dir' = [dir EXCEPT ![up.place] = up.gen]
        BY <1>1, <2>2
      <3> QED
        BY <1>2, <2>2, <3>1 DEF Dirs, Content
    <2> QED
      BY <2>1, <2>2
  <1>5. TypeInv'
    BY <1>1, <1>2, <1>3, SafeParts, Types, TypesNext DEF TypeInv, EnvSame, DelSame, DelGets, UpGets
  <1>6. Locked'
    BY <1>1, SafeParts DEF Locked, EnvSame, DelSame, DelGets, UpGets
  <1>7. Steps'
    BY <1>1, <1>2, SafeParts DEF Steps, DelSame, DelGets
  <1>8. Whole'
    BY <1>1, <1>2, <1>3, SafeParts DEF Whole, Uncommitted, Exists, ConstantsAssumption
  <1>9. Uploading'
    <2>1. \A g \in Gens : thr[g].at # "writing"
      BY <1>1, SafeParts DEF Locked
    <2>2. ~up.replacing =>  \A p \in Known : dir'[p] \in Gens => p = up.place /\ dir'[p] = up.gen
      BY <1>1, <1>2, <1>3, SafeParts DEF Uploading, Places
    <2> QED
      BY <1>1, <1>2, <2>1, <2>2, SafeParts DEF Uploading, UpGets
  <1> QED
    BY <1>1, <1>2, <1>5, <1>6, <1>7, <1>8, <1>9, SafeParts, SameClean DEF SafeInv, Vanished

LEMMA CommitRowSafe ==
  ASSUME ConstantsAssumption, SafeInv, CommitRow
  PROVE  SafeInv'
  <1>1. /\ env.up = "up" /\ up.at = "row" /\ lock' = "none"
        /\ UNCHANGED <<thr, known, tomb>> /\ DelSame
    BY CommitRowEffect, SafeParts
  <1>2. /\ up.place \in Places /\ up.place \in Typed /\ dir \in Dirs /\ up.gen \in Gens
        /\ del.at = "idle" /\ del.moved = {} /\ known # Absent /\ lock = "upload"
        /\ \A g \in Gens : thr[g].at # "writing"
    BY <1>1, SafeParts, Types DEF UpType, Known, Places, ConstantsAssumption, Steps, Locked, Uploading
  <1>3. CASE /\ row' = [gen |-> up.gen, place |-> up.place]
             /\ dir' = [dir EXCEPT ![up.place] = up.gen]
             /\ UpGets("answer") /\ EnvSame
    <2>1. /\ dir' \in Dirs /\ dir'[up.place] = up.gen
          /\ \A q \in Places \ {up.place} : dir'[q] = dir[q]
      BY <1>2, <1>3 DEF Dirs, Content
    <2>2. row' \in Row /\ row'.place = up.place
      BY <1>2, <1>3 DEF Row
    <2>3. TypeInv'
      BY <1>1, <1>2, <1>3, <2>1, <2>2, SafeParts, Types, TypesNext
      DEF TypeInv, EnvSame, DelSame, DelGets, UpGets
    <2>4. Locked'
      BY <1>1, <1>2, <1>3, SafeParts DEF Locked, EnvSame, DelSame, DelGets, UpGets
    <2>5. Steps'
      BY <1>1, <1>2, SafeParts DEF Steps, DelSame, DelGets
    <2>6. Whole'
      BY <1>1, <1>2, <2>1, <2>2, SafeParts DEF Whole, Uncommitted, Exists, ConstantsAssumption
    <2>7. Uploading'
      <3>1. ~up.replacing =>  \A p \in Known : dir'[p] \in Gens => p = up.place /\ dir'[p] = up.gen
        BY <1>1, <1>2, <2>1, SafeParts DEF Uploading, Places
      <3> QED
        BY <1>1, <1>2, <1>3, <3>1, SafeParts DEF Uploading, UpGets
    <2> QED
      BY <1>1, <1>2, <1>3, <2>3, <2>4, <2>5, <2>6, <2>7, SafeParts, SameClean DEF SafeInv, Vanished
  <1>4. CASE EnvFaults /\ UpGets("fail") /\ UNCHANGED <<row, dir>>
    <2>1. TypeInv'
      BY <1>1, <1>2, <1>4, SafeParts, Types, TypesNext
      DEF TypeInv, EnvFaults, DelSame, DelGets, UpGets
    <2>2. Locked'
      BY <1>1, <1>2, <1>4, SafeParts DEF Locked, EnvFaults, DelSame, DelGets, UpGets
    <2>3. Uploading'
      BY <1>1, <1>2, <1>4, SafeParts DEF Uploading, UpGets
    <2> QED
      BY <1>1, <1>4, <2>1, <2>2, <2>3, SafeParts, SameWhole, SameVanished, SameSteps, FaultClean
      DEF SafeInv, DelSame, DelGets
  <1> QED
    BY <1>3, <1>4, CommitRowEffect, SafeParts

LEMMA AnswerSafe ==
  ASSUME ConstantsAssumption, SafeInv, Answer
  PROVE  SafeInv'
  <1>1. /\ env.up = "up" /\ up.at = "answer"
        /\ UNCHANGED <<dir, row, lock, tomb>> /\ DelSame
    BY AnswerEffect, SafeParts
  <1>2. /\ up.place \in Typed /\ up.gen \in Gens /\ thr \in [Gens -> ThrType]
        /\ up.gen # Absent
    BY SafeParts, Types DEF UpType, ConstantsAssumption
  <1>3. CASE /\ UpGets("idle") /\ known' = up.gen /\ EnvSame
             /\ \/ UNCHANGED thr
                \/ thr' = [thr EXCEPT ![up.gen] = [at |-> "due", place |-> up.place]]
    <2>1. /\ thr' \in [Gens -> ThrType]
          /\ \A h \in Gens \ {up.gen} : thr'[h] = thr[h]
          /\ thr'[up.gen] = thr[up.gen] \/ thr'[up.gen].at = "due"
      <3>1. CASE UNCHANGED thr
        BY <1>2, <3>1
      <3>2. CASE thr' = [thr EXCEPT ![up.gen] = [at |-> "due", place |-> up.place]]
        BY <1>2, <3>2 DEF ThrType
      <3> QED
        BY <1>3, <3>1, <3>2
    <2>2. \A g \in Gens : /\ thr'[g].at = "writing" => thr'[g] = thr[g]
                          /\ thr'[g].at # "none" => thr[g].at # "none" \/ g = up.gen
      BY <2>1
    <2>3. TypeInv'
      BY <1>1, <1>2, <1>3, <2>1, SafeParts, Types, TypesNext
      DEF TypeInv, EnvSame, DelSame, DelGets, UpGets
    <2>4. Locked'
      BY <1>1, <1>3, <2>2, SafeParts DEF Locked, EnvSame, DelSame, DelGets, UpGets
    <2>5. Uploading'
      BY <1>1, <1>2, <1>3, <2>2, SafeParts DEF Uploading, UpGets
    <2>6. Vanished'
      BY <1>2, <1>3 DEF Vanished
    <2> QED
      BY <1>1, <1>3, <2>3, <2>4, <2>5, <2>6, SafeParts, SameWhole, SameSteps, SameClean DEF SafeInv
  <1>4. CASE EnvFaults /\ UpGets("fail") /\ UNCHANGED <<thr, known>>
    <2>1. TypeInv'
      BY <1>1, <1>4, SafeParts, Types, TypesNext DEF TypeInv, EnvFaults, DelSame, DelGets, UpGets
    <2>2. Locked'
      BY <1>1, <1>4, SafeParts DEF Locked, EnvFaults, DelSame, DelGets, UpGets
    <2>3. Uploading'
      BY <1>1, <1>4, SafeParts DEF Uploading, UpGets
    <2> QED
      BY <1>1, <1>4, <2>1, <2>2, <2>3, SafeParts, SameWhole, SameVanished, SameSteps, FaultClean
      DEF SafeInv, DelSame, DelGets
  <1> QED
    BY <1>3, <1>4, AnswerEffect, SafeParts

LEMMA FailNewSafe ==
  ASSUME ConstantsAssumption, SafeInv, FailNew
  PROVE  SafeInv'
  <1>1. env.up = "up" /\ UNCHANGED <<thr, lock, known, tomb>> /\ DelSame
    BY FailNewEffect, SafeParts
  <1>2. up.place \in Places /\ up.place \in Typed /\ dir \in Dirs
    BY SafeParts, Types DEF UpType, Known, Places
  (* The directory is emptied, or gets its record; the row stays or goes.     *)
  <1> DEFINE Leaves(x) ==
        /\ x \in {Empty, Record} /\ dir' = [dir EXCEPT ![up.place] = x]
        /\ row' = row \/ row' = Absent
        /\ up.at \in {"fail", "fail_row"} /\ (UpGets("fail_row") \/ UpGets("idle"))
        /\ EnvSame \/ EnvFaults
        /\ ~up.replacing
        /\ up'.at # "idle" => up'.replacing = up.replacing
  <1>3. Leaves(Empty) \/ Leaves(Record)
    <2>1. CASE /\ up.at = "fail" /\ ~up.replacing /\ UpGets("fail_row") /\ EnvSame
               /\ dir' = [dir EXCEPT ![up.place] = Empty] /\ UNCHANGED row
      BY <2>1 DEF UpGets
    <2>2. CASE /\ up.at = "fail_row" /\ UpGets("idle")
               /\ dir' = [dir EXCEPT ![up.place] = Record]
               /\ \/ row' = Absent /\ EnvSame
                  \/ EnvFaults /\ UNCHANGED row
      BY <2>2, SafeParts DEF UpGets, Uploading
    <2> QED
      BY <2>1, <2>2, FailNewEffect, SafeParts
  <1>4. PICK x \in {Empty, Record} : Leaves(x)
    BY <1>3
  <1>5. /\ dir' \in Dirs /\ dir'[up.place] = x /\ x \notin Gens /\ x # Torn /\ x # Absent
        /\ \A q \in Places \ {up.place} : dir'[q] = dir[q]
    BY <1>2, <1>4 DEF Dirs, Content, ConstantsAssumption
  <1>6. del.at = "idle" /\ del.moved = {}
    BY <1>1, <1>4, SafeParts DEF Locked, Steps
  <1>7. TypeInv'
    BY <1>1, <1>4, <1>5, SafeParts, Types, TypesNext
    DEF TypeInv, EnvSame, EnvFaults, DelSame, DelGets, UpGets
  <1>8. Locked'
    BY <1>1, <1>4, SafeParts DEF Locked, EnvSame, EnvFaults, DelSame, DelGets, UpGets
  <1>9. Steps'
    BY <1>1, <1>6, SafeParts DEF Steps, DelSame, DelGets
  <1>10. Whole'
    BY <1>1, <1>4, <1>5, SafeParts DEF Whole, Uncommitted, Exists
  <1>11. Vanished'
    BY <1>1, <1>2, <1>4, <1>5, <1>6, SafeParts DEF Vanished, DelSame, DelGets, Exists, Places
  <1>12. Uploading'
    <2>1. ~up.replacing /\ \A p \in Known : dir[p] \in Gens => p = up.place /\ dir[p] = up.gen
      BY <1>4, SafeParts DEF Uploading
    <2>2. \A g \in Gens : thr[g].at = "writing" => dir[thr[g].place] = g /\ thr[g].place \in Known
      BY SafeParts, Types DEF Uploading, ThrType, Known
    <2>3. \A g \in Gens : thr[g].at # "none" => g < up.gen
      BY <1>4, SafeParts DEF Uploading
    <2>4. \A g \in Gens : thr[g].at = "writing" => thr[g].place # up.place
      BY <2>1, <2>2, <2>3 DEF Gens
    <2>5. \A p \in Known : dir'[p] \notin Gens
      BY <1>2, <1>5, <2>1 DEF Places
    <2>6. \A g \in Gens : thr[g].at = "writing" => dir'[thr[g].place] = g
      BY <1>5, <2>2, <2>4 DEF Places
    <2> QED
      BY <1>1, <1>4, <2>1, <2>3, <2>5, <2>6 DEF Uploading, UpGets
  <1>13. Clean'
    BY <1>1, <1>4, SafeParts, SameClean, FaultClean
  <1> QED
    BY <1>7, <1>8, <1>9, <1>10, <1>11, <1>12, <1>13 DEF SafeInv

-----------------------------------------------------------------------------
(* The steps of a summary thread, of a start and of a crash.                  *)

LEMMA ThreadLooksSafe ==
  ASSUME ConstantsAssumption, SafeInv, NEW g \in Gens, ThreadLooks(g)
  PROVE  SafeInv'
  <1>1. /\ env.up = "up" /\ thr[g].at = "due" /\ lock = "none"
        /\ thr' \in [Gens -> ThrType] /\ thr'[g].place = thr[g].place
        /\ \A h \in Gens \ {g} : thr'[h] = thr[h]
        /\ \/ dir[thr[g].place] = g /\ thr'[g].at = "writing" /\ lock' = "summary"
           \/ dir[thr[g].place] # g /\ thr'[g].at = "over" /\ UNCHANGED lock
        /\ UNCHANGED <<dir, tomb, row, up, known>> /\ DelSame /\ EnvSame
    BY ThreadLooksEffect, SafeParts
  <1>2. \A h \in Gens : thr[h].at # "writing"
    BY <1>1, SafeParts DEF Locked
  <1>3. TypeInv'
    BY <1>1, SafeParts, Types, TypesNext DEF TypeInv, EnvSame, DelSame, DelGets
  <1>4. Locked'
    <2>1. \A h \in Gens : thr'[h].at = "writing" => h = g /\ lock' = "summary"
      BY <1>1, <1>2
    <2> QED
      BY <1>1, <2>1, SafeParts DEF Locked, EnvSame, DelSame, DelGets
  <1>5. Uploading'
    BY <1>1, <1>2, SafeParts DEF Uploading
  <1> QED
    BY <1>1, <1>3, <1>4, <1>5, SafeParts, SameWhole, SameVanished, SameSteps, SameClean
    DEF SafeInv, DelSame, DelGets

(* It writes what it found: its own version, in the place where it is.        *)
LEMMA ThreadFinds ==
  ASSUME SafeInv, NEW g \in Gens, ThreadWrites(g)
  PROVE  /\ UNCHANGED dir /\ thr[g].place \in Typed /\ dir[thr[g].place] = g
         /\ lock = "summary" /\ del.at \in {"idle", "locking"} /\ del.moved = {}
         /\ row' \in Row /\ row'.place = thr[g].place /\ row'.gen = g
         /\ \A h \in Gens \ {g} : thr[h].at # "writing"
  <1>1. thr[g].at = "writing" /\ dir' = [dir EXCEPT ![thr[g].place] = g]
    BY ThreadWritesEffect, SafeParts
  <1>2. thr[g].place \in Typed /\ thr[g].place \in Places /\ dir \in Dirs /\ del \in DelType
    BY SafeParts, Types DEF ThrType, Known, Places
  <1>3. dir[thr[g].place] = g /\ UNCHANGED dir
    BY <1>1, <1>2, SafeParts DEF Uploading, Dirs
  <1>4. /\ lock = "summary" /\ del.at \in {"idle", "locking"} /\ del.moved = {}
        /\ \A h \in Gens \ {g} : thr[h].at # "writing"
    BY <1>1, <1>2, SafeParts DEF Locked, Steps, DelType
  <1>5. row' \in Row /\ row'.place = thr[g].place /\ row'.gen = g
    BY <1>2, SafeParts, ThreadWritesEffect DEF Row
  <1> QED
    BY <1>2, <1>3, <1>4, <1>5

LEMMA ThreadWritesSafe ==
  ASSUME ConstantsAssumption, SafeInv, NEW g \in Gens, ThreadWrites(g)
  PROVE  SafeInv'
  <1>1. /\ env.up = "up" /\ thr[g].at = "writing"
        /\ thr' \in [Gens -> ThrType] /\ thr'[g].at = "over" /\ lock' = "none"
        /\ \A h \in Gens \ {g} : thr'[h] = thr[h]
        /\ UNCHANGED <<tomb, up, known>> /\ DelSame /\ EnvSame
    BY ThreadWritesEffect, SafeParts
  <1>2. /\ UNCHANGED dir /\ thr[g].place \in Typed /\ dir[thr[g].place] = g
        /\ lock = "summary" /\ del.at \in {"idle", "locking"} /\ del.moved = {}
        /\ row' \in Row /\ row'.place = thr[g].place
        /\ \A h \in Gens \ {g} : thr[h].at # "writing"
    BY ThreadFinds
  <1>3. TypeInv'
    BY <1>1, <1>2, SafeParts, Types, TypesNext DEF TypeInv, EnvSame, DelSame, DelGets
  <1>4. Locked'
    <2>1. \A h \in Gens : thr'[h].at # "writing"
      BY <1>1, <1>2
    <2> QED
      BY <1>1, <1>2, <2>1, SafeParts DEF Locked, EnvSame, DelSame, DelGets
  <1>5. Steps'
    BY <1>1, <1>2, SafeParts DEF Steps, DelSame, DelGets
  <1>6. Whole'
    BY <1>1, <1>2, SafeParts DEF Whole, Uncommitted, Exists, Known, Places, ConstantsAssumption
  <1>7. Uploading'
    BY <1>1, <1>2, SafeParts DEF Uploading
  <1>8. Vanished'
    BY <1>1, <1>2, SafeParts DEF Vanished, Known
  <1> QED
    BY <1>1, <1>3, <1>4, <1>5, <1>6, <1>7, <1>8, SafeParts, SameClean DEF SafeInv

LEMMA RestartSafe ==
  ASSUME ConstantsAssumption, SafeInv, Restart
  PROVE  SafeInv'
  <1>1. /\ env.up = "down" /\ env' \in EnvType /\ env'.up = "sweep"
        /\ \/ env'.faults = env.faults /\ env'.todo = Tombstones
           \/ env'.faults = env.faults + 1 /\ "read_index" \in FaultySteps
        /\ UNCHANGED <<dir, tomb, row, del, up, thr, lock, known>> /\ DelSame
    BY RestartEffect, SafeParts
  <1>2. TypeInv'
    BY <1>1, SafeParts, Types, TypesNext DEF TypeInv, DelSame, DelGets
  <1>3. Locked'
    BY <1>1, SafeParts DEF Locked
  <1>4. Clean'
    <2>1. env'.faults = env.faults \/ env'.faults # 0
      BY <1>1, SafeParts, Types DEF EnvType
    <2> QED
      BY <1>1, <2>1, SafeParts DEF Clean, Tombstones, Exists
  <1> QED
    BY <1>1, <1>2, <1>3, <1>4, SafeParts, SameWhole, SameVanished, SameSteps, SameUploading
    DEF SafeInv

LEMMA SweepSafe ==
  ASSUME ConstantsAssumption, SafeInv, Sweep
  PROVE  SafeInv'
  <1>1. env.up = "sweep" /\ UNCHANGED <<row, del, up, thr, lock, known>> /\ DelSame
    BY SweepEffect, SafeParts
  <1>2. PICK p \in env.todo :
          \/ /\ Uncommitted(p) /\ dir' = [dir EXCEPT ![p] = tomb[p]]
             /\ tomb' = [tomb EXCEPT ![p] = Absent] /\ EnvSweeps(p, 0)
          \/ "restore" \in FaultySteps /\ EnvSweeps(p, 1) /\ UNCHANGED <<dir, tomb>>
          \/ /\ ~Uncommitted(p) /\ UNCHANGED dir
             /\ tomb' = [tomb EXCEPT ![p] = Absent] /\ EnvSweeps(p, 0)
          \/ /\ ~Uncommitted(p) /\ UNCHANGED dir /\ EnvSweeps(p, 1)
             /\ \E c \in Remains(tomb[p]) : tomb' = [tomb EXCEPT ![p] = c]
    BY SweepEffect, SafeParts
  <1>3. /\ p \in Places /\ dir \in Dirs /\ tomb \in Dirs /\ env.faults \in Nat
        /\ del.at = "idle" /\ del.moved = {} /\ up.at = "idle" /\ \A g \in Gens : thr[g].at = "none"
    BY <1>1, SafeParts, Types DEF EnvType, Locked, Steps
  <1>4. /\ env' \in EnvType /\ env'.up = "sweep" /\ env'.todo = env.todo \ {p}
        /\ env'.faults = env.faults \/ env'.faults = env.faults + 1
    BY <1>2, <1>3 DEF EnvSweeps
  <1>5. Locked' /\ Steps' /\ Uploading'
    BY <1>1, <1>3, <1>4, SafeParts DEF Locked, Steps, Uploading
  <1>6. CASE /\ Uncommitted(p) /\ dir' = [dir EXCEPT ![p] = tomb[p]]
             /\ tomb' = [tomb EXCEPT ![p] = Absent] /\ EnvSweeps(p, 0)
    <2>1. /\ dir' \in Dirs /\ tomb' \in Dirs /\ dir'[p] = tomb[p] /\ tomb'[p] = Absent
          /\ \A q \in Places \ {p} : dir'[q] = dir[q] /\ tomb'[q] = tomb[q]
      BY <1>3, <1>6 DEF Dirs
    <2>2. TypeInv'
      BY <1>1, <1>4, <2>1, SafeParts, Types, TypesNext DEF TypeInv, DelSame, DelGets
    <2>3. Whole'
      BY <1>1, <1>3, <1>6, <2>1, SafeParts DEF Whole, Uncommitted, Exists, ConstantsAssumption
    <2>4. Clean'
      BY <1>1, <1>3, <1>4, <1>6, <2>1, SafeParts DEF Clean, Exists, EnvSweeps
    <2>5. Vanished'
      BY <1>1, <1>6, SafeParts DEF Vanished, Uncommitted
    <2> QED
      BY <1>5, <2>2, <2>3, <2>4, <2>5 DEF SafeInv
  <1>7. CASE UNCHANGED <<dir, tomb>> /\ EnvSweeps(p, 1)
    <2>1. TypeInv'
      BY <1>1, <1>4, <1>7, SafeParts, Types, TypesNext DEF TypeInv, DelSame, DelGets
    <2>2. Clean'
      BY <1>3, <1>7 DEF Clean, EnvSweeps
    <2> QED
      BY <1>1, <1>5, <1>7, <2>1, <2>2, SafeParts, SameWhole, SameVanished DEF SafeInv
  <1>8. ASSUME NEW c \in Content \cup {Absent}, ~Uncommitted(p), UNCHANGED dir,
               tomb' = [tomb EXCEPT ![p] = c], c = Absent \/ env'.faults # 0
        PROVE  SafeInv'
    <2>1. tomb' \in Dirs /\ tomb'[p] = c /\ \A q \in Places \ {p} : tomb'[q] = tomb[q]
      BY <1>3, <1>8 DEF Dirs
    <2>2. TypeInv'
      BY <1>1, <1>4, <1>8, <2>1, SafeParts, Types, TypesNext DEF TypeInv, DelSame, DelGets
    <2>3. Whole'
      BY <1>1, <1>3, <1>8, <2>1, SafeParts DEF Whole, Uncommitted, Exists, ConstantsAssumption
    <2>4. Clean'
      BY <1>1, <1>3, <1>4, <1>8, <2>1, SafeParts DEF Clean, Exists
    <2>5. Vanished'
      BY <1>1, <1>3, <1>8, SafeParts, TombVanished
    <2> QED
      BY <1>5, <2>2, <2>3, <2>4, <2>5 DEF SafeInv
  <1>9. CASE /\ ~Uncommitted(p) /\ UNCHANGED dir
             /\ tomb' = [tomb EXCEPT ![p] = Absent] /\ EnvSweeps(p, 0)
    BY <1>8, <1>9
  <1>10. CASE /\ ~Uncommitted(p) /\ UNCHANGED dir /\ EnvSweeps(p, 1)
              /\ \E c \in Remains(tomb[p]) : tomb' = [tomb EXCEPT ![p] = c]
    <2>1. PICK c \in Remains(tomb[p]) : tomb' = [tomb EXCEPT ![p] = c]
      BY <1>10
    <2>2. c \in Content \cup {Absent} /\ env'.faults # 0
      BY <1>3, <1>10, RemainsType DEF Dirs, EnvSweeps
    <2> QED
      BY <1>8, <1>10, <2>1, <2>2
  <1> QED
    BY <1>2, <1>6, <1>7, <1>9, <1>10

LEMMA SweptSafe ==
  ASSUME ConstantsAssumption, SafeInv, Swept
  PROVE  SafeInv'
  <1>1. /\ env.up = "sweep" /\ env.todo = {} /\ env' \in EnvType /\ env'.up = "up"
        /\ env'.todo = {} /\ env'.faults = env.faults
        /\ UNCHANGED <<dir, tomb, row, del, up, thr, lock, known>> /\ DelSame
    BY SweptEffect, SafeParts
  <1>2. TypeInv'
    BY <1>1, SafeParts, Types, TypesNext DEF TypeInv, DelSame, DelGets
  <1>3. Locked'
    BY <1>1, SafeParts DEF Locked
  <1>4. Clean'
    BY <1>1, SafeParts DEF Clean, Exists
  <1> QED
    BY <1>1, <1>2, <1>3, <1>4, SafeParts, SameWhole, SameVanished, SameSteps, SameUploading
    DEF SafeInv

(* What a death can tear is nothing that a start would put back.              *)
LEMMA RemovingIsSettled ==
  ASSUME SafeInv, NEW p \in Removing
  PROVE  p \in Places /\ ~Uncommitted(p) /\ p \notin del.moved
  BY SafeParts DEF Removing, Uncommitted, Steps, Locked

LEMMA CrashSafe ==
  ASSUME ConstantsAssumption, SafeInv, Crash
  PROVE  SafeInv'
  <1>1. /\ env.up # "down" /\ env' \in EnvType /\ env'.up = "down" /\ env'.faults = env.faults
        /\ del' = NoDel /\ lock' = "none"
        /\ up' \in UpType /\ up'.at = "idle" /\ up'.gen = up.gen /\ up'.seen = "none"
        /\ thr' \in [Gens -> ThrType] /\ \A g \in Gens : thr'[g].at = "none"
        /\ UNCHANGED <<dir, row, known>>
        /\ \/ UNCHANGED tomb
           \/ \E p \in Removing : \E c \in Remains(tomb[p]) : tomb' = [tomb EXCEPT ![p] = c]
    BY CrashEffect, SafeParts
  <1>2. /\ tomb' \in Dirs
        /\ \A q \in Places : tomb'[q] = tomb[q] \/ (~Uncommitted(q) /\ q \notin del.moved)
    <2>1. tomb \in Dirs
      BY SafeParts, Types
    <2>2. CASE UNCHANGED tomb
      BY <2>1, <2>2
    <2>3. CASE \E p \in Removing : \E c \in Remains(tomb[p]) : tomb' = [tomb EXCEPT ![p] = c]
      <3>0. PICK p \in Removing : \E c \in Remains(tomb[p]) : tomb' = [tomb EXCEPT ![p] = c]
        BY <2>3
      <3>1. PICK c \in Remains(tomb[p]) : tomb' = [tomb EXCEPT ![p] = c]
        BY <3>0
      <3>2. p \in Places /\ ~Uncommitted(p) /\ p \notin del.moved
        BY RemovingIsSettled
      <3>3. c \in Content \cup {Absent}
        BY <2>1, <3>2, RemainsType DEF Dirs
      <3> QED
        BY <2>1, <3>1, <3>2, <3>3 DEF Dirs
    <2> QED
      BY <1>1, <2>2, <2>3
  <1>3. /\ del' \in DelType /\ del'.at = "idle" /\ del'.moved = {} /\ del'.left = {}
        /\ del'.trigger = "none"
    BY <1>1 DEF NoDel, DelType
  <1>4. TypeInv'
    BY <1>1, <1>2, <1>3, SafeParts, Types, TypesNext DEF TypeInv
  <1>5. Locked'
    BY <1>1, <1>3 DEF Locked
  <1>6. Steps'
    BY <1>3 DEF Steps
  <1>7. Whole'
    BY <1>1, <1>2, SafeParts DEF Whole, Uncommitted, Exists
  <1>8. Clean'
    BY <1>1, <1>3 DEF Clean
  <1>9. Uploading'
    BY <1>1, SafeParts DEF Uploading
  <1>10. Vanished'
    BY <1>1, <1>3, SafeParts DEF Vanished, Exists
  <1> QED
    BY <1>4, <1>5, <1>6, <1>7, <1>8, <1>9, <1>10 DEF SafeInv

-----------------------------------------------------------------------------
LEMMA BaseIs ==
  ASSUME ConstantsAssumption, NEW b \in Bases
  PROVE  \/ b = Absent
         \/ /\ b.dir \in Places /\ b.row \in {b.dir, Nowhere}
            /\ b.dir = Moved => b.row = Moved
  BY Zenon DEF ConstantsAssumption

LEMMA InitSafe == ConstantsAssumption /\ Init => SafeInv
  <1> SUFFICES ASSUME ConstantsAssumption, Init PROVE SafeInv
    OBVIOUS
  <1>1. PICK b \in Bases :
          /\ dir = [p \in Places |-> IF b # Absent /\ p = b.dir THEN 0 ELSE Absent]
          /\ tomb = [p \in Places |-> Absent]
          /\ row = IF b = Absent THEN Absent ELSE [gen |-> 0, place |-> b.row]
          /\ del = NoDel /\ up = NoUp /\ lock = "none"
          /\ thr = [g \in Gens |-> IF g = 0 /\ b # Absent /\ b.dir \in Typed
                                   THEN [at |-> "due", place |-> b.dir] ELSE NoThr]
          /\ env = [up |-> "up", todo |-> {}, crashes |-> 0, faults |-> 0, deletes |-> 0]
          /\ known = IF b = Absent THEN Absent ELSE 0
    BY DEF Init
  <1>2. 0 \in Gens /\ General \in Typed /\ Absent \notin Gens /\ Unknown # Absent
    BY DEF Gens, ConstantsAssumption
  <1>3. b = Absent \/ (b.dir \in Places /\ b.row \in Places \cup {Nowhere})
    BY BaseIs
  <1>4. TypeInv
    <2>1. dir \in Dirs /\ tomb \in Dirs
      BY <1>1, <1>2 DEF Dirs, Content
    <2>2. row \in Row \cup {Absent}
      BY <1>1, <1>2, <1>3 DEF Row
    <2>3. del \in DelType /\ env \in EnvType
      BY <1>1 DEF DelType, NoDel, EnvType
    <2>4. up \in UpType /\ up.seen = "none"
      BY <1>1, <1>2 DEF UpType, NoUp
    <2>5. thr \in [Gens -> ThrType]
      <3>1. NoThr \in ThrType
        BY <1>2 DEF NoThr, ThrType
      <3>2. ASSUME b.dir \in Typed PROVE [at |-> "due", place |-> b.dir] \in ThrType
        BY <3>2 DEF ThrType
      <3> QED
        BY <1>1, <3>1, <3>2
    <2> QED
      BY <1>1, <1>2, <2>1, <2>2, <2>3, <2>4, <2>5, Types DEF TypeInv
  <1>5. \A g \in Gens : thr[g].at \in {"none", "due"} /\ (thr[g].at # "none" => g = 0)
    BY <1>1 DEF NoThr
  <1>6. del.at = "idle" /\ del.moved = {} /\ del.left = {} /\ del.trigger = "none"
    BY <1>1 DEF NoDel
  <1>7. up.at = "idle" /\ up.gen = 0 /\ env.up = "up"
    BY <1>1 DEF NoUp
  <1>8. \A p \in Places : ~Exists(tomb[p]) /\ (dir[p] = 0 \/ dir[p] = Absent)
    BY <1>1 DEF Exists
  <1>9. Locked
    BY <1>1, <1>5, <1>6, <1>7 DEF Locked
  <1>10. Steps
    BY <1>6 DEF Steps
  <1>11. Whole
    BY <1>2, <1>8 DEF Whole, Exists, ConstantsAssumption
  <1>12. Clean
    BY <1>6, <1>8 DEF Clean
  <1>13. Uploading
    BY <1>5, <1>7 DEF Uploading
  <1>14. Vanished
    BY <1>1, <1>2, <1>6 DEF Vanished, Exists, Known, Places
  <1> QED
    BY <1>4, <1>9, <1>10, <1>11, <1>12, <1>13, <1>14 DEF SafeInv

LEMMA SafeStep ==
  ASSUME ConstantsAssumption, SafeInv, [Next]_vars
  PROVE  SafeInv'
  <1>1. CASE UNCHANGED vars
    <2>1. TypeInv'
      BY <1>1, SafeParts DEF vars, TypeInv, TypeOK
    <2>2. UNCHANGED <<dir, tomb, row, del, up, thr, lock, env, known>> /\ DelSame /\ EnvSame
      BY <1>1, SafeParts, DelStays, NoFaults DEF vars, NoFault
    <2>3. Locked'
      BY <2>2, SafeParts DEF Locked
    <2> QED
      BY <2>1, <2>2, <2>3, SafeParts, SameWhole, SameVanished, SameSteps, SameClean, SameUploading
      DEF SafeInv
  <1>2. CASE Rest
    BY <1>1, <1>2 DEF Rest
  <1>3. CASE Deletes \/ RetentionPicks
    BY <1>3, RetentionPicksSafe, DeleteAsksSafe, DeleteLocksSafe, SetAsideSafe,
       CommitDeleteSafe, ClearTombstoneSafe, PutBackAsideSafe, DeleteAnswersSafe DEF Deletes
  <1>4. CASE Uploads
    BY <1>4, ArriveSafe, StartSafe, ParseSafe, WriteFilesSafe, CommitRowSafe, AnswerSafe,
       FailReplacementSafe, FailNewSafe DEF Uploads
  <1>5. CASE \E g \in Gens : Thread(g)
    BY <1>5, ThreadLooksSafe, ThreadWritesSafe DEF Thread
  <1>6. CASE Starting \/ Crash
    BY <1>6, RestartSafe, SweepSafe, SweptSafe, CrashSafe DEF Starting
  <1> QED
    BY <1>1, <1>2, <1>3, <1>4, <1>5, <1>6 DEF Next

(* The bookkeeping is of the kinds the code keeps.                            *)
THEOREM TypeOKHolds == Spec => []TypeOK
  <1>1. SafeInv => TypeOK
    BY SafeParts
  <1> QED
    BY <1>1, InitSafe, SafeStep, ConstantsAssumption, PTL DEF Spec

(* Once a delete has committed, and until somebody uploads again, the doc_id  *)
(* is neither listed nor found on the disk (_delete_document_locked, #168):   *)
(* whatever fails, and wherever the process dies.                             *)
THEOREM GoneHolds == Spec => []Gone
  <1>1. SafeInv => Gone
    BY SafeParts, Anywhere, ConstantsAssumption DEF Gone, Vanished
  <1> QED
    BY <1>1, InitSafe, SafeStep, ConstantsAssumption, PTL DEF Spec

(* Where nothing failed a finished delete, and a start, leave no tombstone,   *)
(* and a tombstone that rmtree has touched is never put back                  *)
(* (_finish_interrupted_deletes).                                             *)
THEOREM RestIsCleanHolds == Spec => []RestIsClean
  <1>1. SafeInv => RestIsClean
    BY SafeParts DEF RestIsClean, Quiet, Idle, Clean, Steps, Whole
  <1> QED
    BY <1>1, InitSafe, SafeStep, ConstantsAssumption, PTL DEF Spec

-----------------------------------------------------------------------------
(* The second invariant: what the clients were told.  It holds where what was  *)
(* set aside can be put back.  A failed put back, or an index that cannot be   *)
(* read at a start, leaves a version in a tombstone beside a later upload      *)
(* (storage.py:293): what a client finds then is not claimed here.             *)
PutsBack == FaultySteps \cap {"put_back", "read_index", "restore"} = {}

(* What each place holds, whoever carries it at the moment: a delete that is   *)
(* not committed, or a tombstone that the next start restores, still counts.   *)
(* A rename aside, its reversal and its restoration do not change it.          *)
Held == [p \in Places |-> IF p \in del.moved \/ Uncommitted(p) THEN tomb[p] ELSE dir[p]]

(* The row speaks of version g, and of no place but p.                         *)
Home(g, p) ==
  /\ Exists(row) /\ row.gen = g
  /\ row.place = p \/ (row.place = Nowhere /\ \A q \in Typed \ {p} : Held[q] \notin Gens)

(* Nobody runs ahead of the uploads; only document 0 is where no upload goes;  *)
(* an upload about to answer is what the row says; and one that found no       *)
(* document was told of none.                                                  *)
Ordered ==
  /\ known \in Gens => known <= up.gen
  /\ Exists(row) => row.gen <= up.gen
  /\ Exists(row) /\ row.place \notin Typed => row.gen = 0
  /\ up.at = "answer" => /\ row = [gen |-> up.gen, place |-> up.place]
                         /\ Held[up.place] = up.gen
  /\ up.at # "idle" /\ ~up.replacing => known \notin Gens

(* A tombstone that the row asks back is in the hands of a delete, or of the   *)
(* start that will restore it.                                                 *)
Restored ==
  env.up # "down" => \A p \in Places : Uncommitted(p) /\ Exists(tomb[p]) =>
                       p \in del.moved \/ (env.up = "sweep" /\ p \in env.todo)

(* A thread that will find its version is that of the row's, and an upload     *)
(* that runs now replaces just that.                                           *)
Current ==
  \A g \in Gens : thr[g].at \in {"due", "writing"} /\ Held[thr[g].place] = g =>
    Home(g, thr[g].place) /\ (up.at # "idle" => up.place = thr[g].place)

(* The version that a reader of the row resolves is not before the row's.      *)
Latest ==
  Exists(row) => \/ row.gen = 0
                 \/ row.place # Nowhere /\ Held[row.place] = row.gen
                 \/ \A p \in Known : \A g \in Gens : Held[p] = g => g >= row.gen

(* Retention has looked at the version that it deletes.                        *)
Aged == del.trigger = "retention" /\ Exists(row) => row.gen \in Expired

(* What was answered with 200 is listed, and held.                             *)
Told ==
  known \in Gens => /\ Exists(row) /\ row.gen >= known
                    /\ \E p \in RowPlaces : Held[p] = row.gen

KeepInv == Ordered /\ Restored /\ Current /\ Latest /\ Aged /\ Told

LEMMA KeepTypes ==
  ASSUME ConstantsAssumption, SafeInv
  PROVE  /\ Gens \subseteq Nat /\ 0 \in Gens /\ Absent \notin Gens
         /\ Empty \notin Gens /\ Record \notin Gens /\ Torn \notin Gens /\ Unknown \notin Gens
         /\ Typed \subseteq Known /\ Known \subseteq Places /\ Nowhere \notin Places
         /\ up.gen \in Gens /\ up.place \in Typed
         /\ \A g \in Gens : thr[g].place \in Typed
         /\ Exists(row) => row \in Row /\ row.gen \in Gens /\ row.place \in Places \cup {Nowhere}
         /\ Exists(row) => RowPlaces \subseteq Places
         /\ known \in Gens \cup {Absent, Unknown}
         /\ dir \in Dirs /\ tomb \in Dirs
  <1>1. /\ Gens \subseteq Nat /\ 0 \in Gens /\ Absent \notin Gens
        /\ Empty \notin Gens /\ Record \notin Gens /\ Torn \notin Gens /\ Unknown \notin Gens
        /\ Typed \subseteq Known /\ Known \subseteq Places /\ Nowhere \notin Places
    BY DEF Gens, ConstantsAssumption, Known, Places
  <1>2. /\ up.gen \in Gens /\ up.place \in Typed
        /\ \A g \in Gens : thr[g].place \in Typed
        /\ known \in Gens \cup {Absent, Unknown}
        /\ dir \in Dirs /\ tomb \in Dirs
    BY SafeParts, Types DEF UpType, ThrType
  <1>3. Exists(row) => row \in Row /\ row.gen \in Gens /\ row.place \in Places \cup {Nowhere}
    BY SafeParts, Types DEF Row, Exists
  <1>4. Exists(row) => RowPlaces \subseteq Places
    BY <1>1, <1>3 DEF RowPlaces
  <1> QED
    BY <1>1, <1>2, <1>3, <1>4

LEMMA KeepParts ==
  ASSUME KeepInv
  PROVE  Ordered /\ Restored /\ Current /\ Latest /\ Aged /\ Told
  BY DEF KeepInv

(* While the process serves, and no delete has anything aside, what a place    *)
(* holds is its directory.                                                     *)
LEMMA HeldIsDir ==
  ASSUME Restored, env.up = "up", del.moved = {}
  PROVE  \A p \in Places : Held[p] = dir[p]
  BY DEF Held, Restored, Uncommitted, Exists
LEMMA HeldIsDirNext ==
  ASSUME Restored', env'.up = "up", del'.moved = {}
  PROVE  \A p \in Places : Held'[p] = dir'[p]
  BY DEF Held, Restored, Uncommitted, Exists

(* A step that leaves what the places hold, and who may write what, as it was. *)
Quietly ==
  /\ \A p \in Places : \A g \in Gens : Held'[p] = g <=> Held[p] = g
  /\ UNCHANGED <<row, known>>
  /\ up'.gen = up.gen /\ up'.place = up.place
  /\ up'.at = "answer" => up.at = "answer"
  /\ up'.at # "idle" => up.at # "idle" /\ up'.replacing = up.replacing
  /\ \A g \in Gens : thr'[g].at \in {"due", "writing"} =>
       thr[g].at \in {"due", "writing"} /\ thr'[g].place = thr[g].place

LEMMA QuietlyKeeps ==
  ASSUME ConstantsAssumption, SafeInv, KeepInv, Quietly, Restored', Aged'
  PROVE  KeepInv'
  <1> USE DEF Exists
  <1>1. Ordered'
    BY KeepTypes, KeepParts DEF Ordered, Quietly
  <1>2. Current'
    BY KeepTypes, KeepParts DEF Current, Quietly, Home
  <1>3. Latest'
    BY KeepTypes, KeepParts DEF Latest, Quietly
  <1>4. Told'
    BY KeepTypes, KeepParts DEF Told, Quietly, RowPlaces
  <1> QED
    BY <1>1, <1>2, <1>3, <1>4 DEF KeepInv

(* A step that leaves the library and the tombstones alone.                    *)
LEMMA SameHeld ==
  ASSUME UNCHANGED <<dir, tomb, row>>, del'.moved = del.moved
  PROVE  Held' = Held
  BY DEF Held, Uncommitted, Exists
LEMMA SameRestored ==
  ASSUME Restored, UNCHANGED <<dir, tomb, row>>, del'.moved = del.moved,
         env'.up = env.up, env'.todo = env.todo
  PROVE  Restored'
  BY DEF Restored, Uncommitted, Exists

LEMMA LibraryKept ==
  ASSUME ConstantsAssumption, SafeInv, KeepInv, UNCHANGED <<dir, tomb, row, known>>,
         del'.moved = del.moved, env'.up = env.up, env'.todo = env.todo, Aged',
         up'.gen = up.gen, up'.place = up.place, up'.at = "answer" => up.at = "answer",
         up'.at # "idle" => up.at # "idle" /\ up'.replacing = up.replacing,
         \A g \in Gens : thr'[g].at \in {"due", "writing"} =>
           thr[g].at \in {"due", "writing"} /\ thr'[g].place = thr[g].place
  PROVE  KeepInv'
  <1>1. Held' = Held /\ Restored'
    BY SameHeld, SameRestored, KeepParts
  <1>2. Quietly
    BY <1>1 DEF Quietly
  <1> QED
    BY <1>1, <1>2, QuietlyKeeps

LEMMA RetentionPicksKeeps ==
  ASSUME ConstantsAssumption, SafeInv, KeepInv, RetentionPicks
  PROVE  KeepInv'
  <1>1. DelSame /\ EnvSame /\ UNCHANGED <<dir, tomb, row, lock, known, up, thr, env>>
    BY RetentionPicksEffect, SafeParts
  <1>2. Aged'
    BY <1>1, KeepParts DEF Aged, DelSame, DelGets, Exists
  <1> QED
    BY <1>1, <1>2, LibraryKept DEF DelSame, DelGets, EnvSame

(* Retention looks at the version that is resolved: what is older than that is *)
(* expired as well.                                                            *)
LEMMA ExpiredRow ==
  ASSUME ConstantsAssumption, SafeInv, KeepInv, env.up = "up", del.at = "idle",
         StillExpired, Exists(row)
  PROVE  row.gen \in Expired
  <1>1. Resolved \in Places /\ dir[Resolved] \in Expired /\ dir[Resolved] \in Gens
    BY DEF StillExpired, ExistsAnywhere, Resolved, Typeds, Readable, Known, Places,
           ConstantsAssumption
  <1>2. \A p \in Places : Held[p] = dir[p]
    BY SafeParts, KeepParts, HeldIsDir DEF Steps
  <1>3. 0..dir[Resolved] \subseteq Expired
    BY <1>1 DEF ConstantsAssumption
  <1>4. /\ row.gen \in Gens /\ row.gen \in Nat /\ dir[Resolved] \in Nat
        /\ row.place \in Places \cup {Nowhere} /\ Typed \subseteq Known
    BY <1>1, KeepTypes
  <1>5. CASE row.gen = 0
    BY <1>3, <1>4, <1>5
  <1>6. CASE row.place # Nowhere /\ Held[row.place] = row.gen
    <2>1. row.place \in Places /\ dir[row.place] = row.gen
      BY <1>2, <1>4, <1>6
    <2>2. Resolved = row.place
      BY <1>4, <2>1 DEF Resolved, Readable
    <2> QED
      BY <1>1, <2>1, <2>2
  <1>7. CASE row.gen # 0 /\ \A p \in Known : \A g \in Gens : Held[p] = g => g >= row.gen
    <2>1. row.place \in Typed
      BY <1>7, KeepParts DEF Ordered
    <2>2. Resolved \in Known
      <3>1. Resolved \in {row.place, Flat, Nowhere} \cup Typed
        BY DEF Resolved, Typeds
      <3> QED
        BY <1>1, <1>4, <2>1, <3>1, KeepTypes DEF Known
    <2>3. dir[Resolved] >= row.gen
      BY <1>1, <1>2, <1>7, <2>2
    <2> QED
      BY <1>3, <1>4, <2>3
  <1> QED
    BY <1>5, <1>6, <1>7, KeepParts DEF Latest

LEMMA DeleteAsksKeeps ==
  ASSUME ConstantsAssumption, SafeInv, KeepInv, DeleteAsks
  PROVE  KeepInv'
  <1>1. /\ env.up = "up" /\ del.at = "idle" /\ up.at = "idle"
        /\ UNCHANGED <<dir, tomb, row, lock, known, up, thr>> /\ EnvSame
        /\ Begins("rest") \/ (Begins("retention") /\ StillExpired) \/ DelSame
    BY DeleteAsksEffect, SafeParts
  <1>2. del'.moved = del.moved
    BY <1>1 DEF Begins, DelSame, DelGets
  <1>3. Aged'
    BY <1>1, ExpiredRow, KeepParts DEF Aged, Begins, DelSame, DelGets, Exists
  <1> QED
    BY <1>1, <1>2, <1>3, LibraryKept DEF EnvSame

LEMMA DeleteLocksKeeps ==
  ASSUME ConstantsAssumption, SafeInv, KeepInv, DeleteLocks
  PROVE  KeepInv'
  <1>1. /\ DelGets("aside", Candidates, del.moved, del.left)
        /\ UNCHANGED <<dir, tomb, row, known, up, thr>> /\ EnvSame
    BY DeleteLocksEffect, SafeParts
  <1>2. Aged'
    BY <1>1, KeepParts DEF Aged, DelGets, Exists
  <1> QED
    BY <1>1, <1>2, LibraryKept DEF DelGets, EnvSame

(* A tombstone that nobody would ask back changes nothing that is held.        *)
LEMMA StaleKept ==
  ASSUME ConstantsAssumption, SafeInv, KeepInv, UNCHANGED <<dir, row, known, up, thr>>,
         NEW p \in Places, ~Uncommitted(p), p \notin del.moved, del'.moved = del.moved,
         \A q \in Places \ {p} : tomb'[q] = tomb[q], env'.up = env.up,
         env.up = "sweep" => env'.todo = env.todo \ {p}, Aged'
  PROVE  KeepInv'
  <1>1. \A q \in Places : Held'[q] = Held[q]
    BY DEF Held, Uncommitted, Exists
  <1>2. Restored'
    BY KeepParts DEF Restored, Uncommitted, Exists
  <1>3. Quietly
    BY <1>1 DEF Quietly
  <1> QED
    BY <1>2, <1>3, QuietlyKeeps

LEMMA SetAsideKeeps ==
  ASSUME ConstantsAssumption, SafeInv, KeepInv, SetAside
  PROVE  KeepInv'
  <1>1. env.up = "up" /\ del.at = "aside" /\ UNCHANGED <<row, lock, known, up, thr>>
    BY SetAsideEffect, SafeParts
  <1>2. PICK p \in del.todo : \/ Skips(p) \/ DropsStale(p) \/ TearsStale(p) \/ Renames(p)
                              \/ GivesUp
    BY SetAsideEffect, SafeParts
  <1>3. p \in Places /\ p \notin del.moved /\ dir \in Dirs /\ tomb \in Dirs
    BY <1>2, SafeParts, Types DEF DelType, Steps
  <1>4. env'.up = env.up /\ env'.todo = env.todo /\ del'.trigger = del.trigger
    BY <1>2
    DEF Skips, DropsStale, TearsStale, Renames, GivesUp, EnvSame, EnvFaults, DelSame, DelGets
  <1>5. Aged'
    BY <1>1, <1>4, KeepParts DEF Aged, Exists
  <1>6. CASE Skips(p) \/ GivesUp
    BY <1>1, <1>4, <1>5, <1>6, LibraryKept DEF Skips, GivesUp, DelGets
  <1>7. CASE DropsStale(p) \/ TearsStale(p)
    <2>1. /\ UNCHANGED dir /\ Exists(dir[p]) /\ del'.moved = del.moved
          /\ \A q \in Places \ {p} : tomb'[q] = tomb[q]
      BY <1>3, <1>7 DEF DropsStale, TearsStale, DelSame, DelGets, Dirs
    <2> QED
      BY <1>1, <1>3, <1>4, <1>5, <2>1, StaleKept DEF Uncommitted
  <1>8. CASE Renames(p)
    <2>1. /\ dir'[p] = Absent /\ tomb'[p] = dir[p] /\ Exists(dir[p])
          /\ \A q \in Places \ {p} : dir'[q] = dir[q] /\ tomb'[q] = tomb[q]
          /\ del'.moved = del.moved \cup {p}
      BY <1>3, <1>8 DEF Renames, Dirs, DelGets
    <2>2. \A q \in Places : Held'[q] = Held[q]
      BY <1>1, <1>3, <2>1 DEF Held, Uncommitted, Exists
    <2>3. Restored'
      BY <1>1, <1>3, <1>4, <2>1, KeepParts DEF Restored, Uncommitted, Exists
    <2>4. Quietly
      BY <1>1, <2>2 DEF Quietly
    <2> QED
      BY <1>5, <2>3, <2>4, QuietlyKeeps
  <1> QED
    BY <1>2, <1>6, <1>7, <1>8

(* Once everything is aside there is nothing left for a thread to find.        *)
LEMMA CommitDeleteKeeps ==
  ASSUME ConstantsAssumption, SafeInv, KeepInv, CommitDelete
  PROVE  KeepInv'
  <1>1. /\ env.up = "up" /\ del.at = "aside" /\ del.todo = {} /\ up.at = "idle"
        /\ UNCHANGED <<dir, tomb, lock, up, thr>>
    BY CommitDeleteEffect, SafeParts DEF Locked
  <1>2. CASE /\ row' = Absent /\ known' = Absent /\ EnvSame
             /\ DelGets("clear", {}, {}, del.left \cup del.moved)
    <2>1. ~Exists(row') /\ known' \notin Gens /\ up'.at = "idle"
      BY <1>1, <1>2, KeepTypes DEF Exists
    <2>2. \A p \in Known : Held'[p] \notin Gens
      <3>1. \A p \in Known : dir'[p] = Absent
        BY <1>1, SafeParts DEF Steps, Exists
      <3> QED
        BY <1>2, <2>1, <3>1, KeepTypes DEF Held, Uncommitted, DelGets, Exists
    <2>3. Current'
      BY <1>1, <2>2, KeepTypes DEF Current
    <2> QED
      BY <2>1, <2>3 DEF KeepInv, Ordered, Restored, Latest, Aged, Told, Uncommitted, Exists
  <1>3. CASE GivesUp /\ UNCHANGED <<row, known>>
    <2>1. Aged'
      BY <1>3, KeepParts DEF Aged, GivesUp, DelGets, Exists
    <2> QED
      BY <1>1, <1>3, <2>1, LibraryKept DEF GivesUp, DelGets, EnvFaults
  <1> QED
    BY <1>2, <1>3, CommitDeleteEffect, SafeParts

LEMMA ClearTombstoneKeeps ==
  ASSUME ConstantsAssumption, SafeInv, KeepInv, ClearTombstone
  PROVE  KeepInv'
  <1>1. /\ env.up = "up" /\ del.at = "clear" /\ UNCHANGED <<dir, row, lock, known, up, thr>>
    BY ClearTombstoneEffect, SafeParts
  <1>2. PICK p \in del.left :
          /\ DelGets("clear", del.todo, del.moved, del.left \ {p})
          /\ \/ tomb' = [tomb EXCEPT ![p] = Absent] /\ EnvSame
             \/ EnvFaults /\ \E c \in Remains(tomb[p]) : tomb' = [tomb EXCEPT ![p] = c]
    BY ClearTombstoneEffect, SafeParts
  <1>3. p \in Places /\ tomb \in Dirs /\ ~Exists(row) /\ del.moved = {}
    BY <1>1, SafeParts, Types DEF DelType, Steps
  <1>4. \A q \in Places \ {p} : tomb'[q] = tomb[q]
    BY <1>2, <1>3 DEF Dirs
  <1>5. env'.up = "up" /\ del'.moved = {}
    BY <1>1, <1>2, <1>3 DEF EnvSame, EnvFaults, DelGets
  <1> QED
    BY <1>1, <1>3, <1>4, <1>5, StaleKept DEF Uncommitted, Aged, Exists

LEMMA PutBackAsideKeeps ==
  ASSUME ConstantsAssumption, PutsBack, SafeInv, KeepInv, PutBackAside
  PROVE  KeepInv'
  <1>1. /\ env.up = "up" /\ del.at = "back" /\ UNCHANGED <<row, lock, known, up, thr>>
    BY PutBackAsideEffect, SafeParts
  <1>2. PICK p \in del.moved :
          /\ DelGets("back", del.todo, del.moved \ {p}, del.left)
          /\ dir' = [dir EXCEPT ![p] = tomb[p]]
          /\ tomb' = [tomb EXCEPT ![p] = Absent] /\ EnvSame
    BY PutBackAsideEffect, SafeParts DEF PutsBack
  <1>3. p \in Places /\ Exists(tomb[p]) /\ ~Exists(dir[p]) /\ dir \in Dirs /\ tomb \in Dirs
    BY <1>2, SafeParts, Types DEF DelType, Steps
  <1>4. /\ dir'[p] = tomb[p] /\ tomb'[p] = Absent /\ del'.moved = del.moved \ {p}
        /\ \A q \in Places \ {p} : dir'[q] = dir[q] /\ tomb'[q] = tomb[q]
    BY <1>2, <1>3 DEF Dirs, DelGets
  <1>5. \A q \in Places : Held'[q] = Held[q]
    BY <1>1, <1>2, <1>3, <1>4 DEF Held, Uncommitted, Exists
  <1>6. Restored'
    BY <1>1, <1>2, <1>3, <1>4, KeepParts DEF Restored, Uncommitted, Exists, EnvSame
  <1>7. Aged'
    BY <1>1, <1>2, KeepParts DEF Aged, DelGets, Exists
  <1>8. Quietly
    BY <1>1, <1>5 DEF Quietly
  <1> QED
    BY <1>6, <1>7, <1>8, QuietlyKeeps

LEMMA DeleteAnswersKeeps ==
  ASSUME ConstantsAssumption, SafeInv, KeepInv, DeleteAnswers
  PROVE  KeepInv'
  <1>1. /\ del.at = "clear" \/ (del.at = "back" /\ del.moved = {})
        /\ del'.moved = {} /\ del'.trigger = "none"
        /\ UNCHANGED <<dir, tomb, row, known, up, thr>> /\ EnvSame
    BY DeleteAnswersEffect, SafeParts
  <1>2. del.moved = {}
    BY <1>1, SafeParts DEF Steps
  <1> QED
    BY <1>1, <1>2, LibraryKept DEF Aged, EnvSame

LEMMA ArriveKeeps ==
  ASSUME ConstantsAssumption, SafeInv, KeepInv, Arrive
  PROVE  KeepInv'
  <1>1. /\ up'.at = up.at /\ up'.gen = up.gen /\ up'.place = up.place
        /\ up'.replacing = up.replacing
        /\ UNCHANGED <<dir, row, thr, lock, known, tomb>> /\ DelSame /\ EnvSame
    BY ArriveEffect, SafeParts
  <1>2. Aged'
    BY <1>1, KeepParts DEF Aged, DelSame, DelGets, Exists
  <1> QED
    BY <1>1, <1>2, LibraryKept DEF DelSame, DelGets, EnvSame

LEMMA ParseKeeps ==
  ASSUME ConstantsAssumption, SafeInv, KeepInv, Parse
  PROVE  KeepInv'
  <1>1. /\ up.at = "parse" /\ (UpGets("write") \/ UpGets("fail"))
        /\ UNCHANGED <<dir, row, thr, lock, known, tomb>> /\ DelSame /\ EnvSame
    BY ParseEffect, SafeParts
  <1>2. Aged'
    BY <1>1, KeepParts DEF Aged, DelSame, DelGets, Exists
  <1> QED
    BY <1>1, <1>2, LibraryKept DEF DelSame, DelGets, EnvSame, UpGets

LEMMA FailReplacementKeeps ==
  ASSUME ConstantsAssumption, SafeInv, KeepInv, FailReplacement
  PROVE  KeepInv'
  <1>1. /\ UpGets("idle")
        /\ UNCHANGED <<dir, row, thr, lock, known, tomb>> /\ DelSame /\ EnvSame
    BY FailReplacementEffect, SafeParts
  <1>2. Aged'
    BY <1>1, KeepParts DEF Aged, DelSame, DelGets, Exists
  <1> QED
    BY <1>1, <1>2, LibraryKept DEF DelSame, DelGets, EnvSame, UpGets

(* While an upload runs, the library is in nobody else's hands.                *)
LEMMA UploadAlone ==
  ASSUME ConstantsAssumption, SafeInv, KeepInv, env.up = "up", del.at = "idle"
  PROVE  del.moved = {} /\ del.trigger = "none" /\ \A p \in Places : Held[p] = dir[p]
  BY SafeParts, KeepParts, HeldIsDir DEF Steps
LEMMA UploadAloneNext ==
  ASSUME ConstantsAssumption, SafeInv, KeepInv, env.up = "up", del.at = "idle",
         DelSame, EnvSame, Restored'
  PROVE  Aged' /\ \A p \in Places : Held'[p] = dir'[p]
  <1>1. del'.moved = {} /\ del'.trigger = "none" /\ env'.up = "up"
    BY UploadAlone DEF DelSame, DelGets, EnvSame
  <1> QED
    BY <1>1, HeldIsDirNext DEF Aged

(* What a thread will find is what the id resolves to.                         *)
LEMMA HomeIsResolved ==
  ASSUME ConstantsAssumption, SafeInv, NEW g \in Gens, NEW p \in Typed, Home(g, p),
         \A q \in Places : Held[q] = dir[q], Held[p] = g
  PROVE  Resolved = p
  <1>1. p \in Places /\ Typed \subseteq Places /\ Nowhere \notin Places
    BY KeepTypes
  <1>2. Readable(p) /\ Exists(row)
    BY <1>1 DEF Readable, Home
  <1>3. CASE row.place = p
    BY <1>2, <1>3 DEF Resolved
  <1>4. CASE row.place = Nowhere /\ \A q \in Typed \ {p} : Held[q] \notin Gens
    <2>1. ~Readable(row.place) /\ Typeds = {p}
      BY <1>1, <1>2, <1>4 DEF Readable, Typeds
    <2> QED
      BY <2>1 DEF Resolved
  <1> QED
    BY <1>3, <1>4 DEF Home

(* What was answered is found by whoever asks now.                             *)
LEMMA ToldIsThere ==
  ASSUME ConstantsAssumption, SafeInv, Told, known \in Gens,
         \A q \in Places : Held[q] = dir[q]
  PROVE  ExistsAnywhere
  <1>1. Exists(row) /\ \E p \in RowPlaces : dir[p] = row.gen /\ p \in Places
    BY KeepTypes DEF Told
  <1>2. row.gen \in Gens /\ Nowhere \notin Places
    BY <1>1, KeepTypes
  <1>3. CASE row.place = Nowhere
    <2>1. \E p \in Known : dir[p] \in Gens
      BY <1>1, <1>2, <1>3 DEF RowPlaces
    <2> QED
      BY <2>1, Anywhere
  <1>4. CASE row.place # Nowhere
    <2>1. Readable(row.place) /\ row.place # Nowhere
      BY <1>1, <1>2, <1>4 DEF RowPlaces, Readable
    <2> QED
      BY <1>1, <2>1 DEF ExistsAnywhere, Resolved
  <1> QED
    BY <1>3, <1>4

LEMMA StartKeeps ==
  ASSUME ConstantsAssumption, SafeInv, KeepInv, Start
  PROVE  KeepInv'
  <1>1. /\ env.up = "up" /\ del.at = "idle" /\ up.at = "idle"
        /\ up' \in UpType /\ up'.at = "parse" /\ up'.gen = up.gen + 1
        /\ ~up'.replacing => ~ExistsAnywhere
        /\ Resolved \in Typed => up'.place = Resolved
        /\ dir' = [dir EXCEPT ![up'.place] = IF Exists(@) THEN @ ELSE Empty]
        /\ UNCHANGED <<row, thr, lock, known, tomb>> /\ DelSame /\ EnvSame
    BY StartEffect, SafeParts
  <1>2. up'.place \in Places /\ dir \in Dirs
    BY <1>1, KeepTypes DEF UpType
  <1>3. \A q \in Places : dir'[q] = dir[q] \/ (~Exists(dir[q]) /\ dir'[q] = Empty)
    <2>1. CASE Exists(dir[up'.place])
      <3>1. dir' = dir
        BY <1>1, <1>2, <2>1 DEF Dirs
      <3> QED
        BY <3>1
    <2>2. CASE ~Exists(dir[up'.place])
      <3>1. dir' = [dir EXCEPT ![up'.place] = Empty]
        BY <1>1, <2>2
      <3> QED
        BY <1>2, <2>2, <3>1 DEF Dirs
    <2> QED
      BY <2>1, <2>2
  <1>4. Restored'
    BY <1>1, <1>3, KeepParts DEF Restored, Uncommitted, Exists, DelSame, DelGets, EnvSame
  <1>5. /\ \A p \in Places : Held[p] = dir[p] /\ Held'[p] = dir'[p]
        /\ Aged'
    BY <1>1, <1>4, UploadAlone, UploadAloneNext
  <1>6. \A p \in Places : \A g \in Gens : Held'[p] = g <=> Held[p] = g
    BY <1>3, <1>5, KeepTypes DEF Exists
  <1>7. Ordered'
    <2>1. ~up'.replacing => known' \notin Gens
      BY <1>1, <1>5, ToldIsThere, KeepParts
    <2> QED
      BY <1>1, <2>1, KeepTypes, KeepParts DEF Ordered, Exists
  <1>8. Current'
    <2>1. SUFFICES ASSUME NEW g \in Gens, thr[g].at \in {"due", "writing"},
                          Held'[thr[g].place] = g
                   PROVE  Home(g, thr[g].place)' /\ up'.place = thr[g].place
      BY <1>1 DEF Current
    <2>2. thr[g].place \in Typed /\ Typed \subseteq Places
      BY KeepTypes
    <2>3. Home(g, thr[g].place) /\ Held[thr[g].place] = g
      BY <1>6, <2>1, <2>2, KeepParts DEF Current
    <2>4. Resolved = thr[g].place
      BY <1>5, <2>2, <2>3, HomeIsResolved
    <2>5. Exists(row') /\ row'.gen = g /\ row'.place = row.place
      BY <1>1, <2>3 DEF Home, Exists
    <2>6. \A q \in Typed : Held'[q] \in Gens => Held[q] \in Gens
      BY <1>6, <2>2
    <2> QED
      BY <1>1, <2>2, <2>3, <2>4, <2>5, <2>6 DEF Home
  <1>9. Latest' /\ Told'
    BY <1>1, <1>6, KeepTypes, KeepParts DEF Latest, Told, RowPlaces, Exists
  <1> QED
    BY <1>4, <1>5, <1>7, <1>8, <1>9 DEF KeepInv

LEMMA WriteFilesKeeps ==
  ASSUME ConstantsAssumption, SafeInv, KeepInv, WriteFiles
  PROVE  KeepInv'
  <1>1. /\ env.up = "up" /\ up.at = "write" /\ UpGets("row") /\ del.at = "idle"
        /\ known' = IF known = Absent THEN Unknown ELSE known
        /\ dir' = [dir EXCEPT ![up.place] = IF @ \in Gens THEN @ ELSE up.gen]
        /\ UNCHANGED <<row, thr, tomb>> /\ DelSame /\ EnvSame
    BY WriteFilesEffect, SafeParts, Types DEF Locked, DelType
  <1>2. /\ up.place \in Places /\ up.place \in Known /\ up.place \in Typed /\ dir \in Dirs
        /\ up.gen \in Gens /\ (known' \in Gens => known' = known)
    BY <1>1, KeepTypes
  <1>3. /\ \A q \in Places \ {up.place} : dir'[q] = dir[q]
        /\ dir[up.place] \in Gens => dir'[up.place] = dir[up.place]
        /\ dir[up.place] \notin Gens => dir'[up.place] = up.gen
    <2>1. CASE dir[up.place] \in Gens
      <3>1. dir' = dir
        BY <1>1, <1>2, <2>1 DEF Dirs
      <3> QED
        BY <2>1, <3>1
    <2>2. CASE dir[up.place] \notin Gens
      <3>1. dir' = [dir EXCEPT ![up.place] = up.gen]
        BY <1>1, <2>2
      <3> QED
        BY <1>2, <2>2, <3>1 DEF Dirs
    <2> QED
      BY <2>1, <2>2
  <1>4. Restored'
    BY <1>1, <1>2, <1>3, KeepTypes, KeepParts
    DEF Restored, Uncommitted, Exists, DelSame, DelGets, EnvSame
  <1>5. /\ \A p \in Places : Held[p] = dir[p] /\ Held'[p] = dir'[p]
        /\ Aged'
    BY <1>1, <1>4, UploadAlone, UploadAloneNext
  (* A version is only added, and it is the upload's own. *)
  <1>6. /\ \A p \in Places : \A g \in Gens : Held[p] = g => Held'[p] = g
        /\ \A p \in Places : \A g \in Gens :
             Held'[p] = g => Held[p] = g \/ (p = up.place /\ g = up.gen)
    BY <1>2, <1>3, <1>5
  <1>7. Ordered'
    BY <1>1, <1>2, KeepTypes, KeepParts DEF Ordered, UpGets, Exists
  <1>8. Current'
    <2>1. SUFFICES ASSUME NEW g \in Gens, thr[g].at \in {"due", "writing"},
                          Held'[thr[g].place] = g
                   PROVE  Home(g, thr[g].place)' /\ up'.place = thr[g].place
      BY <1>1 DEF Current
    <2>2. thr[g].place \in Typed /\ Typed \subseteq Places /\ Gens \subseteq Nat
      BY KeepTypes
    <2>3. g < up.gen
      BY <1>1, <2>1, SafeParts DEF Uploading
    <2>4. Home(g, thr[g].place) /\ Held[thr[g].place] = g /\ up.place = thr[g].place
      BY <1>1, <1>2, <1>6, <2>1, <2>2, <2>3, KeepParts DEF Current
    <2>5. Exists(row') /\ row'.gen = g /\ row'.place = row.place
      BY <1>1, <2>4 DEF Home, Exists
    <2>6. \A q \in Typed \ {up.place} : Held'[q] \in Gens => Held[q] \in Gens
      BY <1>6, <2>2
    <2> QED
      BY <1>1, <2>2, <2>4, <2>5, <2>6 DEF Home, UpGets
  <1>9. Latest'
    <2>1. Exists(row) => row.gen <= up.gen /\ row.gen \in Nat /\ up.gen \in Nat
      BY KeepTypes, KeepParts DEF Ordered
    <2> QED
      BY <1>1, <1>6, <2>1, KeepTypes, KeepParts DEF Latest, Exists
  <1>10. Told'
    BY <1>1, <1>2, <1>6, KeepTypes, KeepParts DEF Told, RowPlaces, Exists
  <1> QED
    BY <1>4, <1>5, <1>7, <1>8, <1>9, <1>10 DEF KeepInv

(* A row of its own, in a directory of its own: what threads there were before *)
(* will not find their version, and need not.                                  *)
LEMMA CommitRowKeeps ==
  ASSUME ConstantsAssumption, SafeInv, KeepInv, CommitRow
  PROVE  KeepInv'
  <1>1. /\ env.up = "up" /\ up.at = "row" /\ del.at = "idle"
        /\ UNCHANGED <<thr, known, tomb>> /\ DelSame
    BY CommitRowEffect, SafeParts, Types DEF Locked, DelType
  <1>2. /\ up.place \in Places /\ up.place \in Known /\ up.place \in Typed /\ dir \in Dirs
        /\ up.gen \in Gens /\ up.gen \in Nat /\ Nowhere \notin Places
    BY KeepTypes
  <1>3. CASE /\ row' = [gen |-> up.gen, place |-> up.place]
             /\ dir' = [dir EXCEPT ![up.place] = up.gen]
             /\ UpGets("answer") /\ EnvSame
    <2>1. /\ dir'[up.place] = up.gen /\ \A q \in Places \ {up.place} : dir'[q] = dir[q]
          /\ row'.gen = up.gen /\ row'.place = up.place
          /\ up'.at = "answer" /\ up'.gen = up.gen /\ up'.place = up.place
          /\ up'.replacing = up.replacing
      BY <1>2, <1>3 DEF Dirs, UpGets
    <2>2. Restored'
      BY <1>1, <1>2, <2>1, KeepTypes DEF Restored, Uncommitted, Exists
    <2>3. /\ \A p \in Places : Held[p] = dir[p] /\ Held'[p] = dir'[p]
          /\ Aged'
      BY <1>1, <1>3, <2>2, UploadAlone, UploadAloneNext
    <2>4. Held'[up.place] = up.gen
      BY <1>2, <2>1, <2>3
    <2>5. Ordered'
      BY <1>1, <1>2, <1>3, <2>1, <2>4, KeepParts DEF Ordered
    <2>6. Current'
      <3>1. SUFFICES ASSUME NEW g \in Gens, thr[g].at \in {"due", "writing"},
                            Held'[thr[g].place] = g
                     PROVE  FALSE
        BY <1>1 DEF Current
      <3>2. thr[g].place \in Places /\ g \in Nat /\ g < up.gen
        BY <1>1, <3>1, SafeParts, KeepTypes DEF Uploading
      <3>3. thr[g].place # up.place
        BY <1>2, <2>4, <3>1, <3>2
      <3>4. Held[thr[g].place] = g
        BY <2>1, <2>3, <3>1, <3>2, <3>3
      <3> QED
        BY <1>1, <3>1, <3>3, <3>4, KeepParts DEF Current
    <2>7. Latest'
      BY <1>2, <2>1, <2>4 DEF Latest
    <2>8. Told'
      <3>1. known \in Gens => known <= up.gen
        BY KeepParts DEF Ordered
      <3>2. Exists(row')
        <4>1. row' \in Row
          BY <1>2, <1>3 DEF Row
        <4> QED
          BY <4>1 DEF Exists, ConstantsAssumption
      <3>3. known \in Gens => up.gen >= known
        BY <1>2, <3>1, KeepTypes
      <3> QED
        BY <1>1, <1>2, <2>1, <2>4, <3>2, <3>3 DEF Told, RowPlaces
    <2> QED
      BY <2>2, <2>3, <2>5, <2>6, <2>7, <2>8 DEF KeepInv
  <1>4. CASE EnvFaults /\ UpGets("fail") /\ UNCHANGED <<row, dir>>
    <2>1. Aged'
      BY <1>1, <1>4, KeepParts DEF Aged, DelSame, DelGets, Exists
    <2> QED
      BY <1>1, <1>4, <2>1, LibraryKept DEF DelSame, DelGets, EnvFaults, UpGets
  <1> QED
    BY <1>3, <1>4, CommitRowEffect, SafeParts

LEMMA AnswerKeeps ==
  ASSUME ConstantsAssumption, SafeInv, KeepInv, Answer
  PROVE  KeepInv'
  <1>1. /\ env.up = "up" /\ up.at = "answer"
        /\ UNCHANGED <<dir, row, lock, tomb>> /\ DelSame
    BY AnswerEffect, SafeParts
  <1>2. Aged'
    BY <1>1, KeepParts DEF Aged, DelSame, DelGets, Exists
  <1>3. CASE /\ UpGets("idle") /\ known' = up.gen /\ EnvSame
             /\ \/ UNCHANGED thr
                \/ thr' = [thr EXCEPT ![up.gen] = [at |-> "due", place |-> up.place]]
    <2>1. Held' = Held /\ Restored'
      BY <1>1, <1>3, SameHeld, SameRestored, KeepParts DEF DelSame, DelGets, EnvSame
    <2>2. /\ row = [gen |-> up.gen, place |-> up.place] /\ Held[up.place] = up.gen
          /\ up'.at = "idle" /\ up'.gen = up.gen /\ up.gen \in Gens /\ up.gen \in Nat
          /\ up.place \in Places /\ Nowhere \notin Places
      BY <1>1, <1>3, KeepTypes, KeepParts DEF Ordered, UpGets
    <2>3. Exists(row) /\ row.gen = up.gen /\ row.place = up.place
      <3>1. row \in Row
        BY <2>2, KeepTypes DEF Row
      <3> QED
        BY <2>2, <3>1 DEF Exists, ConstantsAssumption
    <2>4. Ordered'
      BY <1>1, <1>3, <2>2, KeepParts DEF Ordered, Exists
    <2>5. Current'
      <3>1. SUFFICES ASSUME NEW g \in Gens, thr'[g].at \in {"due", "writing"},
                            Held[thr'[g].place] = g
                     PROVE  Home(g, thr'[g].place)
        BY <1>1, <2>1, <2>2 DEF Current, Home, Exists
      <3>2. CASE thr'[g] = thr[g]
        BY <3>1, <3>2, KeepParts DEF Current
      <3>3. CASE g = up.gen /\ thr'[g] = [at |-> "due", place |-> up.place]
        BY <2>3, <3>3 DEF Home
      <3>4. thr \in [Gens -> ThrType]
        BY SafeParts, Types
      <3> QED
        BY <1>3, <2>2, <3>2, <3>3, <3>4
    <2>6. Latest'
      BY <1>1, <2>1, KeepTypes, KeepParts DEF Latest, Exists
    <2>7. Told'
      BY <1>1, <1>3, <2>1, <2>2, <2>3 DEF Told, RowPlaces, Exists
    <2> QED
      BY <1>2, <2>1, <2>4, <2>5, <2>6, <2>7 DEF KeepInv
  <1>4. CASE EnvFaults /\ UpGets("fail") /\ UNCHANGED <<thr, known>>
    BY <1>1, <1>2, <1>4, LibraryKept DEF DelSame, DelGets, EnvFaults, UpGets
  <1> QED
    BY <1>3, <1>4, AnswerEffect, SafeParts

(* Where a failed upload found no document, there is none but its own.         *)
LEMMA FailNewKeeps ==
  ASSUME ConstantsAssumption, SafeInv, KeepInv, FailNew
  PROVE  KeepInv'
  <1>1. /\ env.up = "up" /\ up.at \in {"fail", "fail_row"} /\ ~up.replacing /\ del.at = "idle"
        /\ UNCHANGED <<thr, lock, known, tomb>> /\ DelSame
    BY FailNewEffect, SafeParts, Types DEF Uploading, Locked, DelType
  <1>2. PICK c \in {Empty, Record} : dir' = [dir EXCEPT ![up.place] = c]
    BY FailNewEffect, SafeParts
  <1>3. /\ row' = row \/ row' = Absent
        /\ up'.at \in {"idle", "fail_row"} /\ up'.gen = up.gen
        /\ env'.up = env.up /\ env'.todo = env.todo
    BY FailNewEffect, SafeParts DEF UpGets, EnvSame, EnvFaults
  <1>4. /\ up.place \in Places /\ dir \in Dirs /\ c \notin Gens /\ c # Absent
        /\ Gens \subseteq Nat /\ Typed \subseteq Known /\ Known \subseteq Places
    BY KeepTypes DEF ConstantsAssumption
  <1>5. dir'[up.place] = c /\ \A q \in Places \ {up.place} : dir'[q] = dir[q]
    BY <1>2, <1>4 DEF Dirs
  <1>6. known' \notin Gens
    BY <1>1, KeepParts DEF Ordered
  <1>7. Restored'
    BY <1>1, <1>3, <1>4, <1>5, KeepParts DEF Restored, Uncommitted, Exists, DelSame, DelGets
  <1>8. del'.moved = {} /\ del'.trigger = "none" /\ env'.up = "up"
    BY <1>1, <1>3, UploadAlone DEF DelSame, DelGets
  <1>9. \A p \in Places : Held'[p] = dir'[p]
    BY <1>7, <1>8, HeldIsDirNext
  <1>10. \A p \in Known : Held'[p] \notin Gens
    BY <1>1, <1>4, <1>5, <1>9, SafeParts DEF Uploading
  <1>11. Ordered'
    <2>1. Exists(row') => row' = row
      BY <1>3 DEF Exists
    <2> QED
      BY <1>3, <1>6, <2>1, KeepParts DEF Ordered, Exists
  <1>12. Current'
    BY <1>1, <1>4, <1>10, KeepTypes DEF Current
  <1>13. Latest'
    BY <1>10 DEF Latest
  <1> QED
    BY <1>6, <1>7, <1>8, <1>11, <1>12, <1>13 DEF KeepInv, Aged, Told

LEMMA ThreadLooksKeeps ==
  ASSUME ConstantsAssumption, SafeInv, KeepInv, NEW g \in Gens, ThreadLooks(g)
  PROVE  KeepInv'
  <1>1. /\ thr[g].at = "due" /\ thr'[g].place = thr[g].place
        /\ \A h \in Gens \ {g} : thr'[h] = thr[h]
        /\ UNCHANGED <<dir, tomb, row, up, known>> /\ DelSame /\ EnvSame
    BY ThreadLooksEffect, SafeParts
  <1>2. Aged'
    BY <1>1, KeepParts DEF Aged, DelSame, DelGets, Exists
  <1>3. \A h \in Gens : thr'[h].at \in {"due", "writing"} =>
          thr[h].at \in {"due", "writing"} /\ thr'[h].place = thr[h].place
    BY <1>1
  <1> QED
    BY <1>1, <1>2, <1>3, LibraryKept DEF DelSame, DelGets, EnvSame

(* It writes the row that there is, and its place with it.                     *)
LEMMA ThreadWritesKeeps ==
  ASSUME ConstantsAssumption, SafeInv, KeepInv, NEW g \in Gens, ThreadWrites(g)
  PROVE  KeepInv'
  <1>1. /\ env.up = "up" /\ thr[g].at = "writing" /\ thr'[g].at = "over"
        /\ \A h \in Gens \ {g} : thr'[h] = thr[h]
        /\ UNCHANGED <<tomb, up, known>> /\ DelSame /\ EnvSame
    BY ThreadWritesEffect, SafeParts
  <1>2. /\ UNCHANGED dir /\ thr[g].place \in Typed /\ dir[thr[g].place] = g
        /\ del.moved = {} /\ row' \in Row /\ row'.place = thr[g].place /\ row'.gen = g
    BY ThreadFinds
  <1>3. /\ thr[g].place \in Places /\ Nowhere \notin Places /\ Absent \notin Gens
        /\ Exists(row')
    BY <1>2, KeepTypes DEF Exists, ConstantsAssumption
  <1>4. Restored'
    BY <1>2, <1>3 DEF Restored, Uncommitted, Exists
  <1>5. /\ \A p \in Places : Held[p] = dir[p]
        /\ \A p \in Places : Held'[p] = dir'[p]
    BY <1>1, <1>2, <1>4, KeepParts, HeldIsDir, HeldIsDirNext DEF DelSame, DelGets, EnvSame
  <1>6. \A p \in Places : Held'[p] = Held[p]
    BY <1>2, <1>5
  <1>7. Home(g, thr[g].place)
    BY <1>1, <1>2, <1>3, <1>5, KeepParts DEF Current
  <1>8. Exists(row) /\ row.gen = g /\ row'.gen = row.gen
    BY <1>2, <1>7 DEF Home
  <1>9. up.at # "answer"
    <2>1. ASSUME up.at = "answer" PROVE FALSE
      <3>1. row = [gen |-> up.gen, place |-> up.place]
        BY <2>1, KeepParts DEF Ordered
      <3>2. row.gen = up.gen
        BY <3>1
      <3>3. g < up.gen
        BY <1>1, <2>1, SafeParts DEF Uploading
      <3> QED
        BY <1>8, <3>2, <3>3, KeepTypes
    <2> QED
      BY <2>1
  <1>10. Ordered'
    BY <1>1, <1>2, <1>8, <1>9, KeepParts DEF Ordered
  <1>11. Current'
    <2>1. SUFFICES ASSUME NEW h \in Gens, thr'[h].at \in {"due", "writing"},
                          Held'[thr'[h].place] = h
                   PROVE  FALSE
      BY DEF Current
    <2>2. h # g /\ thr'[h] = thr[h] /\ thr[h].place \in Places
      BY <1>1, <2>1, KeepTypes
    <2>3. Home(h, thr[h].place)
      BY <1>6, <2>1, <2>2, KeepParts DEF Current
    <2> QED
      BY <1>8, <2>2, <2>3 DEF Home
  <1>12. Latest'
    BY <1>2, <1>3, <1>5 DEF Latest
  <1>13. Told' /\ Aged'
    BY <1>1, <1>2, <1>3, <1>5, <1>8, KeepParts
    DEF Told, RowPlaces, Aged, DelSame, DelGets
  <1> QED
    BY <1>4, <1>10, <1>11, <1>12, <1>13 DEF KeepInv

LEMMA RestartKeeps ==
  ASSUME ConstantsAssumption, PutsBack, SafeInv, KeepInv, Restart
  PROVE  KeepInv'
  <1>1. /\ env.up = "down" /\ env'.up = "sweep" /\ env'.todo = Tombstones
        /\ UNCHANGED <<dir, tomb, row, del, up, thr, lock, known>>
    BY RestartEffect, SafeParts DEF PutsBack
  <1>2. Held' = Held
    BY <1>1, SameHeld
  <1>3. Restored'
    BY <1>1 DEF Restored, Tombstones, Exists, Uncommitted
  <1>4. Quietly /\ Aged'
    BY <1>1, <1>2, KeepParts DEF Quietly, Aged, Exists
  <1> QED
    BY <1>3, <1>4, QuietlyKeeps

LEMMA SweepKeeps ==
  ASSUME ConstantsAssumption, PutsBack, SafeInv, KeepInv, Sweep
  PROVE  KeepInv'
  <1>1. env.up = "sweep" /\ UNCHANGED <<row, del, up, thr, lock, known>> /\ DelSame
    BY SweepEffect, SafeParts
  <1>2. PICK p \in env.todo :
          \/ /\ Uncommitted(p) /\ dir' = [dir EXCEPT ![p] = tomb[p]]
             /\ tomb' = [tomb EXCEPT ![p] = Absent] /\ EnvSweeps(p, 0)
          \/ /\ ~Uncommitted(p) /\ UNCHANGED dir
             /\ tomb' = [tomb EXCEPT ![p] = Absent] /\ EnvSweeps(p, 0)
          \/ /\ ~Uncommitted(p) /\ UNCHANGED dir /\ EnvSweeps(p, 1)
             /\ \E c \in Remains(tomb[p]) : tomb' = [tomb EXCEPT ![p] = c]
    BY SweepEffect, SafeParts DEF PutsBack
  <1>3. /\ p \in Places /\ dir \in Dirs /\ tomb \in Dirs /\ del.moved = {}
        /\ env'.up = "sweep" /\ env'.todo = env.todo \ {p}
    BY <1>1, <1>2, SafeParts, Types DEF EnvType, Locked, Steps, EnvSweeps
  <1>4. Aged'
    BY <1>1, KeepParts DEF Aged, Exists
  <1>5. CASE ~Uncommitted(p) /\ UNCHANGED dir
    <2>1. \A q \in Places \ {p} : tomb'[q] = tomb[q]
      BY <1>2, <1>3, <1>5 DEF Dirs
    <2> QED
      BY <1>1, <1>3, <1>4, <1>5, <2>1, StaleKept
  <1>6. CASE /\ Uncommitted(p) /\ dir' = [dir EXCEPT ![p] = tomb[p]]
             /\ tomb' = [tomb EXCEPT ![p] = Absent]
    <2>1. /\ dir'[p] = tomb[p] /\ tomb'[p] = Absent
          /\ \A q \in Places \ {p} : dir'[q] = dir[q] /\ tomb'[q] = tomb[q]
      BY <1>3, <1>6 DEF Dirs
    <2>2. \A q \in Places : Held'[q] = Held[q]
      BY <1>1, <1>3, <1>6, <2>1 DEF Held, Uncommitted, Exists
    <2>3. Restored'
      BY <1>1, <1>3, <2>1, KeepParts DEF Restored, Uncommitted, Exists
    <2>4. Quietly
      BY <1>1, <2>2 DEF Quietly
    <2> QED
      BY <1>4, <2>3, <2>4, QuietlyKeeps
  <1> QED
    BY <1>2, <1>5, <1>6

LEMMA SweptKeeps ==
  ASSUME ConstantsAssumption, SafeInv, KeepInv, Swept
  PROVE  KeepInv'
  <1>1. /\ env.up = "sweep" /\ env.todo = {} /\ env'.up = "up"
        /\ UNCHANGED <<dir, tomb, row, del, up, thr, lock, known>>
    BY SweptEffect, SafeParts
  <1>2. Held' = Held
    BY <1>1, SameHeld
  <1>3. Restored'
    BY <1>1, KeepParts DEF Restored, Exists, Uncommitted
  <1>4. Quietly /\ Aged'
    BY <1>1, <1>2, KeepParts DEF Quietly, Aged, Exists
  <1> QED
    BY <1>3, <1>4, QuietlyKeeps

(* A death loses sight of what a delete had aside, but not of what the row     *)
(* asks back: nothing that a start restores is torn.                           *)
LEMMA CrashKeeps ==
  ASSUME ConstantsAssumption, SafeInv, KeepInv, Crash
  PROVE  KeepInv'
  <1>1. /\ env'.up = "down" /\ del' = NoDel
        /\ up'.at = "idle" /\ up'.gen = up.gen
        /\ \A g \in Gens : thr'[g].at = "none"
        /\ UNCHANGED <<dir, row, known>>
        /\ \/ UNCHANGED tomb
           \/ \E p \in Removing : \E c \in Remains(tomb[p]) : tomb' = [tomb EXCEPT ![p] = c]
    BY CrashEffect, SafeParts
  <1>2. \A q \in Places : Uncommitted(q) => tomb'[q] = tomb[q]
    <2>1. CASE \E p \in Removing : \E c \in Remains(tomb[p]) : tomb' = [tomb EXCEPT ![p] = c]
      <3>1. PICK p \in Removing : \E c \in Remains(tomb[p]) : tomb' = [tomb EXCEPT ![p] = c]
        BY <2>1
      <3>2. PICK c \in Remains(tomb[p]) : tomb' = [tomb EXCEPT ![p] = c]
        BY <3>1
      <3> QED
        BY <3>1, <3>2, RemovingIsSettled, KeepTypes DEF Dirs
    <2> QED
      BY <1>1, <2>1
  <1>3. del'.moved = {} /\ del'.trigger = "none"
    BY <1>1 DEF NoDel
  <1>4. \A q \in Places : Held'[q] = Held[q] \/ (Held'[q] = Absent /\ ~Uncommitted(q))
    BY <1>1, <1>2, <1>3, SafeParts DEF Held, Uncommitted, Exists, Steps
  <1>5. Exists(row) => \A q \in RowPlaces : Held'[q] = Held[q]
    <2>1. ASSUME Exists(row), NEW q \in RowPlaces, q \in del.moved PROVE Uncommitted(q)
      BY <2>1, SafeParts DEF RowPlaces, Uncommitted, Steps
    <2>2. ASSUME Exists(row), NEW q \in RowPlaces PROVE q \in Places
      BY <2>2, KeepTypes
    <2> QED
      BY <1>1, <1>2, <1>3, <2>1, <2>2 DEF Held, Uncommitted, Exists
  <1>6. Ordered'
    BY <1>1, KeepParts DEF Ordered, Exists
  <1>7. Latest'
    <2>1. SUFFICES ASSUME Exists(row), row.gen # 0,
                          ~ \A p \in Known : \A g \in Gens : Held'[p] = g => g >= row.gen
                   PROVE  row.place # Nowhere /\ Held'[row.place] = row.gen
      BY <1>1 DEF Latest, Exists
    <2>2. ~ \A p \in Known : \A g \in Gens : Held[p] = g => g >= row.gen
      BY <1>4, <2>1, KeepTypes
    <2>3. row.place # Nowhere /\ Held[row.place] = row.gen
      BY <2>1, <2>2, KeepParts DEF Latest
    <2> QED
      BY <1>5, <2>1, <2>3 DEF RowPlaces
  <1>8. Told'
    <2>1. Exists(row) => RowPlaces' = RowPlaces /\ Exists(row')
      BY <1>1 DEF RowPlaces, Exists
    <2> QED
      BY <1>1, <1>5, <2>1, KeepParts DEF Told
  <1> QED
    BY <1>1, <1>3, <1>6, <1>7, <1>8 DEF KeepInv, Restored, Current, Aged

LEMMA InitKeeps == ConstantsAssumption /\ Init => KeepInv
  <1> SUFFICES ASSUME ConstantsAssumption, Init PROVE KeepInv
    OBVIOUS
  <1>1. PICK b \in Bases :
          /\ dir = [p \in Places |-> IF b # Absent /\ p = b.dir THEN 0 ELSE Absent]
          /\ tomb = [p \in Places |-> Absent]
          /\ row = IF b = Absent THEN Absent ELSE [gen |-> 0, place |-> b.row]
          /\ del = NoDel /\ up = NoUp /\ lock = "none"
          /\ thr = [g \in Gens |-> IF g = 0 /\ b # Absent /\ b.dir \in Typed
                                   THEN [at |-> "due", place |-> b.dir] ELSE NoThr]
          /\ env = [up |-> "up", todo |-> {}, crashes |-> 0, faults |-> 0, deletes |-> 0]
          /\ known = IF b = Absent THEN Absent ELSE 0
    BY DEF Init
  <1>2. SafeInv
    BY InitSafe
  <1>3. /\ 0 \in Gens /\ Absent \notin Gens /\ Nowhere \notin Places /\ Typed \subseteq Places
        /\ Known \subseteq Places
    BY <1>2, KeepTypes
  <1>4. \/ b = Absent
        \/ /\ b.dir \in Places /\ b.row \in {b.dir, Nowhere}
           /\ b.dir = Moved => b.row = Moved
    BY BaseIs
  <1>5. /\ del.moved = {} /\ del.trigger = "none" /\ up.at = "idle" /\ up.gen = 0
        /\ \A p \in Places : tomb[p] = Absent
    BY <1>1 DEF NoDel, NoUp
  <1>6. Restored /\ Aged
    BY <1>5 DEF Restored, Aged, Exists
  <1>7. \A p \in Places : Held[p] = dir[p]
    BY <1>5 DEF Held, Uncommitted, Exists
  <1>8. CASE b = Absent
    <2>1. ~Exists(row) /\ known \notin Gens
      BY <1>1, <1>3, <1>8 DEF Exists
    <2>2. \A g \in Gens : thr[g].at = "none"
      BY <1>1, <1>8 DEF NoThr
    <2> QED
      BY <1>5, <1>6, <2>1, <2>2 DEF KeepInv, Ordered, Current, Latest, Told
  <1>9. CASE b # Absent
    <2>1. Exists(row) /\ row.gen = 0 /\ row.place = b.row /\ known = 0
      <3>1. row = [gen |-> 0, place |-> b.row]
        BY <1>1, <1>9
      <3>2. row \in Row
        BY <1>3, <1>4, <1>9, <3>1 DEF Row
      <3> QED
        BY <1>1, <1>9, <3>1, <3>2 DEF Exists, ConstantsAssumption
    <2>2. Held[b.dir] = 0 /\ \A p \in Places \ {b.dir} : Held[p] = Absent
      BY <1>1, <1>4, <1>7, <1>9
    <2>3. Ordered
      BY <1>3, <1>5, <2>1 DEF Ordered
    <2>4. Current
      <3>1. SUFFICES ASSUME NEW g \in Gens, thr[g].at \in {"due", "writing"},
                            Held[thr[g].place] = g
                     PROVE  Home(g, thr[g].place)
        BY <1>5 DEF Current
      <3>2. g = 0 /\ thr[g].place = b.dir
        BY <1>1, <3>1 DEF NoThr
      <3> QED
        BY <1>3, <1>4, <1>9, <2>1, <2>2, <3>2 DEF Home
    <2>5. Latest
      BY <2>1 DEF Latest
    <2>6. Told
      <3>1. b.dir \in RowPlaces
        BY <1>4, <1>9, <2>1 DEF RowPlaces, Places
      <3> QED
        BY <1>3, <2>1, <2>2, <3>1 DEF Told
    <2> QED
      BY <1>6, <2>3, <2>4, <2>5, <2>6 DEF KeepInv
  <1> QED
    BY <1>8, <1>9

LEMMA KeepStep ==
  ASSUME ConstantsAssumption, PutsBack, SafeInv, KeepInv, [Next]_vars
  PROVE  KeepInv'
  <1>1. CASE UNCHANGED vars
    <2>1. Aged'
      BY <1>1, KeepParts DEF vars, Aged, Exists
    <2> QED
      BY <1>1, <2>1, LibraryKept DEF vars
  <1>2. CASE Rest
    BY <1>1, <1>2 DEF Rest
  <1>3. CASE Deletes \/ RetentionPicks
    BY <1>3, RetentionPicksKeeps, DeleteAsksKeeps, DeleteLocksKeeps, SetAsideKeeps,
       CommitDeleteKeeps, ClearTombstoneKeeps, PutBackAsideKeeps, DeleteAnswersKeeps DEF Deletes
  <1>4. CASE Uploads
    BY <1>4, ArriveKeeps, StartKeeps, ParseKeeps, WriteFilesKeeps, CommitRowKeeps, AnswerKeeps,
       FailReplacementKeeps, FailNewKeeps DEF Uploads
  <1>5. CASE \E g \in Gens : Thread(g)
    BY <1>5, ThreadLooksKeeps, ThreadWritesKeeps DEF Thread
  <1>6. CASE Starting \/ Crash
    BY <1>6, RestartKeeps, SweepKeeps, SweptKeeps, CrashKeeps DEF Starting
  <1> QED
    BY <1>1, <1>2, <1>3, <1>4, <1>5, <1>6 DEF Next

(* What is held for the row is found: in place, or where a start restores it.  *)
LEMMA ToldIsKept ==
  ASSUME ConstantsAssumption, SafeInv, Told
  PROVE  Kept
  <1> SUFFICES ASSUME known \in Gens PROVE Exists(row) /\ row.gen >= known /\ Findable
    BY DEF Kept
  <1>1. PICK p \in RowPlaces : Held[p] = row.gen
    BY DEF Told
  <1>2. p \in Places /\ row.gen \in Gens /\ Absent \notin Gens
    BY KeepTypes DEF Told
  <1>3. dir[p] = row.gen \/ (~Exists(dir[p]) /\ tomb[p] = row.gen)
    BY <1>1, <1>2, SafeParts DEF Held, Uncommitted, Steps
  <1> QED
    BY <1>1, <1>3 DEF Told, Findable

(* An upload that was answered with 200 is there, or a later one is: listed,   *)
(* and its files in place or in a tombstone that the next start restores.      *)
(* Only a delete that commits takes it away, never one that fails, is killed   *)
(* or is swept (_delete_doc: "a failed delete leaves the document whole").     *)
THEOREM KeptHolds == PutsBack => (Spec => []Kept)
  <1> SUFFICES ASSUME PutsBack PROVE Spec => []Kept
    OBVIOUS
  <1>1. Init => SafeInv /\ KeepInv
    BY ConstantsAssumption, InitSafe, InitKeeps
  <1>2. SafeInv /\ KeepInv /\ [Next]_vars => (SafeInv /\ KeepInv)'
    BY ConstantsAssumption, SafeStep, KeepStep
  <1>3. SafeInv /\ KeepInv => Kept
    BY ConstantsAssumption, ToldIsKept, KeepParts
  <1> QED
    BY <1>1, <1>2, <1>3, PTL DEF Spec

(* The delete that removes the row is the one that retention has looked for.   *)
LEMMA RowGoes ==
  ASSUME ConstantsAssumption, SafeInv, KeepInv, [Next]_vars, del.trigger = "retention",
         Exists(row), ~Exists(row')
  PROVE  row.gen \in Expired
  BY KeepParts DEF Aged

(* Retention deletes only what was older than its limit when the row went,     *)
(* however long ago it picked it (only_if_created_before).                     *)
THEOREM RetentionKeepsFreshHolds == PutsBack => (Spec => RetentionKeepsFresh)
  <1> SUFFICES ASSUME PutsBack PROVE Spec => RetentionKeepsFresh
    OBVIOUS
  <1>1. Init => SafeInv /\ KeepInv
    BY ConstantsAssumption, InitSafe, InitKeeps
  <1>2. SafeInv /\ KeepInv /\ [Next]_vars => (SafeInv /\ KeepInv)'
    BY ConstantsAssumption, SafeStep, KeepStep
  <1>3. SafeInv /\ KeepInv /\ [Next]_vars =>
          [del.trigger = "retention" /\ Exists(row) /\ ~Exists(row') => row.gen \in Expired]_vars
    BY ConstantsAssumption, RowGoes
  <1> QED
    BY <1>1, <1>2, <1>3, PTL DEF Spec, RetentionKeepsFresh
=============================================================================
