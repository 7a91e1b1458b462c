-------------------------------- MODULE Upsert --------------------------------
(***************************************************************************)
(* Writing the elements that are not there (upsert_vertices, merge_vertices *)
(* and upsert_edges in connection_async.py, and bulk.py): what identifies  *)
(* an element is checked, what is there is read, the rest is copied and    *)
(* the overlap updated, while another session writes to the same label.    *)
(*                                                                         *)
(* A key is the text the driver reads it as.  The server keeps a vertex's  *)
(* as JSON, where the number 1 and the string "1" differ: a spelling.      *)
(*                                                                         *)
(* The server is external: what is committed to the label (store), a unique *)
(* index over the JSON value or the pair of endpoints, and enable_seqscan. *)
(***************************************************************************)
EXTENDS Naturals, Sequences, FiniteSets, Transaction

CONSTANTS Keys, Rows, MaxId

Spellings == {"number", "pair", "text"}
Row == [bare : BOOLEAN, form : Spellings, key : Keys]

ASSUME UpsertAssumption == Rows \subseteq Seq(Row) /\ MaxId \in Nat

VARIABLES
    kind, unique,  \* what the label holds, and whether an index keeps its keys
    store,         \* its elements that are committed
    mine,          \* those this session's transaction made or changed
    lastId,        \* the label's sequence
    scan, base,    \* enable_seqscan now, and as the transaction found it
    wanted,        \* the value the caller gave it
    at,            \* the step of the call
    mode, careless, rows,    \* what the call was asked: careless without require_unique
    prev,          \* what the call read enable_seqscan to be
    known,         \* the elements the read found
    after,         \* the sequence as it read
    fresh, ids,    \* the rows to copy, by their place, and the identities of them
    gone,          \* the keys the other session removed since (history)
    cut            \* the call was given up on as it read the keys (history)

call == <<mode, careless, rows, prev, known, after, fresh, ids, gone>>
upsert == <<kind, unique, store, mine, lastId, scan, base, wanted, at, call, cut>>

Element == [after : 0..MaxId, by : {"me", "other"}, form : Spellings, id : 1..MaxId,
            key : Keys, touched : BOOLEAN]
Stages == {"resting", "facts", "reading", "restoring", "copying", "updating", "answered", "raised"}

NoIds == [i \in {} |-> 0]

UpsertTypeOK ==
    /\ kind \in {"vertex", "edge"} /\ unique \in BOOLEAN
    /\ store \subseteq Element /\ mine \subseteq Element
    /\ lastId \in 0..MaxId /\ after \in 0..MaxId
    /\ {scan, base, wanted, prev} \subseteq {"on", "off"}
    /\ at \in Stages /\ mode \in {"skip", "update", "merge"}
    /\ {careless, cut} \subseteq BOOLEAN
    /\ rows \in Rows \cup {<<>>} /\ fresh \subseteq DOMAIN rows
    /\ ids \in {NoIds} \cup [fresh -> 1..MaxId]
    /\ known \subseteq Element /\ gone \subseteq Keys

UpsertInit ==
    /\ kind \in {"vertex", "edge"} /\ unique \in BOOLEAN
    /\ store = {} /\ mine = {} /\ lastId = 0
    /\ wanted \in {"on", "off"} /\ scan = wanted /\ base = wanted
    /\ at = "resting" /\ mode = "skip" /\ careless = FALSE /\ rows = <<>>
    /\ prev = "on" /\ known = {} /\ after = 0 /\ fresh = {} /\ ids = NoIds
    /\ gone = {} /\ cut = FALSE

-----------------------------------------------------------------------------
(* Elements in place of those of the same identity.                        *)
Over(elements, others) ==
    elements \cup {e \in others : \A n \in elements : n.id # e.id}

(* What this session sees: the committed, with its own changes over it.    *)
Visible == Over(mine, store)

(* A statement of this session done; in autocommit it is committed.        *)
Wrote(elements) ==
    /\ tx' = Begun
    /\ IF Begun = "idle"
       THEN mine' = {} /\ store' = Over(elements, store)
       ELSE mine' = Over(elements, mine) /\ UNCHANGED store

Fails == tx' = Aborted /\ at' = "raised" /\ UNCHANGED <<store, mine, lastId>>

Given == {rows[i] : i \in DOMAIN rows}
KeysOf(rs) == {r.key : r \in rs}

(* A call: upsert_vertices or merge_vertices on a vertex label, upsert_edges*)
(* on an edge label.                                                       *)
Ask(m, r, c) ==
    /\ at = "resting" /\ lastId + Len(r) <= MaxId
    /\ kind = "edge" => m # "merge"
    /\ \A i \in DOMAIN r : r[i].form = "pair" <=> kind = "edge"
    /\ mode' = m /\ rows' = r /\ careless' = c /\ at' = "facts"
    /\ UNCHANGED <<tx, kind, unique, store, mine, lastId, scan, wanted, prev, known,
                   after, fresh, ids, gone, cut>>

Identified == unique \/ careless

(* Refused where nothing keeps the key unique, unless the caller accepts it.*)
Facts ==
    /\ at = "facts"
    /\ \/ Begun = "failed" /\ Fails
       \/ /\ Begun # "failed" /\ ~Identified
          /\ tx' = Begun /\ at' = "raised"
          /\ UNCHANGED <<store, mine, lastId>>
       \/ /\ Begun # "failed" /\ Identified
          /\ tx' = Begun /\ at' = "reading"
          /\ UNCHANGED <<store, mine, lastId>>
    /\ UNCHANGED <<kind, unique, scan, wanted, call, cut>>

(* Keys are matched by their text, whatever the spelling.                  *)
FoundAsSpelled == {e \in Visible : \E r \in Given : r.key = e.key /\ r.form = e.form}
Found == {e \in Visible : e.key \in KeysOf(Given)}

(* Two answers to one key are refused: two elements, or a key asked twice.  *)
Repeated(found) ==
    \/ \E d, e \in found : d # e /\ d.key = e.key
    \/ kind = "vertex" /\ unique
       /\ \E i, j \in DOMAIN rows : i # j /\ rows[i].key = rows[j].key
                                  /\ rows[i].key \in KeysOf(found)

(* An edge given twice is written once; a vertex is left to the index.     *)
EveryRow == {i \in DOMAIN rows : rows[i].key \notin KeysOf(known')}
FirstOfEach == {i \in EveryRow : \A j \in 1..(i - 1) : rows[j].key # rows[i].key}
Split == IF kind = "edge" THEN FirstOfEach ELSE EveryRow

(* The read that decides: by pair, or of the whole label where no index     *)
(* keeps the key, or of the keys given with the scan turned off.           *)
Learn(found) ==
    \/ /\ kind = "vertex" /\ Repeated(found)
       /\ at' = "raised" /\ UNCHANGED <<known, after, fresh>>
    \/ /\ kind = "edge" \/ ~Repeated(found)
       /\ known' \in {s \in SUBSET found : /\ KeysOf(s) = KeysOf(found)
                                           /\ \A d, e \in s : d.key = e.key => d = e}
       /\ after' = lastId /\ fresh' = Split
       /\ at' = "copying"

ReadAll ==
    /\ at = "reading" /\ (kind = "edge" \/ ~unique)
    /\ \/ /\ tx' = Begun /\ Learn(IF kind = "edge" THEN Found ELSE Visible)
       \/ tx' = Aborted /\ at' = "raised" /\ UNCHANGED <<known, after, fresh>>
    /\ UNCHANGED <<kind, unique, store, mine, lastId, scan, wanted, mode, careless,
                   rows, prev, ids, gone, cut>>

(* Showing the setting, turning it off and asking, in one pipeline; what    *)
(* fails of it undoes the setting, what is given up on at its end does not. *)
ReadKeys ==
    /\ at = "reading" /\ kind = "vertex" /\ unique
    /\ \/ /\ tx' = Begun /\ scan' = "off" /\ prev' = scan
          /\ known' = Found /\ after' = lastId
          /\ at' = "restoring" /\ UNCHANGED cut
       \/ /\ tx' = Aborted /\ at' = "raised" /\ UNCHANGED <<scan, prev, known, after, cut>>
       \/ /\ tx' = Begun /\ scan' = "off" /\ at' = "raised" /\ cut' = TRUE
          /\ UNCHANGED <<prev, known, after>>
    /\ UNCHANGED <<kind, unique, store, mine, lastId, wanted, mode, careless, rows,
                   fresh, ids, gone>>

(* The setting put back, to what it was, whatever the map then says.       *)
TurnedOn == "on"
Back == prev
Restore ==
    /\ at = "restoring"
    /\ scan' = Back
    /\ \/ /\ Repeated(known) /\ at' = "raised" /\ UNCHANGED <<known, fresh>>
       \/ /\ ~Repeated(known) /\ known' = known
          /\ fresh' = Split
          /\ at' = "copying"
    /\ UNCHANGED <<tx, kind, unique, store, mine, lastId, wanted, mode, careless, rows,
                   prev, after, ids, gone, cut>>

(* The next identities, in the rows' order.                                *)
Numbers == [i \in fresh |-> lastId + Cardinality({j \in fresh : j <= i})]

(* The identities a merge writes are reserved before, in a statement.      *)
Reserve ==
    /\ at = "copying" /\ mode = "merge" /\ fresh # {} /\ ids = NoIds
    /\ tx' = Begun
    /\ ids' = Numbers
    /\ lastId' = lastId + Cardinality(fresh)
    /\ UNCHANGED <<kind, unique, store, mine, scan, wanted, at, mode, careless, rows,
                   prev, known, after, fresh, gone, cut>>

Copied(numbers) ==
    {[after |-> after, by |-> "me", form |-> rows[i].form, id |-> numbers[i],
      key |-> rows[i].key, touched |-> TRUE] : i \in fresh}
Collides(elements) ==
    unique /\ \/ \E e \in elements, d \in Visible \cup store :
                     e.id # d.id /\ e.key = d.key /\ e.form = d.form
              \/ \E d, e \in elements : d # e /\ d.key = e.key /\ d.form = e.form

(* The copy: a row whose key is there by now is the index's to refuse, and  *)
(* the copy with it.                                                       *)
Copy ==
    /\ at = "copying"
    /\ \/ fresh = {} /\ at' = "updating" /\ UNCHANGED <<tx, store, mine, lastId, ids>>
       \/ /\ fresh # {} /\ (mode = "merge" => ids # NoIds)
          /\ ids' = IF mode = "merge" THEN ids ELSE Numbers
          /\ \/ /\ ~Collides(Copied(ids'))
                /\ Wrote(Copied(ids')) /\ at' = "updating"
                /\ lastId' = IF mode = "merge" THEN lastId ELSE lastId + Cardinality(fresh)
             \/ Collides(Copied(ids')) /\ Fails
    /\ UNCHANGED <<kind, unique, scan, wanted, mode, careless, rows, prev, known, after,
                   fresh, gone, cut>>

(* The overlap in one statement, by identity: one that is gone is not      *)
(* written, and what was given for a key is written over it, spelling too. *)
OverlapAlone == {r \in Given : fresh = {} /\ r.key \in KeysOf(known)}
Overlap == {r \in Given : r.key \in KeysOf(known) /\ ~(kind = "edge" /\ r.bare)}
Updated ==
    {f \in [{e \in Visible : \E k \in known : k.id = e.id /\ k.key \in KeysOf(Overlap)} -> Overlap] :
        \A e \in DOMAIN f : f[e].key = e.key}
Update ==
    /\ at = "updating"
    /\ \/ /\ mode = "skip" \/ Overlap = {}
          /\ at' = "answered" /\ UNCHANGED <<tx, store, mine, lastId>>
       \/ /\ mode # "skip" /\ Overlap # {}
          /\ \E f \in Updated :
               LET new == {[e EXCEPT !.form = f[e].form, !.touched = TRUE] : e \in DOMAIN f}
               IN \/ ~Collides(new) /\ Wrote(new) /\ at' = "answered" /\ UNCHANGED lastId
                  \/ Collides(new) /\ Fails
    /\ UNCHANGED <<kind, unique, scan, wanted, call, cut>>

UpsertReturn ==
    /\ at \in {"answered", "raised"}
    /\ at' = "resting" /\ mode' = "skip" /\ careless' = FALSE /\ rows' = <<>>
    /\ prev' = "on" /\ known' = {} /\ after' = 0 /\ fresh' = {} /\ ids' = NoIds /\ gone' = {}
    /\ UNCHANGED <<tx, kind, unique, store, mine, lastId, scan, wanted, cut>>

-----------------------------------------------------------------------------
(* The other session, a statement at a time: it waits for what this one has *)
(* written and not committed.  The bound leaves the call its identities.   *)
OtherInserts(k, f) ==
    /\ lastId + Len(rows) < MaxId /\ (f = "pair" <=> kind = "edge")
    /\ unique => \A e \in store \cup mine : e.key # k \/ e.form # f
    /\ lastId' = lastId + 1
    /\ store' = store \cup {[after |-> 0, by |-> "other", form |-> f, id |-> lastId',
                             key |-> k, touched |-> FALSE]}
    /\ UNCHANGED <<tx, kind, unique, mine, scan, wanted, at, call, cut>>

OtherRemoves(e) ==
    /\ e \in store /\ \A m \in mine : m.id # e.id
    /\ store' = store \ {e}
    /\ gone' = IF at = "resting" THEN gone ELSE gone \cup {e.key}
    /\ UNCHANGED <<tx, kind, unique, mine, lastId, scan, wanted, at, mode, careless, rows,
                   prev, known, after, fresh, ids, cut>>

(* The caller, between calls: its own transaction, and its own setting.    *)
UpsertBegins == UNCHANGED <<kind, unique, store, mine, lastId, scan, wanted, at, call, cut>>
UpsertCommits ==
    /\ store' = Visible /\ mine' = {}
    /\ UNCHANGED <<kind, unique, lastId, scan, wanted, at, call, cut>>
UpsertRollsBack ==
    /\ mine' = {} /\ scan' = base
    /\ UNCHANGED <<kind, unique, store, lastId, wanted, at, call, cut>>

UpsertNext ==
    \/ \E m \in {"skip", "update", "merge"}, r \in Rows, c \in BOOLEAN : Ask(m, r, c)
    \/ Facts \/ ReadAll \/ ReadKeys \/ Restore \/ Reserve \/ Copy \/ Update \/ UpsertReturn
    \/ \E k \in Keys, f \in Spellings : OtherInserts(k, f)
    \/ \E e \in store : OtherRemoves(e)
-----------------------------------------------------------------------------
(* Properties.                                                             *)

(* An element a call made is never a second for its key: none of that key,  *)
(* in whatever spelling, was there as the call read.  Of one call's own     *)
(* rows two of a key are both written only as vertices, and then without   *)
(* a unique index or in two spellings.                                     *)
OncePerKey ==
    \A d, e \in Visible : e.by = "me" /\ d # e /\ d.key = e.key =>
        /\ d.id > e.after
        /\ d.by = "me" /\ d.after = e.after =>
              kind = "vertex" /\ (~unique \/ d.form # e.form)

(* A call that answered left an element for each key it was given, touched  *)
(* where it was to be updated, except those the other session removed.     *)
AnswerTrue ==
    at = "answered" =>
        \A r \in Given : r.key \in gone \/
            \E e \in Visible : /\ e.key = r.key
                               /\ mode # "skip" /\ ~r.bare => e.touched
                               /\ mode = "merge" => \/ e.id \in {ids[i] : i \in DOMAIN ids}
                                                    \/ \E k \in known : k.id = e.id

(* The planner's setting is the caller's own again once the transaction the *)
(* calls were made in is over, however they ended, unless one was given up *)
(* on as its keys were being read.                                         *)
ScanRestored == at = "resting" /\ tx = "idle" /\ ~cut => scan = wanted
===============================================================================
