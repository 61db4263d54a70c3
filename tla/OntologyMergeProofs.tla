-------------------------- MODULE OntologyMergeProofs --------------------------
(***************************************************************************)
(* Theorems about OntologyMerge for any set of fields and values.          *)
(***************************************************************************)
EXTENDS OntologyMerge, TLAPS

(* Sessions follow one another. *)
OneSession == \A c, d \in Clients : c = d

(* The open session has loaded what the row still is. *)
Fresh == \A c \in open : seen[c] = row

(* What people decided on is pinned; what they decided against is still the  *)
(* baseline of a field they decided on.                                    *)
DecidedPinned ==
    \A f \in Fields : authority[f] # None =>
        Present(row) /\ f \in row.pinned /\ row.cur[f] = authority[f]
RejectedBase ==
    \A f \in Fields : rejected[f] # None =>
        authority[f] # None /\ row.base[f] = rejected[f] /\ row.conflict[f] = NoConflict
PinnedTouched == row.pinned \subseteq touched

(* A field in conflict is one that the merge leaves to people. *)
ConflictGuarded ==
    \A f \in Fields : row.conflict[f] # NoConflict => Present(row) /\ UserChanged(row, f)

Decided ==
    /\ DecidedPinned
    /\ RejectedBase
    /\ PinnedTouched
    /\ ConflictGuarded
    /\ ConflictShowsRow
    /\ UntouchedFollows

(* A row flushed over another one is a complete row. *)
LEMMA FlushTyped ==
    ASSUME NEW r \in Rows, NEW s \in Rows, NEW n \in Rows,
           Complete(r), Complete(n)
    PROVE  /\ FlushedRow(r, s, n) \in Rows
           /\ Present(r) /\ Present(n) => Complete(FlushedRow(r, s, n))
  BY DEF FlushedRow, Flushed, Rows, Complete, Present, Incoming, Statuses, Optional

(* A session that loaded what the row still is writes what it assigned. *)
LEMMA FlushFresh ==
    ASSUME NEW r \in Rows, NEW n \in Rows, n.id = r.id
    PROVE  FlushedRow(r, r, n) = n
<1>1. [f \in Fields |-> Flushed(r.cur[f], r.cur[f], n.cur[f])] = n.cur
  BY DEF Flushed, Rows
<1> QED
  BY <1>1 DEF FlushedRow, Flushed, Rows

(* Merging, editing and publishing make a complete row of one. *)
LEMMA MergedTyped ==
    ASSUME NEW r \in Rows, Complete(r), Present(r), NEW inc \in Incoming
    PROVE  /\ MergedRow(r, inc) \in Rows /\ Complete(MergedRow(r, inc))
           /\ Present(MergedRow(r, inc)) /\ MergedRow(r, inc).id = r.id
<1>1. MergedRow(r, inc).cur \in Incoming
  BY DEF MergedRow, Rows, Complete, Present, Incoming
<1>2. MergedRow(r, inc).conflict \in [Fields -> Conflicts]
  BY DEF MergedRow, MergedConflicts, Rows, Complete, Present, Incoming, Conflicts, NoConflict
<1> QED
  BY <1>1, <1>2 DEF MergedRow, Rows, Complete, Present, Incoming, Optional

Typed(r) == r \in Rows /\ Complete(r) /\ Present(r)
EditedRow(r, fs, new) ==
    Marked([r EXCEPT !.cur = [f \in Fields |-> IF f \in fs THEN new[f] ELSE r.cur[f]]], fs)
KeptRow(r, f) == [r EXCEPT !.pinned = @ \union {f}, !.conflict[f] = NoConflict]
AcceptedRow(r, f) ==
    [r EXCEPT !.cur[f] = r.conflict[f].theirs, !.pinned = @ \ {f}, !.conflict[f] = NoConflict]
PinnedRow(r, f) == [r EXCEPT !.pinned = @ \union {f}]
UnpinnedRow(r, f) == [r EXCEPT !.pinned = @ \ {f}, !.conflict[f] = NoConflict]
RowInStatus(r, s) == [r EXCEPT !.status = s]

(* What any other operation makes of a complete row is one, too. *)
LEMMA RowsTyped ==
    ASSUME NEW r, Typed(r)
    PROVE  /\ \A inc \in Incoming : Typed(MergedRow(r, inc)) /\ MergedRow(r, inc).id = r.id
           /\ \A fs \in SUBSET Fields, new \in Incoming :
                Typed(EditedRow(r, fs, new)) /\ EditedRow(r, fs, new).id = r.id
           /\ \A f \in Fields :
                /\ Typed(KeptRow(r, f)) /\ KeptRow(r, f).id = r.id
                /\ r.conflict[f] # NoConflict =>
                     Typed(AcceptedRow(r, f)) /\ AcceptedRow(r, f).id = r.id
                /\ Typed(PinnedRow(r, f)) /\ PinnedRow(r, f).id = r.id
                /\ Typed(UnpinnedRow(r, f)) /\ UnpinnedRow(r, f).id = r.id
           /\ Typed(PublishedRow(r)) /\ PublishedRow(r).id = r.id
           /\ \A s \in Statuses \ {"absent"} :
                Typed(RowInStatus(r, s)) /\ RowInStatus(r, s).id = r.id
<1> USE MergeAssumption DEF Typed, Rows, Complete, Present, Incoming, Optional, Conflicts,
        NoConflict, Statuses
<1>1. \A inc \in Incoming : Typed(MergedRow(r, inc)) /\ MergedRow(r, inc).id = r.id
  BY MergedTyped
<1>2. ASSUME NEW fs \in SUBSET Fields, NEW new \in Incoming
      PROVE  Typed(EditedRow(r, fs, new)) /\ EditedRow(r, fs, new).id = r.id
  BY DEF EditedRow, Marked, EditedStatus
<1>3. ASSUME NEW f \in Fields
      PROVE  /\ Typed(KeptRow(r, f)) /\ KeptRow(r, f).id = r.id
             /\ Typed(PinnedRow(r, f)) /\ PinnedRow(r, f).id = r.id
             /\ Typed(UnpinnedRow(r, f)) /\ UnpinnedRow(r, f).id = r.id
  BY DEF KeptRow, PinnedRow, UnpinnedRow
<1>4. ASSUME NEW f \in Fields, r.conflict[f] # NoConflict
      PROVE  Typed(AcceptedRow(r, f)) /\ AcceptedRow(r, f).id = r.id
  BY <1>4 DEF AcceptedRow
<1>5. Typed(PublishedRow(r)) /\ PublishedRow(r).id = r.id
  BY DEF PublishedRow
<1>6. \A s \in Statuses \ {"absent"} : Typed(RowInStatus(r, s)) /\ RowInStatus(r, s).id = r.id
  BY DEF RowInStatus
<1> QED
  BY <1>1, <1>2, <1>3, <1>4, <1>5, <1>6

(* A session that commits a complete row leaves everything typed. *)
Stored == /\ row \in Rows /\ Complete(row)
          /\ open \subseteq Clients
          /\ seen \in [Clients -> Rows] /\ \A c \in Clients : Complete(seen[c])

LEMMA NoRowTyped == \A id \in 0..MaxRows : NoRow(id) \in Rows /\ Complete(NoRow(id))
  BY DEF NoRow, Rows, Complete, Present, Optional, Conflicts, Statuses

LEMMA ClosesTyped ==
    ASSUME Stored, NEW c \in Clients, Closes(c)
    PROVE  /\ open' \subseteq Clients
           /\ seen' \in [Clients -> Rows] /\ \A d \in Clients : Complete(seen[d])'
<1>1. NoRow(0) \in Rows /\ Complete(NoRow(0))
  BY MergeAssumption, NoRowTyped
<1> QED
  BY <1>1 DEF Stored, Closes, Complete, Present, Incoming

LEMMA CommitTyped ==
    ASSUME Stored, NEW c \in Clients, NEW n, Typed(n), Commits(c, n)
    PROVE  Stored'
<1>1. row' \in Rows /\ Complete(row)'
  BY FlushTyped DEF Stored, Typed, Commits, Loaded, StillThere, Complete, Present, Incoming
<1> QED
  BY <1>1, ClosesTyped DEF Stored, Commits

LEMMA DeleteTyped ==
    ASSUME Stored, NEW c \in Clients, Deletes(c)
    PROVE  Stored'
<1>1. row' \in Rows /\ Complete(row)'
  BY NoRowTyped DEF Stored, Deletes, Rows, Complete, Present, Incoming
<1> QED
  BY <1>1, ClosesTyped DEF Stored, Deletes

(* Every step keeps the types. *)
LEMMA TypeStep == TypeOK /\ [Next]_vars => TypeOK'
<1> SUFFICES ASSUME TypeOK, [Next]_vars PROVE TypeOK'
  OBVIOUS
<1> DEFINE Histories ==
      /\ authority \in [Fields -> Optional]
      /\ rejected \in [Fields -> Optional]
      /\ touched \subseteq Fields
<1>s. Stored /\ Histories
  BY DEF TypeOK, Stored
<1>t. Stored' /\ Histories' => TypeOK'
  BY DEF TypeOK, Stored
<1>c. ASSUME NEW c \in Clients, Loaded(c)
      PROVE  Typed(seen[c])
  BY <1>s, <1>c DEF Stored, Loaded, Typed
<1>r. ASSUME Present(row)
      PROVE  row.cur \in Incoming /\ row.base \in Incoming
  BY <1>s, <1>r DEF Stored, Complete
<1> USE <1>s, MergeAssumption DEF Incoming, Optional
<1>1. ASSUME NEW c \in Clients, Load(c) PROVE TypeOK'
  BY <1>1, <1>t DEF Load, Stored, history, Complete, Present
<1>2. ASSUME NEW c \in Clients, Leaves(c) PROVE TypeOK'
  BY <1>2, <1>t, ClosesTyped DEF Leaves, Stored, history, Complete, Present
<1>3. ASSUME NEW c \in Clients, NEW inc \in Incoming, MergeUpdates(c, inc) PROVE TypeOK'
  <2>1. Stored'
    BY <1>3, <1>c, RowsTyped, CommitTyped DEF MergeUpdates, Commits
  <2> QED
    BY <1>3, <1>t, <2>1 DEF MergeUpdates
<1>4. ASSUME NEW c \in Clients, NEW inc \in Incoming, MergeAdds(c, inc) PROVE TypeOK'
  <2>1. row.id + 1 \in 0..MaxRows
    BY <1>4 DEF MergeAdds, Stored, Rows
  <2>2. NoRow(row.id + 1) \in Rows
    BY <2>1, NoRowTyped
  <2>3. row' \in Rows /\ Complete(row)'
    BY <1>4, <2>2 DEF MergeAdds, Rows, Complete, Present, Statuses
  <2>4. Stored'
    BY <1>4, <2>3, ClosesTyped DEF MergeAdds, Stored
  <2> QED
    BY <1>4, <1>t, <2>4 DEF MergeAdds, Nothing
<1>5. ASSUME NEW c \in Clients, MergeDeprecates(c) PROVE TypeOK'
  <2>1. Typed(RowInStatus(seen[c], "deprecated"))
    BY <1>5, <1>c, RowsTyped DEF MergeDeprecates, Commits, Statuses
  <2>2. Stored'
    BY <1>5, <2>1, CommitTyped DEF MergeDeprecates, RowInStatus
  <2> QED
    BY <1>5, <1>t, <2>2 DEF MergeDeprecates, history
<1>6. ASSUME NEW c \in Clients, MergeDeletes(c) PROVE TypeOK'
  BY <1>6, <1>t, DeleteTyped DEF MergeDeletes, history
<1>7. ASSUME NEW c \in Clients, NEW fs \in SUBSET Fields, NEW new \in Incoming, Edit(c, fs, new)
      PROVE  TypeOK'
  <2>1. Typed(EditedRow(seen[c], fs, new))
    BY <1>7, <1>c, RowsTyped DEF Edit, Commits
  <2>2. Stored'
    BY <1>7, <2>1, CommitTyped DEF Edit, EditedRow
  <2> QED
    BY <1>7, <1>r, <1>t, <2>2 DEF Edit, Commits, StillThere
<1>8. ASSUME NEW c \in Clients, NEW f \in Fields, KeepOurs(c, f) PROVE TypeOK'
  <2>1. Typed(KeptRow(seen[c], f))
    BY <1>8, <1>c, RowsTyped DEF KeepOurs, Commits
  <2>2. Stored'
    BY <1>8, <2>1, CommitTyped DEF KeepOurs, KeptRow
  <2> QED
    BY <1>8, <1>r, <1>t, <2>2 DEF KeepOurs, Commits, StillThere
<1>9. ASSUME NEW c \in Clients, NEW f \in Fields, AcceptTheirs(c, f) PROVE TypeOK'
  <2>1. Typed(AcceptedRow(seen[c], f))
    BY <1>9, <1>c, RowsTyped DEF AcceptTheirs, Commits
  <2>2. Stored'
    BY <1>9, <2>1, CommitTyped DEF AcceptTheirs, AcceptedRow
  <2> QED
    BY <1>9, <1>t, <2>2 DEF AcceptTheirs, Releases
<1>10. ASSUME NEW c \in Clients, NEW f \in Fields, Pin(c, f) PROVE TypeOK'
  <2>1. Typed(PinnedRow(seen[c], f))
    BY <1>10, <1>c, RowsTyped DEF Pin, Commits
  <2>2. Stored'
    BY <1>10, <2>1, CommitTyped DEF Pin, PinnedRow
  <2> QED
    BY <1>10, <1>r, <1>t, <2>2 DEF Pin, Commits, StillThere
<1>11. ASSUME NEW c \in Clients, NEW f \in Fields, Unpin(c, f) PROVE TypeOK'
  <2>1. Typed(UnpinnedRow(seen[c], f))
    BY <1>11, <1>c, RowsTyped DEF Unpin, Commits
  <2>2. Stored'
    BY <1>11, <2>1, CommitTyped DEF Unpin, UnpinnedRow
  <2> QED
    BY <1>11, <1>t, <2>2 DEF Unpin, Releases
<1>12. ASSUME NEW c \in Clients, PrePublish(c) PROVE TypeOK'
  <2>1. Typed(RowInStatus(seen[c], "pre_published"))
    BY <1>12, <1>c, RowsTyped DEF PrePublish, Commits, Statuses
  <2>2. Stored'
    BY <1>12, <2>1, CommitTyped DEF PrePublish, RowInStatus
  <2> QED
    BY <1>12, <1>t, <2>2 DEF PrePublish, history
<1>13. ASSUME NEW c \in Clients, Publish(c) PROVE TypeOK'
  <2>1. Stored'
    BY <1>13, <1>c, RowsTyped, CommitTyped DEF Publish, Commits
  <2> QED
    BY <1>13, <1>r, <1>t, <2>1 DEF Publish, Commits, StillThere
<1>14. ASSUME NEW c \in Clients, Discard(c) PROVE TypeOK'
  <2>1. Stored'
    BY <1>14, DeleteTyped DEF Discard
  <2> QED
    BY <1>14, <1>t, <2>1 DEF Discard, Nothing
<1>15. CASE UNCHANGED vars
  BY <1>15, <1>t DEF vars, history, Stored, Complete, Present
<1> QED
  BY <1>1, <1>2, <1>3, <1>4, <1>5, <1>6, <1>7, <1>8, <1>9, <1>10, <1>11, <1>12, <1>13, <1>14, <1>15 DEF Next, Merge, Person

(* The row, the sessions and the history stay within their types, and a row  *)
(* that is there has a value in each field, whatever sessions overlap.      *)
THEOREM TypeCorrect == Spec => []TypeOK
<1>1. Init => TypeOK
  <2> SUFFICES ASSUME Init PROVE TypeOK
    OBVIOUS
  <2>1. NoRow(0) \in Rows /\ Complete(NoRow(0))
    BY MergeAssumption, NoRowTyped
  <2> QED
    BY <2>1 DEF Init, TypeOK, Nothing, Optional
<1>2. TypeOK /\ [Next]_vars => TypeOK'
  BY TypeStep
<1> QED
  BY <1>1, <1>2, PTL DEF Spec

-----------------------------------------------------------------------------
(* When sessions follow one another, a commit writes what it computed. *)
LEMMA FreshCommit ==
    ASSUME TypeOK, Fresh, NEW c \in Clients, Loaded(c)
    PROVE  /\ Typed(row) /\ seen[c] = row
           /\ \A n : Typed(n) /\ n.id = row.id /\ Commits(c, n) => row' = n
<1>1. Typed(row) /\ seen[c] = row
  BY DEF TypeOK, Fresh, Loaded, Typed
<1>2. ASSUME NEW n, Typed(n), n.id = row.id, Commits(c, n)
      PROVE  row' = n
  BY <1>1, <1>2, FlushFresh DEF Commits, Typed
<1> QED
  BY <1>1, <1>2

(* A session that loads has loaded what is there; one that ends was the only *)
(* one.                                                                    *)
LEMMA FreshStep == OneSession /\ TypeOK /\ Fresh /\ [Next]_vars => Fresh'
<1> SUFFICES ASSUME OneSession, TypeOK, Fresh, [Next]_vars PROVE Fresh'
  OBVIOUS
<1>1. ASSUME NEW c \in Clients, Load(c) PROVE Fresh'
  BY <1>1 DEF Load, Fresh, OneSession, TypeOK
<1>2. ASSUME NEW c \in Clients, Closes(c) PROVE Fresh'
  BY <1>2 DEF Closes, Fresh, OneSession, TypeOK
<1>3. CASE UNCHANGED vars
  BY <1>3 DEF vars, Fresh
<1>4. ASSUME NEW c \in Clients, Merge(c) \/ Person(c) \/ Leaves(c) PROVE Closes(c)
  BY <1>4 DEF Merge, MergeUpdates, MergeAdds, MergeDeprecates, MergeDeletes, Person, Edit,
     KeepOurs, AcceptTheirs, Pin, Unpin, PrePublish, Publish, Discard, Leaves, Commits, Deletes
<1> QED
  BY <1>1, <1>2, <1>3, <1>4 DEF Next

(* Every step keeps the decisions of people in force. *)
LEMMA DecidedStep == TypeOK /\ Fresh /\ Decided /\ [Next]_vars => Decided'
<1> SUFFICES ASSUME TypeOK, Fresh, Decided, [Next]_vars PROVE Decided'
  OBVIOUS
<1> USE MergeAssumption DEF Decided, DecidedPinned, RejectedBase, PinnedTouched,
        ConflictGuarded, ConflictShowsRow, UntouchedFollows, UserChanged
<1>c. ASSUME NEW c \in Clients, Loaded(c)
      PROVE  Typed(row) /\ seen[c] = row
  BY <1>c, FreshCommit
<1>h. authority \in [Fields -> Optional] /\ rejected \in [Fields -> Optional]
  BY DEF TypeOK
<1>1. ASSUME NEW c \in Clients, Load(c) \/ Leaves(c) PROVE Decided'
  BY <1>1 DEF Load, Leaves, history, Present
<1>2. ASSUME NEW c \in Clients, NEW inc \in Incoming, MergeUpdates(c, inc) PROVE Decided'
  <2>1. Typed(row) /\ row' = MergedRow(row, inc)
    BY <1>2, <1>c, FreshCommit, RowsTyped DEF MergeUpdates, Commits
  <2>2. /\ row'.pinned = row.pinned
        /\ Present(row')
        /\ \A f \in Fields :
             /\ row'.cur[f] = IF UserChanged(row, f) THEN row.cur[f] ELSE inc[f]
             /\ row'.base[f] = inc[f]
             /\ row'.conflict[f] =
                  IF Clashes(row, inc, f) THEN [ours |-> row.cur[f], theirs |-> inc[f]]
                  ELSE IF f \in row.pinned THEN row.conflict[f] ELSE NoConflict
    BY <2>1 DEF MergedRow, MergedConflicts, Typed, Rows, Present
  <2>3. /\ authority' = authority /\ touched' = touched
        /\ \A f \in Fields :
             rejected'[f] = IF inc[f] = rejected[f] THEN rejected[f] ELSE None
    BY <1>2 DEF MergeUpdates
  <2>4. DecidedPinned'
    BY <2>2, <2>3 DEF UserChanged
  <2>5. ASSUME NEW f \in Fields, rejected'[f] # None
        PROVE  authority'[f] # None /\ row'.base[f] = rejected'[f] /\ row'.conflict[f] = NoConflict
    <3>1. inc[f] = rejected[f] /\ rejected'[f] = rejected[f] /\ rejected[f] # None
      BY <2>3, <2>5
    <3>2. inc[f] = row.base[f] /\ row.conflict[f] = NoConflict
      BY <3>1
    <3>3. ~Clashes(row, inc, f)
      BY <3>2 DEF Clashes
    <3> QED
      BY <2>2, <2>3, <3>1, <3>2, <3>3
  <2>6. ASSUME NEW f \in Fields, row'.conflict[f] # NoConflict
        PROVE  row'.conflict[f].ours = row'.cur[f] /\ row'.conflict[f].theirs # row'.cur[f]
    <3>1. CASE Clashes(row, inc, f)
      <4>1. row'.cur[f] = row.cur[f] /\ inc[f] # row.cur[f]
        BY <2>2, <3>1 DEF Clashes
      <4>2. row'.conflict[f] = [ours |-> row.cur[f], theirs |-> inc[f]]
        BY <2>2, <3>1
      <4> QED
        BY <4>1, <4>2
    <3>2. CASE ~Clashes(row, inc, f)
      <4>1. f \in row.pinned /\ row'.conflict[f] = row.conflict[f]
        BY <2>2, <2>6, <3>2
      <4>2. row'.cur[f] = row.cur[f]
        BY <2>2, <4>1 DEF UserChanged
      <4> QED
        BY <2>6, <4>1, <4>2
    <3> QED
      BY <3>1, <3>2
  <2>7. UntouchedFollows' /\ PinnedTouched'
    BY <2>1, <2>2, <2>3 DEF UserChanged, Typed
  <2>8. ASSUME NEW f \in Fields, row'.conflict[f] # NoConflict
        PROVE  Present(row') /\ (f \in row'.pinned \/ row'.cur[f] # row'.base[f])
    <3>1. CASE Clashes(row, inc, f)
      BY <2>2, <3>1 DEF Clashes
    <3>2. CASE ~Clashes(row, inc, f)
      BY <2>2, <2>8, <3>2
    <3> QED
      BY <3>1, <3>2
  <2>9. ConflictGuarded'
    BY <2>8 DEF Present
  <2> QED
    BY <2>4, <2>5, <2>6, <2>7, <2>9
<1>3. ASSUME NEW c \in Clients, NEW inc \in Incoming, MergeAdds(c, inc) PROVE Decided'
  <2>1. \A f \in Fields : authority[f] = None
    BY <1>3 DEF MergeAdds
  <2>2. row' = [NoRow(row.id + 1) EXCEPT !.status = "suggested", !.cur = inc, !.base = inc]
    BY <1>3 DEF MergeAdds
  <2>3. /\ row'.pinned = {} /\ row'.cur = inc /\ row'.base = inc
        /\ \A f \in Fields : row'.conflict[f] = NoConflict
    BY <2>2 DEF NoRow
  <2> QED
    BY <1>3, <2>1, <2>3 DEF MergeAdds, Nothing
<1>4. ASSUME NEW c \in Clients, NEW s \in Statuses \ {"absent"},
             Commits(c, RowInStatus(seen[c], s)), UNCHANGED history
      PROVE  Decided'
  <2>1. Typed(row) /\ row' = RowInStatus(row, s)
    BY <1>4, <1>c, FreshCommit, RowsTyped DEF Commits
  <2> QED
    BY <1>4, <2>1 DEF RowInStatus, Typed, Rows, Present, history
<1>5. ASSUME NEW c \in Clients, MergeDeprecates(c) \/ PrePublish(c) PROVE Decided'
  BY <1>4, <1>5 DEF MergeDeprecates, PrePublish, RowInStatus, Statuses
<1>6. ASSUME NEW c \in Clients, MergeDeletes(c) PROVE Decided'
  <2>1. row.pinned = {} /\ \A f \in Fields : authority[f] = None
    BY <1>6, <1>c DEF MergeDeletes, Deletes, HasEdits
  <2>2. row' = NoRow(row.id) /\ UNCHANGED history
    BY <1>6, <1>c DEF MergeDeletes, Deletes, StillThere, Typed
  <2> QED
    BY <2>1, <2>2 DEF NoRow, Present, history
<1>7. ASSUME NEW c \in Clients, NEW fs \in SUBSET Fields, NEW new \in Incoming, Edit(c, fs, new)
      PROVE  Decided'
  <2>1. Typed(row) /\ row' = EditedRow(row, fs, new)
    <3>1. Loaded(c) /\ Commits(c, EditedRow(seen[c], fs, new))
      BY <1>7 DEF Edit, EditedRow, Commits
    <3> QED
      BY <3>1, <1>c, FreshCommit, RowsTyped
  <2>2. /\ row'.pinned = row.pinned \union fs
        /\ Present(row')
        /\ row'.base = row.base
        /\ \A f \in Fields :
             /\ row'.cur[f] = IF f \in fs THEN new[f] ELSE row.cur[f]
             /\ row'.conflict[f] = IF f \in fs THEN NoConflict ELSE row.conflict[f]
    BY <2>1 DEF EditedRow, Marked, EditedStatus, Typed, Rows, Present
  <2>3. /\ touched' = touched \union fs
        /\ \A f \in Fields :
             /\ authority'[f] = IF f \in fs THEN new[f] ELSE authority[f]
             /\ rejected'[f] = IF f \in fs THEN row.base[f] ELSE rejected[f]
    BY <1>7 DEF Edit
  <2>4. \A f \in Fields : new[f] # None
    BY DEF Incoming
  <2> QED
    BY <2>1, <2>2, <2>3, <2>4 DEF Typed
<1>8. ASSUME NEW c \in Clients, NEW f \in Fields, KeepOurs(c, f) PROVE Decided'
  <2>1. Typed(row) /\ row' = KeptRow(row, f)
    <3>1. Loaded(c) /\ Commits(c, KeptRow(seen[c], f))
      BY <1>8 DEF KeepOurs, KeptRow, Commits
    <3>2. Typed(row) /\ seen[c] = row
      BY <3>1, <1>c
    <3>3. Typed(KeptRow(row, f)) /\ KeptRow(row, f).id = row.id
      BY <3>2, RowsTyped
    <3> QED
      BY <3>1, <3>2, <3>3, FreshCommit
  <2>2. row.cur[f] # None
    BY <2>1 DEF Typed, Complete, Incoming
  <2> QED
    BY <1>8, <1>h, <2>1, <2>2 DEF KeepOurs, KeptRow, Typed, Rows, Present
<1>9. ASSUME NEW c \in Clients, NEW f \in Fields, AcceptTheirs(c, f) PROVE Decided'
  <2>1. Typed(row) /\ row' = AcceptedRow(row, f)
    <3>1. Loaded(c) /\ Commits(c, AcceptedRow(seen[c], f)) /\ seen[c].conflict[f] # NoConflict
      BY <1>9 DEF AcceptTheirs, AcceptedRow, Commits
    <3>2. Typed(row) /\ seen[c] = row
      BY <3>1, <1>c
    <3>3. Typed(AcceptedRow(row, f)) /\ AcceptedRow(row, f).id = row.id
      BY <3>1, <3>2, RowsTyped
    <3> QED
      BY <3>1, <3>2, <3>3, FreshCommit
  <2> QED
    BY <1>9, <1>h, <2>1 DEF AcceptTheirs, AcceptedRow, Releases, Typed, Rows, Present
<1>10. ASSUME NEW c \in Clients, NEW f \in Fields, Pin(c, f) PROVE Decided'
  <2>1. Typed(row) /\ row' = PinnedRow(row, f)
    <3>1. Loaded(c) /\ Commits(c, PinnedRow(seen[c], f))
      BY <1>10 DEF Pin, PinnedRow, Commits
    <3>2. Typed(row) /\ seen[c] = row
      BY <3>1, <1>c
    <3>3. Typed(PinnedRow(row, f)) /\ PinnedRow(row, f).id = row.id
      BY <3>2, RowsTyped
    <3> QED
      BY <3>1, <3>2, <3>3, FreshCommit
  <2>2. row.cur[f] # None
    BY <2>1 DEF Typed, Complete, Incoming
  <2> QED
    BY <1>10, <1>h, <2>1, <2>2 DEF Pin, PinnedRow, Typed, Rows, Present
<1>11. ASSUME NEW c \in Clients, NEW f \in Fields, Unpin(c, f) PROVE Decided'
  <2>1. Typed(row) /\ row' = UnpinnedRow(row, f)
    <3>1. Loaded(c) /\ Commits(c, UnpinnedRow(seen[c], f))
      BY <1>11 DEF Unpin, UnpinnedRow, Commits
    <3>2. Typed(row) /\ seen[c] = row
      BY <3>1, <1>c
    <3>3. Typed(UnpinnedRow(row, f)) /\ UnpinnedRow(row, f).id = row.id
      BY <3>2, RowsTyped
    <3> QED
      BY <3>1, <3>2, <3>3, FreshCommit
  <2> QED
    BY <1>11, <1>h, <2>1 DEF Unpin, UnpinnedRow, Releases, Typed, Rows, Present
<1>12. ASSUME NEW c \in Clients, Publish(c) PROVE Decided'
  <2>1. Typed(row) /\ row' = PublishedRow(row)
    BY <1>12, <1>c, FreshCommit, RowsTyped DEF Publish, Commits
  <2> QED
    BY <1>12, <1>h, <2>1 DEF Publish, PublishedRow, Typed, Rows, Present
<1>13. ASSUME NEW c \in Clients, Discard(c) PROVE Decided'
  <2>1. row' = NoRow(row.id)
    BY <1>13, <1>c DEF Discard, Deletes, StillThere, Typed, Loaded
  <2> QED
    BY <1>13, <2>1 DEF Discard, NoRow, Present, Nothing
<1>14. CASE UNCHANGED vars
  BY <1>14 DEF vars, history, Present
<1> QED
  BY <1>1, <1>2, <1>3, <1>5, <1>6, <1>7, <1>8, <1>9, <1>10, <1>11, <1>12, <1>13, <1>14 DEF Next, Merge, Person

IInv == TypeOK /\ Fresh /\ Decided

(* With sessions that follow one another, every reachable state of the row   *)
(* has the decisions of people in force: the inductive invariant.          *)
THEOREM InvHolds == OneSession => (Spec => []IInv)
<1> SUFFICES ASSUME OneSession PROVE Spec => []IInv
  OBVIOUS
<1>1. Init => Fresh /\ Decided
  BY DEF Init, Fresh, Decided, DecidedPinned, RejectedBase, PinnedTouched, ConflictGuarded,
     ConflictShowsRow, UntouchedFollows, NoRow, Nothing, Present
<1>2. IInv /\ [Next]_vars => Fresh' /\ Decided'
  BY FreshStep, DecidedStep DEF IInv
<1>3. Init /\ TypeOK => IInv
  BY <1>1 DEF IInv
<1>4. IInv /\ [Next]_vars /\ TypeOK' => IInv'
  BY <1>2 DEF IInv
<1> QED
  BY <1>3, <1>4, TypeCorrect, PTL DEF Spec

(* No generation undoes what people typed, kept, pinned or published, as     *)
(* long as sessions do not overlap.                                        *)
THEOREM DecisionsStand == OneSession => (Spec => []HumanKept)
<1>1. IInv => HumanKept
  BY DEF IInv, Decided, DecidedPinned, HumanKept
<1> QED
  BY <1>1, InvHolds, PTL

(* What people decided against is not raised again before the machine says   *)
(* something else: the baseline stays at the machine's last word.          *)
THEOREM ConflictsAskedOnce == OneSession => (Spec => []AskedOnce)
<1>1. IInv => AskedOnce
  BY DEF IInv, Decided, RejectedBase, AskedOnce
<1> QED
  BY <1>1, InvHolds, PTL

(* A conflict that is open shows the value of the row and another one. *)
THEOREM ConflictsAreShown == OneSession => (Spec => []ConflictShowsRow)
<1>1. IInv => ConflictShowsRow
  BY DEF IInv, Decided
<1> QED
  BY <1>1, InvHolds, PTL

(* What nobody decided on stays at the machine's last word, and so open to   *)
(* the next generation.                                                    *)
THEOREM MachineFieldsFollow == OneSession => (Spec => []UntouchedFollows)
<1>1. IInv => UntouchedFollows
  BY DEF IInv, Decided
<1> QED
  BY <1>1, InvHolds, PTL

(* The value of a field in conflict changes by a decision on that field, or  *)
(* with the object going away, and never by a generation.                  *)
THEOREM ConflictsAreDecided == OneSession => (Spec => ConflictDecided)
<1> SUFFICES ASSUME OneSession PROVE Spec => ConflictDecided
  OBVIOUS
<1> DEFINE Decision ==
      \A f \in Fields :
        row.conflict[f] # NoConflict /\ row'.cur[f] # row.cur[f] =>
            \/ ~Present(row')
            \/ authority'[f] = row'.cur[f]
            \/ row'.cur[f] = row.conflict[f].theirs /\ row'.conflict[f] = NoConflict
<1>1. ASSUME IInv, [Next]_vars PROVE Decision
  <2> USE <1>1 DEF IInv
  <2>c. ASSUME NEW c \in Clients, Loaded(c)
        PROVE  Typed(row) /\ seen[c] = row
    BY <2>c, FreshCommit
  <2>k. ASSUME row'.cur = row.cur PROVE Decision
    BY <2>k
  <2>1. ASSUME NEW c \in Clients, Load(c) \/ Leaves(c) PROVE Decision
    BY <2>1, <2>k DEF Load, Leaves
  <2>2. ASSUME NEW c \in Clients, NEW inc \in Incoming, MergeUpdates(c, inc) PROVE Decision
    <3>1. Typed(row) /\ row' = MergedRow(row, inc)
      BY <2>2, <2>c, FreshCommit, RowsTyped DEF MergeUpdates, Commits
    <3>2. \A f \in Fields : UserChanged(row, f) => row'.cur[f] = row.cur[f]
      BY <3>1 DEF MergedRow, Typed, Rows
    <3> QED
      BY <3>2 DEF Decided, ConflictGuarded
  <2>3. ASSUME NEW c \in Clients, NEW inc \in Incoming, MergeAdds(c, inc) PROVE Decision
    BY <2>3 DEF MergeAdds, Decided, ConflictGuarded
  <2>4. ASSUME NEW c \in Clients, NEW n, Typed(n), n.id = row.id, n.cur = row.cur, Commits(c, n)
        PROVE  Decision
    BY <2>4, <2>c, <2>k, FreshCommit DEF Commits
  <2>5. ASSUME NEW c \in Clients, NEW s \in Statuses \ {"absent"},
               Commits(c, RowInStatus(seen[c], s))
        PROVE  Decision
    <3>1. Typed(row) /\ Commits(c, RowInStatus(row, s))
      BY <2>5, <2>c DEF Commits
    <3>2. RowInStatus(row, s).cur = row.cur
      BY <3>1 DEF RowInStatus, Typed, Rows
    <3> QED
      BY <2>4, <3>1, <3>2, RowsTyped
  <2>6. ASSUME NEW c \in Clients, MergeDeprecates(c) \/ PrePublish(c) PROVE Decision
    BY <2>5, <2>6 DEF MergeDeprecates, PrePublish, RowInStatus, Statuses
  <2>7. ASSUME NEW c \in Clients, Deletes(c) PROVE Decision
    <3>1. row' = NoRow(row.id)
      BY <2>7, <2>c DEF Deletes, StillThere, Typed
    <3> QED
      BY <3>1 DEF NoRow, Present
  <2>8. ASSUME NEW c \in Clients, NEW fs \in SUBSET Fields, NEW new \in Incoming, Edit(c, fs, new)
        PROVE  Decision
    <3>1. Loaded(c) /\ Commits(c, EditedRow(seen[c], fs, new))
      BY <2>8 DEF Edit, EditedRow, Commits
    <3>2. Typed(row) /\ row' = EditedRow(row, fs, new)
      BY <3>1, <2>c, FreshCommit, RowsTyped
    <3>3. \A f \in Fields : row'.cur[f] = IF f \in fs THEN new[f] ELSE row.cur[f]
      BY <3>2 DEF EditedRow, Marked, Typed, Rows
    <3>4. \A f \in Fields : f \in fs => authority'[f] = new[f]
      BY <2>8 DEF Edit
    <3> QED
      BY <3>3, <3>4
  <2>9. ASSUME NEW c \in Clients, NEW f \in Fields, KeepOurs(c, f) PROVE Decision
    <3>1. Loaded(c) /\ Commits(c, KeptRow(seen[c], f))
      BY <2>9 DEF KeepOurs, KeptRow, Commits
    <3>2. Typed(row) /\ Commits(c, KeptRow(row, f))
      BY <3>1, <2>c
    <3>3. KeptRow(row, f).cur = row.cur
      BY <3>2 DEF KeptRow, Typed, Rows
    <3> QED
      BY <2>4, <3>2, <3>3, RowsTyped
  <2>10. ASSUME NEW c \in Clients, NEW f \in Fields, AcceptTheirs(c, f) PROVE Decision
    <3>1. Loaded(c) /\ Commits(c, AcceptedRow(seen[c], f)) /\ seen[c].conflict[f] # NoConflict
      BY <2>10 DEF AcceptTheirs, AcceptedRow, Commits
    <3>2. Typed(row) /\ seen[c] = row
      BY <3>1, <2>c
    <3>3. Typed(AcceptedRow(row, f)) /\ AcceptedRow(row, f).id = row.id
      BY <3>1, <3>2, RowsTyped
    <3>4. row' = AcceptedRow(row, f)
      BY <3>1, <3>2, <3>3, FreshCommit
    <3>5. /\ row'.cur[f] = row.conflict[f].theirs /\ row'.conflict[f] = NoConflict
          /\ \A g \in Fields \ {f} : row'.cur[g] = row.cur[g]
      BY <3>2, <3>4 DEF AcceptedRow, Typed, Rows
    <3> QED
      BY <3>5
  <2>11. ASSUME NEW c \in Clients, NEW f \in Fields, Pin(c, f) PROVE Decision
    <3>1. Loaded(c) /\ Commits(c, PinnedRow(seen[c], f))
      BY <2>11 DEF Pin, PinnedRow, Commits
    <3>2. Typed(row) /\ Commits(c, PinnedRow(row, f))
      BY <3>1, <2>c
    <3>3. PinnedRow(row, f).cur = row.cur
      BY <3>2 DEF PinnedRow, Typed, Rows
    <3> QED
      BY <2>4, <3>2, <3>3, RowsTyped
  <2>12. ASSUME NEW c \in Clients, NEW f \in Fields, Unpin(c, f) PROVE Decision
    <3>1. Loaded(c) /\ Commits(c, UnpinnedRow(seen[c], f))
      BY <2>12 DEF Unpin, UnpinnedRow, Commits
    <3>2. Typed(row) /\ Commits(c, UnpinnedRow(row, f))
      BY <3>1, <2>c
    <3>3. UnpinnedRow(row, f).cur = row.cur
      BY <3>2 DEF UnpinnedRow, Typed, Rows
    <3> QED
      BY <2>4, <3>2, <3>3, RowsTyped
  <2>13. ASSUME NEW c \in Clients, Publish(c) PROVE Decision
    <3>1. Typed(row) /\ Commits(c, PublishedRow(row))
      BY <2>13, <2>c DEF Publish, Commits
    <3>2. PublishedRow(row).cur = row.cur
      BY <3>1 DEF PublishedRow, Typed, Rows
    <3> QED
      BY <2>4, <3>1, <3>2, RowsTyped
  <2>14. CASE UNCHANGED vars
    BY <2>14, <2>k DEF vars
  <2> HIDE DEF Decision
  <2> QED
    BY <1>1, <2>1, <2>2, <2>3, <2>6, <2>7, <2>8, <2>9, <2>10, <2>11, <2>12, <2>13, <2>14
       DEF Next, Merge, Person, MergeDeletes, Discard
<1>2. Spec => [][Decision]_vars
  <2>1. IInv /\ [Next]_vars => [Decision]_vars
    BY <1>1
  <2> HIDE DEF Decision
  <2> QED
    BY <2>1, InvHolds, PTL DEF Spec
<1> QED
  BY <1>2 DEF ConflictDecided


-----------------------------------------------------------------------------
(* The refinement. *)

Free == {f \in Fields : ~UserChanged(row, f)}
Proposal == [f \in Fields |-> row.conflict[f].theirs]

(* A proposal of the abstract specification is a conflict of the row. *)
LEMMA ConflictProposes ==
    ASSUME NEW r, Typed(r), NEW f \in Fields
    PROVE  /\ r.conflict[f] # NoConflict <=> r.conflict[f].theirs # None
           /\ r.conflict[f].theirs \in Values \union {None}
  BY MergeAssumption DEF Typed, Rows, Conflicts, NoConflict

(* A field without its conflict is one without its proposal. *)
LEMMA ProposalCleared ==
    ASSUME Typed(row), NEW f \in Fields,
           \A g \in Fields : row'.conflict[g] = IF g = f THEN NoConflict ELSE row.conflict[g]
    PROVE  Proposal' = [Proposal EXCEPT ![f] = None]
<1>1. \A g \in Fields :
        row'.conflict[g].theirs = IF g = f THEN None ELSE row.conflict[g].theirs
  <2>1. NoConflict.theirs = None
    BY DEF NoConflict
  <2> TAKE g \in Fields
  <2>2. CASE g = f
    BY <2>1, <2>2
  <2>3. CASE g # f
    BY <2>3
  <2> QED
    BY <2>2, <2>3
<1>2. Proposal' = [g \in Fields |-> IF g = f THEN None ELSE row.conflict[g].theirs]
  BY <1>1 DEF Proposal
<1> QED
  BY <1>2 DEF Proposal

(* A merge writes what is free, and proposes something for the rest. *)
LEMMA MergeGenerates ==
    ASSUME Typed(row), ConflictGuarded, ConflictShowsRow, ConflictGuarded', ConflictShowsRow',
           NEW inc \in Incoming, row' = MergedRow(row, inc), Typed(row)'
    PROVE  Authority!Generate(inc)
<1> USE DEF UserChanged
<1>1. /\ row'.pinned = row.pinned /\ row'.cur \in Incoming /\ Present(row')
      /\ \A f \in Fields :
           /\ row'.cur[f] = IF UserChanged(row, f) THEN row.cur[f] ELSE inc[f]
           /\ row'.base[f] = inc[f]
           /\ row'.conflict[f] =
                IF Clashes(row, inc, f) THEN [ours |-> row.cur[f], theirs |-> inc[f]]
                ELSE IF f \in row.pinned THEN row.conflict[f] ELSE NoConflict
  BY DEF MergedRow, MergedConflicts, Typed, Rows, Present, Complete
<1>2. row'.cur = [f \in Fields |-> IF f \in Free THEN inc[f] ELSE row.cur[f]]
  BY <1>1 DEF Free, Incoming
<1>3. Free \subseteq Free' /\ Free' \subseteq Free \union {f \in Fields : inc[f] = row.cur[f]}
  BY <1>1 DEF Free
<1>4. ASSUME NEW f \in Fields, row'.conflict[f].theirs # None
      PROVE  /\ f \notin Free'
             /\ row'.conflict[f].theirs \in {row.conflict[f].theirs, inc[f]} \ {row'.cur[f]}
  <2>1. row'.conflict[f] # NoConflict
    BY <1>4 DEF NoConflict
  <2>2. row'.conflict[f].theirs # row'.cur[f] /\ f \notin Free'
    BY <2>1 DEF ConflictGuarded, ConflictShowsRow, Free
  <2>3. row'.conflict[f].theirs \in {row.conflict[f].theirs, inc[f]}
    <3>1. CASE Clashes(row, inc, f)
      <4>1. row'.conflict[f] = [ours |-> row.cur[f], theirs |-> inc[f]]
        BY <1>1, <3>1
      <4> QED
        BY <4>1
    <3>2. CASE ~Clashes(row, inc, f)
      <4>1. row'.conflict[f] = row.conflict[f]
        BY <1>1, <2>1, <3>2
      <4> QED
        BY <4>1
    <3> QED
      BY <3>1, <3>2
  <2> QED
    BY <2>2, <2>3
<1>5. Proposal' \in [Fields -> Values \union {None}]
  <2>1. \A f \in Fields : row'.conflict[f].theirs \in Values \union {None}
    BY MergeAssumption DEF Typed, Rows, Conflicts, NoConflict
  <2> QED
    BY <2>1 DEF Proposal
<1>6. \A f \in Fields : Proposal[f] = row.conflict[f].theirs /\ Proposal'[f] = row'.conflict[f].theirs
  BY DEF Proposal
<1>7. Present(row)
  BY DEF Typed
<1> QED
  BY <1>1, <1>2, <1>3, <1>4, <1>5, <1>6, <1>7 DEF Authority!Generate, Free, Proposal

(* What people do to a row is what they do to its fields. *)
LEMMA EditDecides ==
    ASSUME Typed(row), NEW fs \in SUBSET Fields, NEW new \in Incoming,
           row' = EditedRow(row, fs, new)
    PROVE  Authority!Decide(fs, new)
<1>1. /\ row'.pinned = row.pinned \union fs /\ row'.base = row.base /\ Present(row')
      /\ row'.cur = [f \in Fields |-> IF f \in fs THEN new[f] ELSE row.cur[f]]
      /\ \A f \in Fields : row'.conflict[f] = IF f \in fs THEN NoConflict ELSE row.conflict[f]
  BY DEF EditedRow, Marked, EditedStatus, Typed, Rows, Present
<1>2. Free' = Free \ fs
  BY <1>1 DEF Free, UserChanged
<1>3. Proposal' = [f \in Fields |-> IF f \in fs THEN None ELSE Proposal[f]]
  BY <1>1 DEF Proposal, NoConflict
<1> QED
  BY <1>1, <1>2, <1>3 DEF Authority!Decide, Typed, Free, Proposal

LEMMA PinsHold ==
    ASSUME Typed(row), NEW fs \in SUBSET Fields, Present(row'),
           row'.pinned = row.pinned \union fs, row'.base = row.base, row'.cur = row.cur,
           row'.conflict = row.conflict
    PROVE  Authority!Hold(fs)
<1>1. Free' = Free \ fs
  BY DEF Free, UserChanged
<1>2. Proposal' = Proposal
  BY DEF Proposal
<1> QED
  BY <1>1, <1>2 DEF Authority!Hold, Typed, Free, Proposal

LEMMA KeptKeeps ==
    ASSUME Typed(row), NEW f \in Fields, row.conflict[f] # NoConflict, row' = KeptRow(row, f)
    PROVE  Authority!Keep(f)
<1>1. /\ row'.pinned = row.pinned \union {f} /\ row'.base = row.base /\ Present(row')
      /\ row'.cur = row.cur
      /\ \A g \in Fields : row'.conflict[g] = IF g = f THEN NoConflict ELSE row.conflict[g]
  BY DEF KeptRow, Typed, Rows, Present
<1>2. Free' = Free \ {f}
  BY <1>1 DEF Free, UserChanged
<1>3. Proposal' = [Proposal EXCEPT ![f] = None] /\ Proposal[f] # None
  <2>1. row.conflict[f].theirs # None
    BY ConflictProposes
  <2> QED
    BY <1>1, <2>1, ProposalCleared DEF Proposal
<1> QED
  BY <1>1, <1>2, <1>3 DEF Authority!Keep, Typed, Free, Proposal

LEMMA AcceptedAccepts ==
    ASSUME Typed(row), NEW f \in Fields, row.conflict[f] # NoConflict, row' = AcceptedRow(row, f),
           ConflictGuarded
    PROVE  Authority!Accept(f)
<1>1. /\ row'.pinned = row.pinned \ {f} /\ row'.base = row.base /\ Present(row')
      /\ row'.cur = [row.cur EXCEPT ![f] = row.conflict[f].theirs]
      /\ \A g \in Fields : row'.conflict[g] = IF g = f THEN NoConflict ELSE row.conflict[g]
  BY DEF AcceptedRow, Typed, Rows, Present
<1>2. \A g \in Fields \ {f} : UserChanged(row', g) <=> UserChanged(row, g)
  BY <1>1 DEF UserChanged, Typed, Rows
<1>3. Free' \in {Free, Free \union {f}}
  BY <1>2 DEF Free, ConflictGuarded
<1>4. Proposal' = [Proposal EXCEPT ![f] = None] /\ Proposal[f] # None
  <2>1. row.conflict[f].theirs # None
    BY ConflictProposes
  <2> QED
    BY <1>1, <2>1, ProposalCleared DEF Proposal
<1>5. row'.cur = [row.cur EXCEPT ![f] = Proposal[f]]
  BY <1>1 DEF Proposal
<1> QED
  BY <1>1, <1>3, <1>4, <1>5 DEF Authority!Accept, Typed, Free, Proposal

LEMMA UnpinnedReleases ==
    ASSUME Typed(row), NEW f \in Fields, row' = UnpinnedRow(row, f)
    PROVE  Authority!Release(f)
<1>1. /\ row'.pinned = row.pinned \ {f} /\ row'.base = row.base /\ Present(row')
      /\ row'.cur = row.cur
      /\ \A g \in Fields : row'.conflict[g] = IF g = f THEN NoConflict ELSE row.conflict[g]
  BY DEF UnpinnedRow, Typed, Rows, Present
<1>2. \A g \in Fields \ {f} : UserChanged(row', g) <=> UserChanged(row, g)
  BY <1>1 DEF UserChanged
<1>3. UserChanged(row', f) => UserChanged(row, f)
  BY <1>1 DEF UserChanged
<1>4. Free' \in {Free, Free \union {f}}
  BY <1>2, <1>3 DEF Free
<1>5. Proposal' = [Proposal EXCEPT ![f] = None]
  BY <1>1, ProposalCleared
<1> QED
  BY <1>1, <1>4, <1>5 DEF Authority!Release, Typed, Free, Proposal

LEMMA GoneVanishes ==
    ASSUME Present(row), NEW id, row' = NoRow(id)
    PROVE  Authority!Vanish
<1>1. /\ ~Present(row') /\ row'.cur = Nothing /\ row'.base = Nothing /\ row'.pinned = {}
      /\ \A f \in Fields : row'.conflict[f] = NoConflict
  BY DEF NoRow, Present, Nothing
<1>2. Free' = Fields
  BY <1>1 DEF Free, UserChanged
<1>3. Proposal' = Nothing
  BY <1>1 DEF Proposal, NoConflict, Nothing
<1> QED
  BY <1>1, <1>2, <1>3 DEF Authority!Vanish, Authority!Nothing, Nothing, Free, Proposal

LEMMA NewAppears ==
    ASSUME row = NoRow(row.id), NEW inc \in Incoming,
           row' = [NoRow(row.id + 1) EXCEPT !.status = "suggested", !.cur = inc, !.base = inc]
    PROVE  Authority!Appear
<1>1. /\ ~Present(row) /\ row.cur = row.base /\ row.pinned = {}
      /\ row.conflict = [f \in Fields |-> NoConflict]
  BY DEF NoRow, Present
<1>2. /\ Present(row') /\ row'.cur = inc /\ row'.base = inc /\ row'.pinned = {}
      /\ row'.conflict = [f \in Fields |-> NoConflict]
  BY DEF NoRow, Present
<1>3. Free = Fields /\ Free' = Fields
  BY <1>1, <1>2 DEF Free, UserChanged
<1>4. Proposal' = Proposal
  BY <1>1, <1>2 DEF Proposal
<1> QED
  BY <1>1, <1>2, <1>3, <1>4 DEF Authority!Appear, Incoming, Free, Proposal

(* A step that leaves the fields, their pins and conflicts alone is none of  *)
(* the abstract specification.                                             *)
LEMMA SameStutters ==
    ASSUME row'.cur = row.cur, row'.base = row.base, row'.pinned = row.pinned,
           row'.conflict = row.conflict, Present(row') = Present(row)
    PROVE  UNCHANGED Authority!vars
<1>1. Free' = Free /\ Proposal' = Proposal
  BY DEF Free, Proposal, UserChanged
<1> QED
  BY <1>1 DEF Authority!vars, Free, Proposal

(* The row of an object that is not there says nothing of it. *)
Blank == ~Present(row) => row = NoRow(row.id)

LEMMA BlankHolds == Spec => []Blank
<1>1. Init => Blank
  BY DEF Init, Blank, NoRow
<1>2. ASSUME TypeOK, Blank, [Next]_vars PROVE Blank'
  <2> USE <1>2
  <2>1. ASSUME NEW c \in Clients, NEW n, Present(n), Commits(c, n) PROVE Blank'
    BY <2>1 DEF Commits, FlushedRow, Flushed, StillThere, Present, Blank
  <2>2. ASSUME NEW c \in Clients, NEW n, Commits(c, n) PROVE Typed(seen[c])
    BY <2>2 DEF Commits, Loaded, Typed, TypeOK
  <2>3. ASSUME NEW c \in Clients, NEW inc \in Incoming, MergeUpdates(c, inc) PROVE Blank'
    BY <2>1, <2>2, <2>3, RowsTyped DEF MergeUpdates, Typed
  <2>4. ASSUME NEW c \in Clients, NEW inc \in Incoming, MergeAdds(c, inc) PROVE Blank'
    BY <2>4 DEF MergeAdds, Blank, Present, NoRow
  <2>5. ASSUME NEW c \in Clients, NEW s \in Statuses \ {"absent"},
               Commits(c, RowInStatus(seen[c], s))
        PROVE  Blank'
    BY <2>1, <2>2, <2>5, RowsTyped DEF Typed
  <2>6. ASSUME NEW c \in Clients, MergeDeprecates(c) \/ PrePublish(c) PROVE Blank'
    BY <2>5, <2>6 DEF MergeDeprecates, PrePublish, RowInStatus, Statuses
  <2>7. ASSUME NEW c \in Clients, Deletes(c) PROVE Blank'
    BY <2>7 DEF Deletes, Blank, NoRow
  <2>8. ASSUME NEW c \in Clients, NEW fs \in SUBSET Fields, NEW new \in Incoming, Edit(c, fs, new)
        PROVE  Blank'
    <3>1. Commits(c, EditedRow(seen[c], fs, new))
      BY <2>8 DEF Edit, EditedRow
    <3> QED
      BY <2>1, <2>2, <3>1, RowsTyped DEF Typed
  <2>9. ASSUME NEW c \in Clients, NEW f \in Fields,
               KeepOurs(c, f) \/ AcceptTheirs(c, f) \/ Pin(c, f) \/ Unpin(c, f)
        PROVE  Blank'
    <3>1. \/ Commits(c, KeptRow(seen[c], f)) \/ Commits(c, PinnedRow(seen[c], f))
          \/ Commits(c, UnpinnedRow(seen[c], f))
          \/ seen[c].conflict[f] # NoConflict /\ Commits(c, AcceptedRow(seen[c], f))
      BY <2>9 DEF KeepOurs, KeptRow, AcceptTheirs, AcceptedRow, Pin, PinnedRow, Unpin, UnpinnedRow
    <3> QED
      BY <2>1, <2>2, <3>1, RowsTyped DEF Typed
  <2>10. ASSUME NEW c \in Clients, Publish(c) PROVE Blank'
    BY <2>1, <2>2, <2>10, RowsTyped DEF Publish, Typed
  <2>11. CASE row' = row
    BY <2>11 DEF Blank
  <2> QED
    BY <2>3, <2>4, <2>6, <2>7, <2>8, <2>9, <2>10, <2>11
       DEF Next, Merge, Person, MergeDeletes, Discard, Load, Leaves, vars
<1> QED
  BY <1>1, <1>2, TypeCorrect, PTL DEF Spec

(* Every step of a session is one of the abstract specification or none.     *)
LEMMA StepKeepsAuthority ==
    ASSUME IInv, IInv', Blank, [Next]_vars
    PROVE  [Authority!Next]_(Authority!vars)
<1> DEFINE Steps == [Authority!Next]_(Authority!vars)
<1>i. TypeOK /\ Fresh /\ ConflictGuarded /\ ConflictShowsRow
      /\ ConflictGuarded' /\ ConflictShowsRow' /\ (row' \in Rows /\ Complete(row'))
  BY DEF IInv, Decided, TypeOK, Complete, Present
<1>c. ASSUME NEW c \in Clients, Loaded(c)
      PROVE  Typed(row) /\ seen[c] = row
  BY <1>c, <1>i, FreshCommit
<1>n. ASSUME NEW c \in Clients, NEW n, Typed(n), n.id = row.id, Commits(c, n)
      PROVE  row' = n
  BY <1>n, <1>i, FreshCommit DEF Commits
<1>s. ASSUME Authority!Next PROVE Steps
  BY <1>s
<1>u. ASSUME UNCHANGED Authority!vars PROVE Steps
  BY <1>u
<1> HIDE DEF Steps
<1>1. ASSUME row' = row PROVE Steps
  BY <1>1, <1>u, SameStutters
<1>2. ASSUME NEW c \in Clients, NEW inc \in Incoming, MergeUpdates(c, inc) PROVE Steps
  <2>1. Loaded(c) /\ Commits(c, MergedRow(seen[c], inc))
    BY <1>2 DEF MergeUpdates, Commits
  <2>2. Typed(row) /\ row' = MergedRow(row, inc)
    BY <2>1, <1>c, <1>n, RowsTyped
  <2>3. Typed(row')
    BY <2>2, RowsTyped
  <2>4. Typed(row)'
    BY <2>3 DEF Typed, Complete, Present
  <2>5. Authority!Generate(inc)
    BY <1>i, <2>2, <2>4, MergeGenerates
  <2> QED
    BY <1>s, <2>5 DEF Authority!Next, Incoming
<1>3. ASSUME NEW c \in Clients, NEW inc \in Incoming, MergeAdds(c, inc) PROVE Steps
  <2>1. Authority!Appear
    BY <1>3, NewAppears DEF MergeAdds, Blank
  <2> QED
    BY <1>s, <2>1 DEF Authority!Next
<1>4. ASSUME NEW c \in Clients, NEW s \in Statuses \ {"absent"},
             Commits(c, RowInStatus(seen[c], s))
      PROVE  Steps
  <2>1. Loaded(c)
    BY <1>4 DEF Commits
  <2>2. Typed(row) /\ row' = RowInStatus(row, s) /\ Typed(row')
    BY <1>4, <2>1, <1>c, <1>n, RowsTyped
  <2>3. /\ row'.cur = row.cur /\ row'.base = row.base /\ row'.pinned = row.pinned
        /\ row'.conflict = row.conflict /\ Present(row') = Present(row)
    BY <2>2 DEF RowInStatus, Typed, Rows, Present
  <2> QED
    BY <2>3, <1>u, SameStutters
<1>5. ASSUME NEW c \in Clients, MergeDeprecates(c) \/ PrePublish(c) PROVE Steps
  BY <1>4, <1>5 DEF MergeDeprecates, PrePublish, RowInStatus, Statuses
<1>6. ASSUME NEW c \in Clients, Deletes(c) PROVE Steps
  <2>1. Loaded(c)
    BY <1>6 DEF Deletes
  <2>2. Present(row) /\ row' = NoRow(row.id)
    BY <1>6, <2>1, <1>c DEF Deletes, StillThere, Typed
  <2>3. Authority!Vanish
    BY <2>2, GoneVanishes
  <2> QED
    BY <1>s, <2>3 DEF Authority!Next
<1>7. ASSUME NEW c \in Clients, NEW fs \in SUBSET Fields, NEW new \in Incoming, Edit(c, fs, new)
      PROVE  Steps
  <2>1. Loaded(c) /\ Commits(c, EditedRow(seen[c], fs, new))
    BY <1>7 DEF Edit, EditedRow, Commits
  <2>2. Typed(row) /\ row' = EditedRow(row, fs, new)
    BY <2>1, <1>c, <1>n, RowsTyped
  <2>3. Authority!Decide(fs, new)
    BY <2>2, EditDecides
  <2> QED
    BY <1>s, <2>3 DEF Authority!Next, Incoming
<1>8. ASSUME NEW c \in Clients, NEW f \in Fields, KeepOurs(c, f) PROVE Steps
  <2>1. Loaded(c) /\ Commits(c, KeptRow(seen[c], f)) /\ seen[c].conflict[f] # NoConflict
    BY <1>8 DEF KeepOurs, KeptRow, Commits
  <2>2. Typed(row) /\ seen[c] = row
    BY <2>1, <1>c
  <2>3. Typed(KeptRow(row, f)) /\ KeptRow(row, f).id = row.id
    BY <2>2, RowsTyped
  <2>4. row' = KeptRow(row, f) /\ row.conflict[f] # NoConflict
    BY <2>1, <2>2, <2>3, <1>n
  <2>5. Authority!Keep(f)
    BY <2>2, <2>4, KeptKeeps
  <2> QED
    BY <1>s, <2>5 DEF Authority!Next
<1>9. ASSUME NEW c \in Clients, NEW f \in Fields, AcceptTheirs(c, f) PROVE Steps
  <2>1. Loaded(c) /\ Commits(c, AcceptedRow(seen[c], f)) /\ seen[c].conflict[f] # NoConflict
    BY <1>9 DEF AcceptTheirs, AcceptedRow, Commits
  <2>2. Typed(row) /\ seen[c] = row
    BY <2>1, <1>c
  <2>3. Typed(AcceptedRow(row, f)) /\ AcceptedRow(row, f).id = row.id
    BY <2>1, <2>2, RowsTyped
  <2>4. row' = AcceptedRow(row, f) /\ row.conflict[f] # NoConflict
    BY <2>1, <2>2, <2>3, <1>n
  <2>5. Authority!Accept(f)
    BY <1>i, <2>2, <2>4, AcceptedAccepts
  <2> QED
    BY <1>s, <2>5 DEF Authority!Next
<1>10. ASSUME NEW c \in Clients, NEW f \in Fields, Pin(c, f) PROVE Steps
  <2>1. Loaded(c) /\ Commits(c, PinnedRow(seen[c], f))
    BY <1>10 DEF Pin, PinnedRow, Commits
  <2>2. Typed(row) /\ seen[c] = row
    BY <2>1, <1>c
  <2>3. Typed(PinnedRow(row, f)) /\ PinnedRow(row, f).id = row.id
    BY <2>2, RowsTyped
  <2>4. row' = PinnedRow(row, f) /\ Typed(row')
    BY <2>1, <2>2, <2>3, <1>n
  <2>5. Authority!Hold({f})
    BY <2>2, <2>4, PinsHold DEF PinnedRow, Typed, Rows
  <2> QED
    BY <1>s, <2>5 DEF Authority!Next
<1>11. ASSUME NEW c \in Clients, NEW f \in Fields, Unpin(c, f) PROVE Steps
  <2>1. Loaded(c) /\ Commits(c, UnpinnedRow(seen[c], f))
    BY <1>11 DEF Unpin, UnpinnedRow, Commits
  <2>2. Typed(row) /\ seen[c] = row
    BY <2>1, <1>c
  <2>3. Typed(UnpinnedRow(row, f)) /\ UnpinnedRow(row, f).id = row.id
    BY <2>2, RowsTyped
  <2>4. row' = UnpinnedRow(row, f)
    BY <2>1, <2>2, <2>3, <1>n
  <2>5. Authority!Release(f)
    BY <2>2, <2>4, UnpinnedReleases
  <2> QED
    BY <1>s, <2>5 DEF Authority!Next
<1>12. ASSUME NEW c \in Clients, Publish(c) PROVE Steps
  <2>1. Loaded(c) /\ Commits(c, PublishedRow(seen[c]))
    BY <1>12 DEF Publish, Commits
  <2>2. Typed(row) /\ row' = PublishedRow(row) /\ Typed(row')
    BY <2>1, <1>c, <1>n, RowsTyped
  <2>3. Authority!Hold(Structural)
    BY <2>2, MergeAssumption, PinsHold DEF PublishedRow, Typed, Rows
  <2> QED
    BY <1>s, <2>3, MergeAssumption DEF Authority!Next
<1>13. ASSUME NEW c \in Clients, Load(c) \/ Leaves(c) PROVE Steps
  <2>1. row' = row
    BY <1>13 DEF Load, Leaves
  <2> QED
    BY <1>1, <2>1
<1>14. ASSUME NEW c \in Clients, Merge(c) PROVE Steps
  BY <1>2, <1>3, <1>5, <1>6, <1>14 DEF Merge, MergeDeletes
<1>15. ASSUME NEW c \in Clients, Person(c) PROVE Steps
  BY <1>5, <1>6, <1>7, <1>8, <1>9, <1>10, <1>11, <1>12, <1>15 DEF Person, Discard
<1>16. ASSUME UNCHANGED vars PROVE Steps
  BY <1>1, <1>16 DEF vars
<1>17. ASSUME Next PROVE Steps
  BY <1>13, <1>14, <1>15, <1>17 DEF Next
<1>18. Steps
  BY <1>16, <1>17
<1> QED
  BY <1>18 DEF Steps

(* As long as sessions do not overlap, the row with its baseline, pins and   *)
(* conflicts implements the authority over fields: a generation writes those *)
(* that are the machine's and proposes values for the others, and people's   *)
(* operations change the fields they are about and no other.               *)
THEOREM KeepsAuthority == OneSession => (Spec => AuthorityKept)
<1> SUFFICES ASSUME OneSession PROVE Spec => AuthorityKept
  OBVIOUS
<1>1. Init => Authority!Init
  BY DEF Init, NoRow, Present, NoConflict, UserChanged, Authority!Init, Authority!Nothing
<1>2. IInv /\ IInv' /\ Blank /\ [Next]_vars => [Authority!Next]_(Authority!vars)
  BY StepKeepsAuthority
<1> QED
  BY <1>1, <1>2, InvHolds, BlankHolds, PTL DEF Spec, AuthorityKept, Authority!Spec

=============================================================================
