--------------------------- MODULE Screens_proofs ---------------------------
(***************************************************************************)
(* Proofs about the pages: for any set of pages the words of PageKit can   *)
(* describe, any rows, and any number of presses, loads and disturbances.  *)
(***************************************************************************)
EXTENDS Screens, TLAPS

AnswerType == [row : Rows \cup {0}, status : Statuses, rev : Nat]
PressType == [phase : Phases, op : page.ops \cup {NoOp}, call : Nat, row : Rows \cup {0},
              seen : Statuses, rev : Nat, answer : AnswerType]

\* A handler at work is at one of the calls of its control.  It has no row
\* only while its first call, which creates one, has not been answered.
Sound(q) ==
  q.phase \notin {"unused", "over"} =>
    /\ q.op \in page.ops
    /\ q.call \in DOMAIN q.op.calls
    /\ q.row = 0 => /\ q.op.kind = "create"
                    /\ q.op.calls[q.call].does.test = "insert"
                    /\ q.phase \in {"asked", "cleared", "failed"}

Working == \A i \in Presses : Sound(press[i])

Inv == TypeOK /\ Working

-----------------------------------------------------------------------------
\* What the description of a page is made of.
LEMMA PageFacts ==
  ASSUME TypeOK
  PROVE  /\ \A op \in page.ops : IsOp(op)
         /\ StatusesOf(page) \subseteq Statuses
BY PagesAssumption DEF TypeOK, IsPage, Statuses

\* What a call may write is a status of its page, and the flag that it raises
\* besides that of its control is a flag of the page.
LEMMA CallFacts ==
  ASSUME TypeOK, NEW op \in page.ops, NEW n \in DOMAIN op.calls
  PROVE  /\ op.calls[n].does.to \cup op.calls[n].does.others \subseteq Statuses
         /\ Inner(op, n) \subseteq Nested(page) /\ Nested(page) \subseteq Flags(page)
<1> DEFINE calls == UNION {ToSet(o.calls) : o \in page.ops}
           said(c) == c.does.from \cup c.does.to \cup c.does.others
           named == ((UNION {o.from : o \in page.ops}) \cup (UNION {said(c) : c \in calls}))
                      \ {"deleted"}
<1>1. op.calls[n] \in ToSet(op.calls) /\ op.calls[n] \in calls
  BY DEF ToSet
<1>2. said(op.calls[n]) \subseteq UNION {said(c) : c \in calls}
  BY <1>1
<1>3. op.calls[n].does.to \cup op.calls[n].does.others \subseteq named \cup {"deleted"}
  BY <1>2
<1>4. named \subseteq StatusesOf(page)
  BY DEF StatusesOf
<1>5. Inner(op, n) \subseteq Nested(page) /\ Nested(page) \subseteq Flags(page)
  BY <1>1 DEF Inner, Nested, Flags
<1> QED
  BY <1>3, <1>4, <1>5, PageFacts DEF Statuses

\* What a handler at work is doing.
LEMMA WorkFacts ==
  ASSUME Inv, NEW i \in Presses, Pending(i)
  PROVE  /\ press[i] \in PressType
         /\ Does(i).to \subseteq Statuses /\ Does(i).others \subseteq Statuses
         /\ press[i].op \in page.ops /\ press[i].call \in DOMAIN press[i].op.calls
         /\ Inner(press[i].op, press[i].call) \subseteq Nested(page)
BY CallFacts DEF Inv, TypeOK, Working, Sound, Pending, This, Does, PressType, AnswerType

\* One handler moves on; the others stay where they are.
LEMMA PressMoves ==
  ASSUME Inv, NEW i \in Presses, NEW q \in PressType, Sound(q),
         press' = [press EXCEPT ![i] = q], page' = page
  PROVE  (press \in [Presses -> PressType])' /\ Working'
BY DEF Inv, TypeOK, Working, Sound, PressType, AnswerType

\* The change of a row, and the answer that tells of it.
LEMMA WriteEffect ==
  ASSUME Inv, NEW i \in Presses, Pending(i), Write(i),
         Does(i).test # "insert" => press[i].row \in Rows, page' = page
  PROVE  /\ server' \in [Rows -> [status : Statuses, rev : Nat]]
         /\ (press \in [Presses -> PressType])' /\ Working'
         /\ Pending(i)' /\ press'[i].op = press[i].op /\ press'[i].call = press[i].call
         /\ \A j \in Presses : j # i => press'[j] = press[j]
<1>1. PICK r \in IF Does(i).test = "insert" THEN NewRows ELSE {press[i].row} :
        \E to \in IF Does(i).to = Same THEN {server[r].status} ELSE Does(i).to :
          LET rev == server[r].rev + IF Does(i).test = "read" THEN 0 ELSE 1 IN
          /\ server' = [server EXCEPT ![r] = Stored(to, rev)]
          /\ Answered(i, r, to, rev)
  BY DEF Write
<1>a. PICK to \in IF Does(i).to = Same THEN {server[r].status} ELSE Does(i).to :
        LET rev == server[r].rev + IF Does(i).test = "read" THEN 0 ELSE 1 IN
        /\ server' = [server EXCEPT ![r] = Stored(to, rev)]
        /\ Answered(i, r, to, rev)
  BY <1>1
<1> DEFINE rev == server[r].rev + IF Does(i).test = "read" THEN 0 ELSE 1
           own == press[i].rev + (rev - server[r].rev)
<1>2. r \in Rows
  BY <1>1 DEF NewRows, Spare
<1>3. server[r] \in [status : Statuses, rev : Nat]
  BY <1>2 DEF Inv, TypeOK
<1>4. to \in Statuses
  BY <1>a, <1>3, WorkFacts
<1>5. rev \in Nat /\ own \in Nat
  BY <1>3, WorkFacts DEF PressType
<1>6. server' \in [Rows -> [status : Statuses, rev : Nat]]
  BY <1>a, <1>4, <1>5 DEF Inv, TypeOK, Stored
<1>7. Answered(i, r, to, rev)
  BY <1>a
<1> DEFINE a == [row |-> r, status |-> to, rev |-> rev]
           row == IF press[i].op.kind = "create" THEN r ELSE press[i].row
           mine == IF Does(i).test # "insert" THEN own
                   ELSE IF press[i].op.kind = "create" THEN rev ELSE press[i].rev
<1>8. a \in AnswerType /\ mine \in Nat
  BY <1>2, <1>4, <1>5, WorkFacts DEF AnswerType, PressType
<1>9. row \in Rows
  BY <1>2, WorkFacts DEF Inv, Working, Sound, Pending, This, Does, PressType
<1> DEFINE q == [press[i] EXCEPT !.phase = "done", !.answer = a, !.row = row, !.rev = mine]
<1>10. press' = [press EXCEPT ![i] = q]
  BY <1>7, WorkFacts DEF Answered, Inv, TypeOK, PressType
<1>11. /\ q \in PressType
       /\ q.op = press[i].op /\ q.call = press[i].call /\ q.row \in Rows /\ q.phase = "done"
  <2> HIDE DEF a, row, mine
  <2> QED
    BY <1>8, <1>9, WorkFacts DEF PressType, Phases
<1> HIDE DEF q
<1>12. Sound(q)
  BY <1>11, RowsAssumption DEF Sound, Inv, Working, Pending
<1>13. press \in [Presses -> PressType]
  BY DEF Inv, TypeOK, PressType, AnswerType
<1>14. (press \in [Presses -> PressType])' /\ Working'
  BY <1>10, <1>11, <1>12, PressMoves
<1>15. press'[i] = q /\ \A j \in Presses : j # i => press'[j] = press[j]
  BY <1>10, <1>13
<1> QED
  BY <1>6, <1>11, <1>14, <1>15 DEF Pending

\* What the page shows after an answer.
LEMMA RenderType ==
  ASSUME NEW v \in ViewType, NEW a \in AnswerType, NEW show
  PROVE  Render(v, a, show) \in ViewType
<1>1. \A n \in Nat : Showing(n, a.status, a.rev) \in [n : Nat, status : Statuses, rev : Nat]
  BY DEF AnswerType, Showing
<1>2. Hidden \in [n : Nat, status : Statuses, rev : Nat]
  BY DEF Hidden, Showing, Statuses
<1>3. CASE a.row \in Rows
  <2>1. v[a.row].n \in Nat
    BY <1>3 DEF ViewType
  <2> QED
    BY <1>1, <1>2, <1>3, <2>1 DEF Render, ViewType
<1>4. CASE a.row \notin Rows
  BY <1>1, <1>2, <1>4 DEF Render, ViewType
<1> QED
  BY <1>3, <1>4

\* A request comes to its next stage.
LEMMA PressBecomes ==
  ASSUME Inv, NEW i \in Presses, Pending(i),
         NEW phase \in {"cleared", "checked", "failed", "reloading"},
         press[i].row = 0 => phase \in {"cleared", "failed"},
         Becomes(i, phase), page' = page
  PROVE  (press \in [Presses -> PressType])' /\ Working'
<1> DEFINE q == [press[i] EXCEPT !.phase = phase]
<1>1. q \in PressType /\ Sound(q)
  BY WorkFacts DEF PressType, Phases, Inv, Working, Sound, Pending
<1>2. press' = [press EXCEPT ![i] = q]
  BY WorkFacts DEF Becomes, Inv, TypeOK
<1> HIDE DEF q
<1> QED
  BY <1>1, <1>2, PressMoves

\* A handler ends.
LEMMA PressEnds ==
  ASSUME Inv, NEW i \in Presses, press' = [press EXCEPT ![i] = Over], page' = page
  PROVE  (press \in [Presses -> PressType])' /\ Working'
<1>1. Over \in PressType /\ Sound(Over)
  BY DEF Over, Unused, NoOp, PressType, AnswerType, Phases, Sound, Statuses
<1> QED
  BY <1>1, PressMoves

LEMMA LowerType ==
  ASSUME TypeOK, NEW op, NEW n, Lower(op, n), page' = page
  PROVE  (raised \subseteq Flags(page))' /\ (slot \in Rows \cup {0})'
BY DEF TypeOK, Lower, Flags

\* Loads bring rows as the server has them.
LEMMA LoadTypes ==
  ASSUME TypeOK
  PROVE  /\ \A k \in Loads, p \in {"asked", "ended"} :
              [load EXCEPT ![k] = Empty(p)]
                \in [Loads -> [phase : {"idle", "asked", "served", "ended"}, rows : ViewType]]
         /\ Snapshot \in ViewType
<1>1. Hidden \in [n : Nat, status : Statuses, rev : Nat]
  BY DEF Hidden, Showing, Statuses
<1>2. \A r \in Rows : Showing(1, server[r].status, server[r].rev)
                       \in [n : Nat, status : Statuses, rev : Nat]
  BY DEF Showing, TypeOK
<1> QED
  BY <1>1, <1>2 DEF TypeOK, Empty, Loaded, ViewType, Snapshot

-----------------------------------------------------------------------------
\* The types are kept, action by action.
LEMMA InvStep == Inv /\ [Next]_vars => Inv'
<1> SUFFICES ASSUME Inv, [Next]_vars PROVE Inv'
  OBVIOUS
<1> USE DEF flags, history, ServerOnly
<1> DEFINE Typed == press \in [Presses -> PressType]
<1>0. TypeOK /\ Typed /\ Presses \subseteq Loads /\ Opening \in Loads /\ Reparam \in Loads
  BY PressesAssumption DEF Inv, TypeOK, PressType, AnswerType, Presses, Loads, Opening, Reparam
<1>1. ASSUME NEW i \in Presses, NEW op \in page.ops, NEW r \in Rows \cup {0}, Press(i, op, r)
      PROVE  Inv'
  <2> DEFINE q == [Unused EXCEPT !.phase = "asked", !.op = op, !.row = r,
                      !.seen = IF r = 0 THEN @ ELSE view[r].status,
                      !.rev = IF r = 0 THEN @ ELSE view[r].rev]
  <2>1. IsOp(op) /\ Offered(op, r)
    BY <1>1, PageFacts DEF Inv, Press, Start
  <2>2. q \in PressType
    BY <1>0 DEF Unused, PressType, AnswerType, Phases, TypeOK, ViewType, Statuses
  <2>3. Sound(q)
    BY <2>1, RowsAssumption DEF Sound, Unused, IsOp, Offered
  <2>4. press' = [press EXCEPT ![i] = q] /\ page' = page
    BY <1>1 DEF Press, Start
  <2>5. Typed' /\ Working'
    <3> HIDE DEF q
    <3> QED
      BY <2>2, <2>3, <2>4, PressMoves
  <2>6. (raised \subseteq Flags(page))' /\ (slot \in Rows \cup {0})'
    <3>1. 1 \in DOMAIN op.calls
      BY <2>1 DEF IsOp
    <3>2. Inner(op, 1) \subseteq Flags(page)
      BY <1>0, <3>1, CallFacts
    <3> QED
      BY <1>0, <1>1, <3>2 DEF Press, Start, Raise, Flags, TypeOK
  <2> QED
    BY <1>0, <1>1, <2>5, <2>6 DEF Press, Start, Inv, TypeOK, PressType, AnswerType
<1>2. ASSUME NEW i \in Presses, Pending(i), Write(i), ServerOnly,
             Does(i).test # "insert" => press[i].row \in Rows
      PROVE  Inv'
  <2>1. Typed' /\ Working' /\ server' \in [Rows -> [status : Statuses, rev : Nat]]
    BY <1>2, WriteEffect
  <2> QED
    BY <1>0, <1>2, <2>1 DEF Inv, TypeOK, PressType, AnswerType, Flags
<1>3. ASSUME NEW i \in Presses, Serve(i) PROVE Inv'
  <2>1. Pending(i) /\ (Does(i).test # "insert" => press[i].row \in Rows)
    BY <1>0, <1>3 DEF Serve, Pending, Inv, Working, Sound, Does, This, PressType
  <2> QED
    BY <1>2, <1>3, <2>1 DEF Serve
<1>4. ASSUME NEW i \in Presses, Pending(i), UNCHANGED <<page, view, load, raised, slot, loading, known, left, history>>,
             server' \in [Rows -> [status : Statuses, rev : Nat]],
             \/ Becomes(i, "failed") \/ Becomes(i, "cleared")
             \/ Becomes(i, "checked") /\ press[i].row # 0
      PROVE  Inv'
  <2>1. Typed' /\ Working'
    BY <1>4, PressBecomes
  <2> QED
    BY <1>0, <1>4, <2>1 DEF Inv, TypeOK, PressType, AnswerType, Flags
<1>5. ASSUME NEW i \in Presses, ClearOthers(i) \/ Check(i) \/ ServeChecked(i) \/ Refuse(i)
      PROVE  Inv'
  <2>1. Pending(i)
    BY <1>5 DEF ClearOthers, Check, ServeChecked, Refuse, Pending
  <2>0. CASE ClearOthers(i)
    <3>1. server' \in [Rows -> [status : Statuses, rev : Nat]]
      BY <1>0, <2>0, <2>1, WorkFacts DEF ClearOthers, TypeOK, Stored
    <3> QED
      BY <1>0, <1>4, <2>0, <2>1, <3>1 DEF ClearOthers
  <2>2. CASE Check(i)
    BY <2>1, <2>2, <1>4, <1>0 DEF Check, Inv, TypeOK, Working, Sound, Pending, Does, This
  <2>3. CASE ServeChecked(i)
    <3>1. press[i].row \in Rows
      BY <2>1, <2>3, WorkFacts DEF ServeChecked, Inv, Working, Sound, PressType
    <3> QED
      BY <1>0, <1>2, <1>4, <2>1, <2>3, <3>1 DEF ServeChecked, TypeOK
  <2>4. CASE Refuse(i)
    BY <1>0, <1>4, <2>1, <2>4 DEF Refuse, TypeOK
  <2> QED
    BY <1>5, <2>0, <2>2, <2>3, <2>4
<1>6. ASSUME NEW i \in Presses, Lose(i) PROVE Inv'
  <2>1. Pending(i)
    BY <1>6 DEF Lose, Pending
  <2> QED
    BY <1>0, <1>4, <1>6, <2>1 DEF Lose, Disturb, TypeOK
<1>7. ASSUME NEW i \in Presses, Returned(i)
      PROVE  /\ Pending(i) /\ press[i].row # 0
             /\ view' \in ViewType /\ Told(i) \in [Rows -> Nat] /\ known' \in BOOLEAN
             /\ UNCHANGED <<page, server, hurried, trouble>>
  <2>1. Pending(i)
    BY <1>7 DEF Returned, Pending
  <2>2. press[i].answer \in AnswerType /\ Shown(i) \in AnswerType /\ press[i].row # 0
    BY <1>7, <2>1, WorkFacts DEF Returned, PressType, Inv, Working, Sound, Pending, Shown, AnswerType
  <2>3. view' \in ViewType
    BY <1>0, <1>7, <2>2, RenderType DEF Returned, TypeOK
  <2>4. Told(i) \in [Rows -> Nat]
    BY <1>0, <2>2 DEF Told, AnswerType, TypeOK
  <2> QED
    BY <1>0, <1>7, <2>1, <2>2, <2>3, <2>4 DEF Returned, TypeOK
<1>8. ASSUME NEW i \in Presses, GoOn(i) PROVE Inv'
  <2> DEFINE q == [press[i] EXCEPT !.phase = "asked", !.call = press[i].call + 1]
  <2>0. Returned(i) /\ More(i)
    BY <1>8 DEF GoOn
  <2>1. press[i] \in PressType /\ Pending(i) /\ press[i].row # 0 /\ press[i].op \in page.ops
    BY <2>0, <1>7, WorkFacts
  <2>2. q \in PressType
    <3>1. press[i].call + 1 \in Nat
      BY <2>1 DEF PressType
    <3> QED
      BY <2>1, <3>1 DEF PressType, Phases
  <2>3. q.call \in DOMAIN press[i].op.calls
    BY <2>0, <2>1, PageFacts DEF Inv, More, IsOp, PressType
  <2>4. Sound(q)
    BY <2>1, <2>3 DEF Sound, PressType
  <2>5. press' = [press EXCEPT ![i] = q]
    BY <1>8, <2>1, <1>0 DEF GoOn
  <2>6. Typed' /\ Working'
    <3> HIDE DEF q
    <3> QED
      BY <1>7, <2>0, <2>2, <2>4, <2>5, PressMoves
  <2>7. (raised \subseteq Flags(page))'
    <3>1. Inner(press[i].op, press[i].call + 1) \subseteq Flags(page)
      BY <1>0, <2>1, <2>3, CallFacts
    <3> QED
      BY <1>0, <1>7, <1>8, <2>0, <3>1 DEF GoOn, TypeOK, Flags
  <2> QED
    BY <1>0, <1>7, <1>8, <2>0, <2>6, <2>7 DEF GoOn, Inv, TypeOK, PressType, AnswerType
<1>9. ASSUME NEW i \in Presses, Reload(i) PROVE Inv'
  <2>1. Returned(i) /\ Becomes(i, "reloading") /\ LoadFor(i)
    BY <1>9 DEF Reload
  <2>2. Typed' /\ Working'
    BY <1>7, <2>1, PressBecomes
  <2>3. (load \in [Loads -> [phase : {"idle", "asked", "served", "ended"}, rows : ViewType]])'
    BY <1>0, <2>1, LoadTypes DEF LoadFor
  <2>4. loading' \in BOOLEAN
    BY <1>0, <2>1 DEF LoadFor, TypeOK
  <2> QED
    BY <1>0, <1>7, <1>9, <2>1, <2>2, <2>3, <2>4 DEF Reload, Inv, TypeOK, PressType, AnswerType, Flags
<1>10. ASSUME NEW i \in Presses, Refetch(i) PROVE Inv'
  <2>1. Returned(i) /\ press' = [press EXCEPT ![i] = Over] /\ LoadFor(i)
       /\ Lower(press[i].op, press[i].call)
    BY <1>10 DEF Refetch
  <2>2. Typed' /\ Working'
    BY <1>7, <2>1, PressEnds
  <2>3. (load \in [Loads -> [phase : {"idle", "asked", "served", "ended"}, rows : ViewType]])'
    BY <1>0, <2>1, LoadTypes DEF LoadFor
  <2>4. loading' \in BOOLEAN
    BY <1>0, <2>1 DEF LoadFor, TypeOK
  <2>5. (raised \subseteq Flags(page))' /\ (slot \in Rows \cup {0})'
    BY <1>0, <1>7, <2>1, LowerType
  <2> QED
    BY <1>0, <1>7, <1>10, <2>1, <2>2, <2>3, <2>4, <2>5 DEF Refetch, Inv, TypeOK, PressType, AnswerType
<1>11. ASSUME NEW i \in Presses, LeavePage(i) PROVE Inv'
  <2>1. Returned(i) /\ press' = [press EXCEPT ![i] = Over]
    BY <1>11 DEF LeavePage
  <2>2. Typed' /\ Working'
    BY <1>7, <2>1, PressEnds
  <2> QED
    BY <1>0, <1>7, <1>11, <2>1, <2>2 DEF LeavePage, Inv, TypeOK, PressType, AnswerType, Flags
<1>12. ASSUME NEW i \in Presses, Finish(i) PROVE Inv'
  <2>1. Returned(i) /\ press' = [press EXCEPT ![i] = Over]
       /\ Lower(press[i].op, press[i].call)
    BY <1>12 DEF Finish
  <2>2. Typed' /\ Working'
    BY <1>7, <2>1, PressEnds
  <2>3. (raised \subseteq Flags(page))' /\ (slot \in Rows \cup {0})'
    BY <1>0, <1>7, <2>1, LowerType
  <2> QED
    BY <1>0, <1>7, <1>12, <2>1, <2>2, <2>3 DEF Finish, Inv, TypeOK, PressType, AnswerType
<1>13. ASSUME NEW i \in Presses, Fail(i) PROVE Inv'
  <2>1. Typed' /\ Working'
    BY <1>13, PressEnds DEF Fail
  <2>2. (raised \subseteq Flags(page))' /\ (slot \in Rows \cup {0})'
    BY <1>0, <1>13, LowerType DEF Fail
  <2>3. press[i].op.fatal \in BOOLEAN
    BY <1>13, WorkFacts, PageFacts DEF Fail, Pending, Inv, IsOp
  <2> QED
    BY <1>0, <1>13, <2>1, <2>2, <2>3 DEF Fail, Inv, TypeOK, PressType, AnswerType
<1>14. ASSUME NEW k \in Loads, ServeLoad(k) PROVE Inv'
  <2>1. Loaded("served", Snapshot) \in [phase : {"idle", "asked", "served", "ended"}, rows : ViewType]
    BY <1>0, LoadTypes DEF Loaded
  <2>2. (load \in [Loads -> [phase : {"idle", "asked", "served", "ended"}, rows : ViewType]])'
    BY <1>0, <1>14, <2>1 DEF ServeLoad, TypeOK
  <2> QED
    BY <1>0, <1>14, <2>2
    DEF ServeLoad, Inv, TypeOK, PressType, AnswerType, Flags, Working, Sound
<1>15. ASSUME NEW k \in Loads, EndLoad(k), view' \in ViewType, acked' \in [Rows -> Nat],
             known' \in BOOLEAN, left' \in BOOLEAN
       PROVE  Inv'
  <2>1. page' = page /\ load' = [load EXCEPT ![k] = Empty("ended")]
    BY <1>15 DEF EndLoad
  <2>2. (load \in [Loads -> [phase : {"idle", "asked", "served", "ended"}, rows : ViewType]])'
    BY <1>0, <2>1, LoadTypes
  <2>3. Typed' /\ Working' /\ (raised \subseteq Flags(page))' /\ (slot \in Rows \cup {0})'
    <3>1. CASE Awaited(k)
      <4>1. k \in Presses /\ press' = [press EXCEPT ![k] = Over] /\ Lower(press[k].op, press[k].call)
        BY <1>15, <3>1 DEF EndLoad, Awaited
      <4> QED
        BY <1>0, <2>1, <4>1, PressEnds, LowerType
    <3>2. CASE ~Awaited(k)
      BY <1>0, <1>15, <2>1, <3>2
      DEF EndLoad, Inv, TypeOK, PressType, AnswerType, Flags, Working, Sound
    <3> QED
      BY <3>1, <3>2
  <2> QED
    BY <1>0, <1>15, <2>1, <2>2, <2>3 DEF EndLoad, Inv, TypeOK, PressType, AnswerType
<1>16. ASSUME NEW k \in Loads, ApplyLoad(k) PROVE Inv'
  <2>1. view' \in ViewType
    BY <1>0, <1>16 DEF ApplyLoad, TypeOK
  <2>2. acked' \in [Rows -> Nat]
    <3>1. CASE Awaited(k)
      <4>1. press[k].answer \in AnswerType
        BY <1>0, <3>1 DEF Awaited, PressType
      <4> QED
        BY <1>0, <1>16, <3>1, <4>1 DEF ApplyLoad, Told, AnswerType, TypeOK
    <3> QED
      BY <1>0, <1>16, <3>1 DEF ApplyLoad, TypeOK
  <2>3. known' \in BOOLEAN /\ left' \in BOOLEAN
    BY <1>0, <1>16 DEF ApplyLoad, TypeOK
  <2> QED
    BY <1>15, <1>16, <2>1, <2>2, <2>3 DEF ApplyLoad
<1>17. ASSUME NEW k \in Loads, FailLoad(k) PROVE Inv'
  <2>1. view' \in ViewType
    BY <1>0, <1>17 DEF FailLoad, TypeOK, ViewType, Hidden, Showing, Statuses
  <2>2. left' \in BOOLEAN
    BY <1>17 DEF FailLoad
  <2>3. known' \in BOOLEAN /\ acked' \in [Rows -> Nat]
    BY <1>0, <1>17 DEF FailLoad, TypeOK
  <2> QED
    BY <1>15, <1>17, <2>1, <2>2, <2>3 DEF FailLoad
<1>18. CASE ChangeParam \/ Expand
  <2>0. LoadAgain
    BY <1>18 DEF ChangeParam, Expand
  <2>1. (load \in [Loads -> [phase : {"idle", "asked", "served", "ended"}, rows : ViewType]])'
    BY <1>0, <2>0, LoadTypes DEF LoadAgain, LoadFor
  <2>2. loading' \in BOOLEAN /\ hurried' \in BOOLEAN
    BY <1>0, <2>0 DEF LoadAgain, LoadFor, TypeOK
  <2> QED
    BY <1>0, <2>0, <2>1, <2>2
    DEF LoadAgain, Inv, TypeOK, PressType, AnswerType, Flags, Working, Sound
<1>19. CASE OtherUser
  <2>1. server' \in [Rows -> [status : Statuses, rev : Nat]]
    <3>1. ASSUME NEW r \in Rows, NEW s \in StatusesOf(page) \cup {"deleted"}, NEW rev \in Nat,
                 server' = [server EXCEPT ![r] = Stored(s, rev)]
          PROVE  server' \in [Rows -> [status : Statuses, rev : Nat]]
      BY <1>0, <3>1, PageFacts DEF TypeOK, Stored, Statuses
    <3>2. NewRows \subseteq Rows /\ \A r \in Rows : server[r].rev + 1 \in Nat
      BY <1>0 DEF NewRows, Spare, TypeOK
    <3> QED
      BY <1>0, <1>19, <3>1, <3>2 DEF OtherUser
  <2> QED
    BY <1>0, <1>19, <2>1
    DEF OtherUser, Disturb, Inv, TypeOK, PressType, AnswerType, Flags, Working, Sound
<1>20. CASE UNCHANGED vars
  BY <1>20 DEF vars, Inv, TypeOK, PressType, AnswerType, Flags, Working, Sound
<1> QED
  BY <1>1, <1>3, <1>5, <1>6, <1>8, <1>9, <1>10, <1>11, <1>12, <1>13, <1>14, <1>16, <1>17,
     <1>18, <1>19, <1>20 DEF Next, Handle, Return

LEMMA InitInv == Init => Inv
<1> SUFFICES ASSUME Init PROVE Inv
  OBVIOUS
<1>1. /\ Hidden \in [n : Nat, status : Statuses, rev : Nat]
      /\ Unused \in PressType
  BY DEF Hidden, Showing, Statuses, Unused, NoOp, PressType, AnswerType, Phases
<1>2. page \in Pages /\ StatusesOf(page) \subseteq Statuses
  BY DEF Init, Statuses
<1>3. server \in [Rows -> [status : Statuses, rev : Nat]]
  BY <1>2 DEF Init, Stored, Statuses
<1>4. view \in ViewType
  BY <1>1 DEF Init, ViewType
<1>5. press \in [Presses -> PressType]
  BY <1>1 DEF Init
<1>6. load \in [Loads -> [phase : {"idle", "asked", "served", "ended"}, rows : ViewType]]
  BY <1>1 DEF Init, Empty, Loaded, ViewType
<1>7. Working
  BY DEF Init, Working, Sound, Unused
<1> QED
  BY <1>2, <1>3, <1>4, <1>5, <1>6, <1>7 DEF Init, Inv, TypeOK, PressType, AnswerType

LEMMA Typed == Spec => []Inv
BY InitInv, InvStep, PTL DEF Spec

\* The page has its types, whatever it is a page of.
THEOREM TypesHold == Spec => []TypeOK
<1>1. Inv => TypeOK
  BY DEF Inv
<1> QED
  BY <1>1, Typed, PTL

-----------------------------------------------------------------------------
(* Flags.  That of a control is put up by a press that finds it down, and   *)
(* taken down by the one handler that put it up; that of a function which   *)
(* other controls call as well goes up and down with each of them.          *)

\* No handler begins or ends, and no flag changes.
LEMMA FlagsStay ==
  ASSUME OneInFlightPerFlag, UNCHANGED <<page, raised, left>>,
         \A j \in Presses : press'[j].op = press[j].op /\ press'[j].call = press[j].call
                             /\ (Pending(j)' <=> Pending(j))
  PROVE  OneInFlightPerFlag'
<1>1. \A f : Holding(f)' = Holding(f)
  BY DEF Holding, Inner
<1> QED
  BY <1>1 DEF OneInFlightPerFlag, Flags, Nested

\* A handler ends, and takes its flags down.
LEMMA FlagLowered ==
  ASSUME Inv, OneInFlightPerFlag, NEW i \in Presses, Pending(i), ~left, page' = page,
         press' = [press EXCEPT ![i] = Over], Lower(press[i].op, press[i].call)
  PROVE  OneInFlightPerFlag'
<1> DEFINE up == {press[i].op.flag} \cup Inner(press[i].op, press[i].call)
<1>1. ~Pending(i)' /\ \A j \in Presses : j # i => press'[j] = press[j]
  BY DEF Inv, TypeOK, Pending, Over, Unused
<1>2. \A f : Holding(f)' = Holding(f) \ {i}
  BY <1>1 DEF Holding, Pending, Inner
<1>3. ASSUME NEW f \in Flags(page), f \notin up PROVE Holding(f)' = Holding(f)
  BY <1>2, <1>3 DEF Holding
<1>4. ASSUME NEW f \in Flags(page), f \in up, f \notin Nested(page) PROVE Holding(f)' = {}
  <2>1. i \in Holding(f)
    BY <1>4 DEF Holding
  <2> QED
    BY <1>2, <1>4, <2>1 DEF OneInFlightPerFlag
<1>5. raised' = raised \ up
  BY DEF Lower
<1> HIDE DEF up
<1>6. Flags(page)' = Flags(page) /\ Nested(page)' = Nested(page)
  BY DEF Flags, Nested
<1> QED
  BY <1>2, <1>3, <1>4, <1>5, <1>6 DEF OneInFlightPerFlag

LEMMA FlagStep == Inv /\ OneInFlightPerFlag /\ [Next]_vars => OneInFlightPerFlag'
<1> SUFFICES ASSUME Inv, OneInFlightPerFlag, [Next]_vars PROVE OneInFlightPerFlag'
  OBVIOUS
<1> USE DEF flags, ServerOnly
<1>0. press \in [Presses -> PressType]
  BY DEF Inv, TypeOK, PressType, AnswerType
<1>1. ASSUME NEW i \in Presses, NEW op \in page.ops, NEW r \in Rows \cup {0}, Press(i, op, r)
      PROVE  OneInFlightPerFlag'
  <2>1. /\ ~left /\ left' = left /\ page' = page /\ op.flag \notin raised /\ ~Pending(i)
        /\ raised' = raised \cup ({op.flag} \ {NoFlag, RowSlot}) \cup Inner(op, 1)
    BY <1>1 DEF Press, Start, Disabled, Raise, Pending, Unused
  <2>2. /\ press'[i].op = op /\ press'[i].call = 1 /\ Pending(i)'
        /\ \A j \in Presses : j # i => press'[j] = press[j]
    BY <1>0, <1>1 DEF Press, Start, Pending, Unused
  <2> DEFINE up == {op.flag} \cup Inner(op, 1)
  <2>3. \A f : Holding(f)' = IF f \in up THEN Holding(f) \cup {i} ELSE Holding(f)
    BY <2>1, <2>2 DEF Holding, Pending, Inner
  <2>4. Inner(op, 1) \subseteq Nested(page)
    <3>1. 1 \in DOMAIN op.calls
      BY PageFacts DEF Inv, IsOp
    <3> QED
      BY <3>1, CallFacts DEF Inv
  <2>5. ASSUME NEW f \in Flags(page), f = op.flag, f \notin Nested(page)
        PROVE  Holding(f) = {} /\ f \in raised'
    BY <2>1, <2>5 DEF OneInFlightPerFlag, Flags
  <2>6. Flags(page)' = Flags(page) /\ Nested(page)' = Nested(page)
    BY <2>1 DEF Flags, Nested
  <2>7. ASSUME NEW f \in Flags(page), f \in raised' PROVE Holding(f)' # {}
    BY <2>1, <2>3, <2>7 DEF OneInFlightPerFlag
  <2>8. ASSUME NEW f \in Flags(page), f \notin Nested(page)
        PROVE  /\ \A j, l \in Holding(f)' : j = l
               /\ Holding(f)' # {} => f \in raised'
    BY <2>1, <2>3, <2>4, <2>5, <2>8 DEF OneInFlightPerFlag
  <2> QED
    BY <2>6, <2>7, <2>8 DEF OneInFlightPerFlag
<1>2. ASSUME NEW i \in Presses, Pending(i), 
             NEW phase \in {"cleared", "checked", "failed", "reloading"},
             Becomes(i, phase), UNCHANGED <<page, raised, left>>
      PROVE  OneInFlightPerFlag'
  <2>1. \A j \in Presses : press'[j].op = press[j].op /\ press'[j].call = press[j].call
                            /\ (Pending(j)' <=> Pending(j))
    BY <1>0, <1>2 DEF Becomes, Pending, PressType
  <2> QED
    BY <1>2, <2>1, FlagsStay
<1>3. ASSUME NEW i \in Presses, Handle(i) PROVE OneInFlightPerFlag'
  <2>1. Pending(i)
    BY <1>3 DEF Handle, ClearOthers, Serve, Check, ServeChecked, Refuse, Pending
  <2>2. CASE Write(i)
    <3>1. Does(i).test # "insert" => press[i].row \in Rows
      BY <2>1, WorkFacts DEF Inv, Working, Sound, Pending, Does, This, PressType
    <3>2. UNCHANGED <<page, raised, left>>
      BY <1>3 DEF Handle, ClearOthers, Serve, Check, ServeChecked, Refuse
    <3>3. \A j \in Presses : press'[j].op = press[j].op /\ press'[j].call = press[j].call
                              /\ (Pending(j)' <=> Pending(j))
      BY <2>1, <2>2, <3>1, <3>2, WriteEffect DEF Pending
    <3> QED
      BY <3>2, <3>3, FlagsStay
  <2> QED
    BY <1>2, <1>3, <2>1, <2>2 DEF Handle, ClearOthers, Serve, Check, ServeChecked, Refuse
<1>4. ASSUME NEW i \in Presses, Lose(i) PROVE OneInFlightPerFlag'
  <2>1. Pending(i)
    BY <1>4 DEF Lose, Pending
  <2> QED
    BY <1>2, <1>4, <2>1 DEF Lose
<1>5. ASSUME NEW i \in Presses, Return(i) PROVE OneInFlightPerFlag'
  <2>1. Pending(i) /\ ~left /\ page' = page
    BY <1>5 DEF Return, GoOn, Reload, Refetch, LeavePage, Finish, Fail, Returned, Pending
  <2>2. CASE GoOn(i)
    <3> DEFINE op == press[i].op
               n == press[i].call
    <3>1. /\ \A j \in Presses : press'[j].op = press[j].op /\ (Pending(j)' <=> Pending(j))
          /\ press'[i].call = n + 1 /\ \A j \in Presses : j # i => press'[j] = press[j]
      BY <1>0, <2>1, <2>2 DEF GoOn, Pending, PressType
    <3>2. raised' = (raised \ Inner(op, n)) \cup Inner(op, n + 1) /\ left' = left
      BY <2>2 DEF GoOn
    <3>3. Inner(op, n) \subseteq Nested(page) /\ Inner(op, n + 1) \subseteq Nested(page)
      <4>1. n + 1 \in DOMAIN op.calls /\ op \in page.ops
        BY <2>1, <2>2, WorkFacts, PageFacts DEF GoOn, More, Inv, IsOp, PressType
      <4> QED
        BY <2>1, <4>1, WorkFacts, CallFacts DEF Inv
    <3>4. \A f : \A j \in Presses : j # i => (j \in Holding(f)' <=> j \in Holding(f))
      BY <3>1 DEF Holding, Pending, Inner
    <3>5. \A f : /\ i \in Holding(f) <=> f \in {op.flag} \cup Inner(op, n)
                 /\ i \in Holding(f)' <=> f \in {op.flag} \cup Inner(op, n + 1)
      BY <2>1, <3>1 DEF Holding, Inner
    <3>6. Flags(page)' = Flags(page) /\ Nested(page)' = Nested(page)
      BY <2>1 DEF Flags, Nested
    <3>7. ASSUME NEW f \in Flags(page), f \in raised' PROVE Holding(f)' # {}
      <4>1. CASE f \in Inner(op, n + 1)
        BY <3>5, <4>1
      <4>2. CASE f \in raised /\ f \notin Inner(op, n)
        <5>1. PICK j \in Presses : j \in Holding(f)
          BY <2>1, <4>2 DEF OneInFlightPerFlag, Holding
        <5> QED
          BY <3>4, <3>5, <4>2, <5>1
      <4> QED
        BY <3>2, <3>7, <4>1, <4>2
    <3>8. ASSUME NEW f \in Flags(page), f \notin Nested(page)
          PROVE  Holding(f)' = Holding(f) /\ (f \in raised' <=> f \in raised)
      <4>1. Holding(f)' \subseteq Presses /\ Holding(f) \subseteq Presses
        BY DEF Holding
      <4>2. i \in Holding(f)' <=> i \in Holding(f)
        BY <3>3, <3>5, <3>8
      <4> QED
        BY <3>2, <3>3, <3>4, <3>8, <4>1, <4>2
    <3> QED
      BY <2>1, <3>2, <3>6, <3>7, <3>8 DEF OneInFlightPerFlag
  <2>3. CASE Reload(i)
    BY <1>2, <2>1, <2>3 DEF Reload
  <2>4. CASE Refetch(i) \/ Finish(i) \/ Fail(i)
    BY <2>1, <2>4, FlagLowered DEF Refetch, Finish, Fail
  <2>5. CASE LeavePage(i)
    <3>1. \A f : Holding(f)' \subseteq Holding(f)
      BY <1>0, <2>5 DEF LeavePage, Holding, Pending, Over, Unused, Inner
    <3> QED
      BY <2>1, <2>5, <3>1 DEF LeavePage, OneInFlightPerFlag, Flags, Nested
  <2> QED
    BY <1>5, <2>2, <2>3, <2>4, <2>5 DEF Return
<1>6. ASSUME NEW k \in Loads, ApplyLoad(k) \/ FailLoad(k) PROVE OneInFlightPerFlag'
  <2>1. EndLoad(k) /\ ~left /\ page' = page
    BY <1>6 DEF ApplyLoad, FailLoad, EndLoad
  <2>2. CASE Awaited(k)
    <3>1. k \in Presses /\ Pending(k)
      BY <2>2 DEF Awaited, Pending
    <3> QED
      BY <2>1, <2>2, <3>1, FlagLowered DEF EndLoad
  <2>3. CASE ~Awaited(k)
    <3>1. left' = left /\ UNCHANGED <<press, raised>>
      BY <1>6, <2>1, <2>3 DEF ApplyLoad, FailLoad, EndLoad, Inv, TypeOK
    <3> QED
      BY <2>1, <3>1, FlagsStay DEF Pending
  <2> QED
    BY <2>2, <2>3
<1>7. CASE (\E k \in Loads : ServeLoad(k)) \/ ChangeParam \/ Expand \/ OtherUser \/ UNCHANGED vars
  <2>1. UNCHANGED <<page, press, raised, left>>
    BY <1>7 DEF ServeLoad, ChangeParam, Expand, LoadAgain, OtherUser, vars
  <2> QED
    BY <2>1, FlagsStay DEF Pending
<1> QED
  BY <1>1, <1>3, <1>4, <1>5, <1>6, <1>7 DEF Next

\* On every page: a control with a flag of its own has one request under way at
\* most, and the flag is up exactly while it has; one that is raised through
\* other controls as well is up only while one of them is at work.
THEOREM OneInFlight == Spec => []OneInFlightPerFlag
<1>1. Init => OneInFlightPerFlag
  BY DEF Init, OneInFlightPerFlag, Holding, Pending, Unused, Inner
<1> QED
  BY <1>1, Typed, FlagStep, PTL DEF Spec
=============================================================================
